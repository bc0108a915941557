---------------------------- MODULE RingOramProofs ----------------------------
(***************************************************************************)
(* Proofs about RingOram, for every size of the tree, the buckets, the     *)
(* stash, the position map and the PLB.  IndInv is shown inductive in two  *)
(* parts: TypeOK on its own, then the other conjuncts together.  The last  *)
(* section bounds the stash.                                               *)
(***************************************************************************)
EXTENDS RingOram, OramTreeProofs

-------------------------------------------------------------------------------
(* There are finitely many slot contents, so the stash and every bucket    *)
(* are finite.                                                             *)
LEMMA SlotFinite == IsFiniteSet(Slot)
<1>1. IsFiniteSet(Block)
  BY BlockAssumption, FS_Union DEF Block
<1>. QED  BY <1>1, RecordsFinite DEF Slot

(* A set of slots is finite.                                               *)
LEMMA SlotsFinite ==
  ASSUME NEW S \in SUBSET Slot
  PROVE  IsFiniteSet(S) /\ Cardinality(S) \in Nat
BY SlotFinite, FS_Subset, FS_CardinalityType
-------------------------------------------------------------------------------
(* Every variable keeps its type. *)
LEMMA TypeInit == Init => TypeOK
<1>. SUFFICES ASSUME Init
              PROVE  TypeOK
  OBVIOUS
<1>1. tree \in [Node -> SUBSET Slot]
  BY DEF Init, Slot
<1>2. dumvalid \in [Node -> Int]
  <2>1. \A n \in Node : LZ - Cardinality(tree[n]) \in Int
    BY <1>1, SlotsFinite, SizeAssumption DEF LZ
  <2>. QED  BY <2>1 DEF Init
<1>3. plb \in [PlbSets -> Pos \cup {NONE}]
  BY DEF Init
<1>4. /\ ring_round \in 0 .. RING_A - 1
      /\ i_saved \in 0 .. H - 2
  BY SizeAssumption DEF Init
<1>5. /\ ring_G \in Path /\ label \in Path /\ evict_label \in Path
      /\ lvl \in Level
  BY FirstAndLast DEF Init
<1>6. PosMap \in [Block -> Path] /\ count \in [Node -> Nat] /\ stash \in SUBSET Slot
  BY DEF Init
<1>7. pc \in Control /\ err \in Errors
  BY DEF Init, Control, Errors
<1>8. req \in Data \cup {NONE} /\ cur \in Block \cup {NONE} /\ pinFlag \in BOOLEAN /\ stash_occu \in Nat
  BY DEF Init
<1>. QED  BY <1>1, <1>2, <1>3, <1>4, <1>5, <1>6, <1>7, <1>8 DEF TypeOK

(* The position-map block an access is made for is a block of the tree. *)
LEMMA PosTagType ==
  ASSUME TypeOK, req # NONE, i_saved >= 1
  PROVE  PosTag[req][i_saved] \in Pos
BY PosmapAssumption, SizeAssumption DEF TypeOK

(* A step of the program keeps every variable in its range.                *)
LEMMA TypeNext == TypeOK /\ AccessPhase /\ [Next]_vars => TypeOK'
<1>. SUFFICES ASSUME TypeOK, AccessPhase, [Next]_vars
              PROVE  TypeOK'
  OBVIOUS
<1>. USE DEF TypeOK
<1>1. ASSUME NEW a \in Data, StashHit(a)
      PROVE  TypeOK'
  BY <1>1 DEF StashHit, vars
<1>2. ASSUME NEW a \in Data, freecursive_access(a)
      PROVE  TypeOK'
  BY <1>2 DEF freecursive_access, oramVars, roundVars, accessVars, loopVars, Control
<1>3. ASSUME NEW b \in Block, NEW pin \in BOOLEAN, Enter(b, pin)
      PROVE  TypeOK'
  <2>1. Cardinality(stash) \in Nat
    BY SlotsFinite
  <2>2. PosMap[b] \in Path
    OBVIOUS
  <2>. QED  BY <1>3, <2>1, <2>2 DEF Enter, oramVars, roundVars, loopVars, Control
<1>4. CASE PosmapAccess
  <2>1. /\ PosTag[req][i_saved] \in Block
        /\ Enter(PosTag[req][i_saved], TRUE)
    BY <1>4, PosmapAssumption, PosTagType DEF PosmapAccess, At, AccessPhase, Block
  <2>. QED  BY <2>1, <1>3
<1>5. CASE PosmapInStash
  BY <1>5 DEF PosmapInStash, oramVars, roundVars, accessVars, loopVars, Control
<1>6. CASE DataAccess
  <2>1. req \in Block /\ Enter(req, FALSE)
    BY <1>6 DEF DataAccess, At, AccessPhase, Block
  <2>. QED  BY <2>1, <1>3
<1>7. CASE DataInStash
  BY <1>7 DEF DataInStash, oramVars, roundVars, accessVars, loopVars, Control
<1>8. ASSUME NEW p \in Path, DummyAccess(p)
      PROVE  TypeOK'
  <2>1. Cardinality(stash) \in Nat
    BY SlotsFinite
  <2>. QED  BY <1>8, <2>1 DEF DummyAccess, oramVars, roundVars, loopVars, Control
<1>9. CASE ring_read_path
  <2>. DEFINE path  == OnPath(label)
              found == { s \in UNION { tree[n] : n \in path } : s.addr = cur }
  <2>1. found \in SUBSET Slot
    BY OnPathLevel
  <2>2. tree' \in [Node -> SUBSET Slot] /\ stash' \in SUBSET Slot
    BY <1>9, <2>1 DEF ring_read_path
  <2>3. dumvalid' \in [Node -> Int] /\ count' \in [Node -> Nat]
    <3>1. \A n \in Node : dumvalid[n] \in Int /\ dumvalid[n] - 1 \in Int
      OBVIOUS
    <3>2. \A n \in Node : count[n] \in Nat /\ count[n] + 1 \in Nat
      OBVIOUS
    <3>3. /\ dumvalid' = [n \in Node |-> IF n \in path /\ ~Holds(n, cur)
                                        THEN dumvalid[n] - 1 ELSE dumvalid[n]]
          /\ count' = [n \in Node |-> IF n \in path THEN count[n] + 1 ELSE count[n]]
      BY <1>9 DEF ring_read_path
    <3>. HIDE DEF path, found
    <3>. QED  BY <3>1, <3>2, <3>3
  <2>4. err' \in Errors
    <3>1. err' \in { "no valid dummy", "stash overflow", "none" }
      BY <1>9 DEF ring_read_path, Check
    <3>. QED  BY <3>1 DEF Errors
  <2>5. pc' \in Control
    BY <1>9 DEF ring_read_path, Control
  <2>. QED  BY <1>9, <2>2, <2>3, <2>4, <2>5 DEF ring_read_path, roundVars, accessVars, loopVars
<1>10. ASSUME NEW p \in Path, remap_block(p)
       PROVE  TypeOK'
  <2>1. PosMap' \in [Block -> Path]
    BY <1>10 DEF remap_block
  <2>2. stash' \in SUBSET Slot
    <3>1. ASSUME NEW s \in stash
          PROVE  (IF s.addr = cur THEN [addr |-> cur, label |-> p] ELSE s) \in Slot
      BY <1>10, BlockAssumption DEF Slot, remap_block, At, AccessPhase
    <3>. QED  BY <1>10, <3>1 DEF remap_block, Relabel
  <2>3. pc' \in Control /\ err' \in Errors
    <3>1. pc' = "round" /\ err' \in { "not in stash", "none" }
      BY <1>10 DEF remap_block, Check
    <3>. QED  BY <3>1 DEF Control, Errors
  <2>. QED  BY <1>10, <2>1, <2>2, <2>3 DEF remap_block, roundVars, accessVars, loopVars
<1>11. CASE NoEviction
  <2>1. ring_round' \in 0 .. RING_A - 1
    BY <1>11, SizeAssumption DEF NoEviction
  <2>. QED  BY <1>11, <2>1, FirstAndLast DEF NoEviction, oramVars, accessVars, Control
<1>12. CASE ring_evict_path
  <2>. DEFINE path   == OnPath(evict_label')
              pulled == UNION { tree[n] : n \in path }
  <2>1. evict_label' \in Path
    BY <1>12, EvictedPath DEF ring_evict_path
  <2>2. pulled \in SUBSET Slot
    BY <2>1, OnPathLevel
  <2>3. tree' \in [Node -> SUBSET Slot] /\ stash' \in SUBSET Slot
    BY <1>12, <2>2 DEF ring_evict_path
  <2>4. dumvalid' \in [Node -> Int]
    <3>1. dumvalid' = [n \in Node |-> IF n \in path THEN 0 ELSE dumvalid[n]]
      BY <1>12 DEF ring_evict_path
    <3>. HIDE DEF path, pulled
    <3>. QED  BY <3>1
  <2>5. err' \in Errors
    <3>1. err' = Check(\E n \in path : ShortOfDummies(n), "remainCount",
                 Check(Cardinality(stash \cup pulled) > STASH_SIZE, "stash overflow", "none"))
      BY <1>12 DEF ring_evict_path
    <3>. HIDE DEF path, pulled, TypeOK
    <3>. QED  BY <3>1 DEF Check, Errors
  <2>6. ring_G' \in Path
    <3>1. ring_G' = (ring_G + 1) % PATH
      BY <1>12 DEF ring_evict_path, NextEviction
    <3>2. ring_G + 1 \in Nat
      BY PathPositive DEF Path
    <3>3. (ring_G + 1) % PATH \in 0 .. PATH - 1
      BY <3>2, PathPositive, ModType
    <3>. QED  BY <3>1, <3>3 DEF Path
  <2>7. ring_round' \in 0 .. RING_A - 1
    <3>1. ring_round' = 0
      BY <1>12 DEF ring_evict_path
    <3>. QED  BY <3>1, SizeAssumption
  <2>. QED  BY <1>12, <2>1, <2>3, <2>4, <2>5, <2>6, <2>7, FirstAndLast
            DEF ring_evict_path, accessVars, Control
<1>13. ASSUME NEW n \in Node, NEW W \in SUBSET Slot, write_bucket(n, W)
       PROVE  /\ tree' \in [Node -> SUBSET Slot]
              /\ dumvalid' \in [Node -> Int]
              /\ count' \in [Node -> Nat]
  <2>1. LZ - Cardinality(W) \in Int
    BY SlotsFinite, SizeAssumption DEF LZ
  <2>. QED  BY <1>13, <2>1 DEF write_bucket
<1>14. ASSUME NEW W \in SUBSET stash, write_path(W)
       PROVE  TypeOK'
  <2>1. NodeAt(evict_label, lvl) \in Node
    BY NodeAtLevel
  <2>2. /\ tree' \in [Node -> SUBSET Slot]
        /\ dumvalid' \in [Node -> Int]
        /\ count' \in [Node -> Nat]
    BY <1>14, <1>13, <2>1 DEF write_path
  <2>3. lvl' \in Level /\ pc' \in Control
    BY <1>14, FirstAndLast DEF write_path, Level, Control
  <2>4. stash' \in SUBSET Slot
    BY <1>14 DEF write_path
  <2>. QED  BY <1>14, <2>2, <2>3, <2>4 DEF write_path, roundVars, accessVars
<1>15. ASSUME NextReshuffle
       PROVE  lvl' \in Level /\ pc' \in Control
  BY <1>15, FirstAndLast DEF NextReshuffle, Level, Control
<1>16. CASE NoReshuffle
  BY <1>16, <1>15 DEF NoReshuffle, oramVars, roundVars, accessVars
<1>17. ASSUME NEW W \in SUBSET (stash \cup tree[NodeAt(label, lvl)]), ring_early_reshuffle(W)
       PROVE  TypeOK'
  <2>1. NodeAt(label, lvl) \in Node
    BY NodeAtLevel
  <2>2. W \in SUBSET Slot
    BY <2>1
  <2>3. /\ tree' \in [Node -> SUBSET Slot]
        /\ dumvalid' \in [Node -> Int]
        /\ count' \in [Node -> Nat]
    BY <1>17, <1>13, <2>1, <2>2 DEF ring_early_reshuffle
  <2>4. stash' \in SUBSET Slot
    BY <1>17, <2>1 DEF ring_early_reshuffle
  <2>5. err' \in Errors
    <3>1. err' \in { "remainCount", "stash overflow", "reshuffle grew stash", "none" }
      BY <1>17 DEF ring_early_reshuffle, Check
    <3>. QED  BY <3>1 DEF Errors
  <2>. QED  BY <1>17, <1>15, <2>3, <2>4, <2>5 DEF ring_early_reshuffle, roundVars, accessVars
<1>18. CASE EndAccess
  <2>1. pc' \in Control
    BY <1>18 DEF EndAccess, Control
  <2>2. req' \in Data \cup {NONE} /\ cur' \in Block \cup {NONE}
    BY <1>18 DEF EndAccess
  <2>. QED  BY <1>18, <2>1, <2>2, FirstAndLast DEF EndAccess, oramVars, roundVars
<1>19. CASE plb_fill
  <2>1. PosTag[req][i_saved] \in Pos /\ i_saved >= 1
    BY <1>19, PosTagType DEF plb_fill, At, AccessPhase
  <2>2. PlbIndex[PosTag[req][i_saved]] \in PlbSets
    BY <2>1, PosmapAssumption
  <2>3. Victim(PosTag[req][i_saved]) \in SUBSET Slot
    BY <2>2 DEF Victim, Slot, Block
  <2>4. stash' \in SUBSET Slot
    BY <1>19, <2>3 DEF plb_fill
  <2>5. plb' \in [PlbSets -> Pos \cup {NONE}]
    BY <1>19, <2>1, <2>2 DEF plb_fill
  <2>6. i_saved' \in 0 .. H - 2 /\ pc' \in Control
    <3>1. i_saved' = i_saved - 1 /\ pc' = "posmap"
      BY <1>19 DEF plb_fill
    <3>. QED  BY <3>1, <2>1, SizeAssumption DEF Control
  <2>7. err' \in Errors
    <3>1. err' \in { "already in stash", "stash overflow", "not in stash", "none" }
      BY <1>19 DEF plb_fill, Check
    <3>. QED  BY <3>1 DEF Errors
  <2>. QED  BY <1>19, <2>4, <2>5, <2>6, <2>7 DEF plb_fill, roundVars, accessVars, loopVars
<1>20. CASE UNCHANGED vars
  BY <1>20 DEF vars
<1>. QED
  BY <1>1, <1>2, <1>4, <1>5, <1>6, <1>7, <1>8, <1>9, <1>10, <1>11, <1>12, <1>14, <1>16,
     <1>17, <1>18, <1>19, <1>20 DEF Next

-------------------------------------------------------------------------------
(* Where the block of an access is when its path is read: in one bucket of *)
(* the path, since it is neither in the stash nor in the PLB.              *)
LEMMA AddrsAreBlocks ==
  ASSUME TypeOK
  PROVE  /\ \A n \in Node : \A s \in tree[n] : s \in Slot /\ s.addr \in Block
         /\ \A s \in stash : s \in Slot /\ s.addr \in Block
BY DEF TypeOK, Slot

(* The address of a dummy access is not the address of a block.            *)
LEMMA NoneIsNoBlock == NONE \notin Block
BY BlockAssumption DEF Block

(* The block ring_read_path looks for is not in the PLB.                   *)
LEMMA CurNotInPlb ==
  ASSUME IndInv, pc = "read", cur # NONE
  PROVE  ~InPlb(cur)
<1>1. CASE pinFlag
  <2>1. cur = PosTag[req][i_saved] /\ req # NONE /\ i_saved \in 1 .. i_saved
    BY <1>1 DEF IndInv, TypeOK, AccessPhase, Accessing
  <2>2. ~plb_access(cur)
    BY <2>1 DEF IndInv, AccessPhase
  <2>. QED  BY <2>2 DEF InPlb
<1>2. CASE ~pinFlag
  <2>1. cur = req
    BY <1>2 DEF IndInv, AccessPhase, Accessing
  <2>. QED  BY <2>1, BlockAssumption DEF IndInv, TypeOK, InPlb
<1>. QED  BY <1>1, <1>2

(* The block ring_read_path looks for is in one bucket of the path it reads. *)
LEMMA ReadFindsBlock ==
  ASSUME IndInv, pc = "read", cur # NONE
  PROVE  \E m \in OnPath(label), s \in Slot :
           /\ m \in Node
           /\ s.addr = cur
           /\ s \in tree[m]
           /\ \A n \in Node : \A t \in tree[n] : t.addr = cur => n = m /\ t = s
<1>1. InTree(cur)
  BY CurNotInPlb DEF IndInv, AccessPhase, SingleCopy, TypeOK
<1>2. PICK m \in Node : \E s \in tree[m] : s.addr = cur
  BY <1>1 DEF InTree, Holds
<1>3. PICK s \in tree[m] : s.addr = cur
  BY <1>2
<1>4. s \in Slot
  BY AddrsAreBlocks DEF IndInv
<1>5. s.label = label /\ NodeAt(s.label, m[1]) = m
  BY <1>3 DEF IndInv, BlockOnItsPath, AccessPhase
<1>6. m[1] \in Level
  BY NodeLevel
<1>7. m \in OnPath(label)
  BY <1>5, <1>6 DEF OnPath
<1>8. \A n \in Node : \A t \in tree[n] : t.addr = cur => n = m /\ t = s
  BY <1>3 DEF IndInv, SingleCopy
<1>. QED  BY <1>3, <1>4, <1>7, <1>8

(* What ring_read_path does to the tree and the stash. *)
LEMMA ReadPathEffect ==
  ASSUME IndInv, ring_read_path
  PROVE  \/ /\ cur = NONE
            /\ tree' = tree /\ stash' = stash
            /\ \A n \in Node : ~Holds(n, cur)
         \/ /\ cur # NONE
            /\ \E m \in OnPath(label), s \in Slot :
                 /\ m \in Node
                 /\ s.addr = cur
                 /\ s \in tree[m]
                 /\ \A n \in Node : \A t \in tree[n] : t.addr = cur => n = m /\ t = s
                 /\ tree' = [n \in Node |-> tree[n] \ {s}]
                 /\ stash' = stash \cup {s}
<1>. DEFINE path  == OnPath(label)
            found == { s \in UNION { tree[n] : n \in path } : s.addr = cur }
<1>1. /\ tree' = [n \in Node |-> IF n \in path THEN tree[n] \ found ELSE tree[n]]
      /\ stash' = stash \cup found
  BY DEF ring_read_path
<1>2. pc = "read" /\ label \in Path
  BY DEF ring_read_path, At, IndInv, TypeOK
<1>3. CASE cur = NONE
  <2>1. \A n \in Node : \A s \in tree[n] : s.addr # cur
    BY <1>3, AddrsAreBlocks, NoneIsNoBlock DEF IndInv
  <2>2. found = {}
    BY <2>1, <1>2, OnPathLevel
  <2>3. tree' = [n \in Node |-> tree[n]] /\ stash' = stash
    BY <1>1, <2>2
  <2>4. tree' = tree
    BY <2>3 DEF IndInv, TypeOK
  <2>. QED  BY <1>3, <2>1, <2>3, <2>4 DEF Holds
<1>4. CASE cur # NONE
  <2>1. PICK m \in OnPath(label), s \in Slot :
           /\ m \in Node
           /\ s.addr = cur
           /\ s \in tree[m]
           /\ \A n \in Node : \A t \in tree[n] : t.addr = cur => n = m /\ t = s
    BY <1>2, <1>4, ReadFindsBlock
  <2>2. found = {s}
    BY <2>1, <1>2, OnPathLevel
  <2>3. \A n \in Node : (IF n \in path THEN tree[n] \ found ELSE tree[n]) = tree[n] \ {s}
    BY <2>1, <2>2
  <2>4. tree' = [n \in Node |-> tree[n] \ {s}] /\ stash' = stash \cup {s}
    BY <1>1, <2>2, <2>3
  <2>. QED  BY <1>4, <2>1, <2>4
<1>. QED  BY <1>3, <1>4

-------------------------------------------------------------------------------
(* A block in the tree is on the path of its label, and labels agree with  *)
(* PosMap.  Only remap_block changes PosMap, of a block it has in the      *)
(* stash; only write_bucket puts blocks into the tree, after               *)
(* pick_candidate has compared their path with the bucket.                 *)
LEMMA WriteBucketOnPath ==
  ASSUME TypeOK, BlockOnItsPath, PosMap' = PosMap,
         NEW m \in Node, NEW S \in SUBSET Slot, NEW W \in SUBSET S,
         \A s \in S : s.label = PosMap[s.addr],
         W \subseteq pick_candidate(S, m),
         write_bucket(m, W),
         stash' = S \ W
  PROVE  BlockOnItsPath'
<1>1. \A n \in Node : \A s \in tree'[n] : s.label = PosMap'[s.addr] /\ NodeAt(s.label, n[1]) = n
  <2>1. ASSUME NEW n \in Node, NEW s \in tree'[n]
        PROVE  s.label = PosMap'[s.addr] /\ NodeAt(s.label, n[1]) = n
    <3>1. CASE n = m
      <4>1. s \in W
        BY <3>1, <2>1 DEF write_bucket, TypeOK
      <4>. QED  BY <4>1, <3>1 DEF pick_candidate
    <3>2. CASE n # m
      <4>1. s \in tree[n]
        BY <3>2, <2>1 DEF write_bucket, TypeOK
      <4>. QED  BY <4>1 DEF BlockOnItsPath
    <3>. QED  BY <3>1, <3>2
  <2>. QED  BY <2>1
<1>2. \A s \in stash' : s.label = PosMap'[s.addr]
  OBVIOUS
<1>. QED  BY <1>1, <1>2 DEF BlockOnItsPath

(* A step keeps every block of the tree on the path PosMap names.          *)
LEMMA PathNext == IndInv /\ [Next]_vars => BlockOnItsPath'
<1>. SUFFICES ASSUME IndInv, [Next]_vars
              PROVE  BlockOnItsPath'
  OBVIOUS
<1>. USE DEF IndInv
<1>1. ASSUME PosMap' = PosMap, tree' = tree, stash' = stash
      PROVE  BlockOnItsPath'
  BY <1>1 DEF BlockOnItsPath
<1>2. ASSUME NEW b, NEW pin, Enter(b, pin)
      PROVE  BlockOnItsPath'
  BY <1>1, <1>2 DEF Enter, oramVars
<1>3. CASE ring_read_path
  <2>1. CASE tree' = tree /\ stash' = stash
    BY <1>1, <1>3, <2>1 DEF ring_read_path
  <2>2. CASE \E m \in OnPath(label), s \in Slot :
               /\ m \in Node
               /\ s.addr = cur
               /\ s \in tree[m]
               /\ tree' = [n \in Node |-> tree[n] \ {s}]
               /\ stash' = stash \cup {s}
    <3>1. PICK m \in Node, s \in Slot :
               /\ s \in tree[m]
               /\ tree' = [n \in Node |-> tree[n] \ {s}]
               /\ stash' = stash \cup {s}
      BY <2>2
    <3>2. PosMap' = PosMap
      BY <1>3 DEF ring_read_path
    <3>. QED  BY <3>1, <3>2 DEF BlockOnItsPath
  <2>. QED  BY <1>3, <2>1, <2>2, ReadPathEffect
<1>4. ASSUME NEW p \in Path, remap_block(p)
      PROVE  BlockOnItsPath'
  <2>1. /\ PosMap' = [PosMap EXCEPT ![cur] = p]
        /\ stash' = Relabel(stash, cur, p)
        /\ tree' = tree
        /\ cur \in Block
        /\ stash_contain(cur)
    BY <1>4 DEF remap_block, At, AccessPhase, TypeOK
  <2>2. ~InTree(cur)
    BY <2>1 DEF SingleCopy
  <2>3. \A b \in Block : PosMap'[b] = IF b = cur THEN p ELSE PosMap[b]
    BY <2>1 DEF TypeOK
  <2>4. \A n \in Node : \A s \in tree'[n] : s.label = PosMap'[s.addr] /\ NodeAt(s.label, n[1]) = n
    BY <2>1, <2>2, <2>3, AddrsAreBlocks DEF InTree, Holds, BlockOnItsPath
  <2>5. ASSUME NEW s \in stash'
        PROVE  s.label = PosMap'[s.addr]
    <3>1. PICK t \in stash : s = IF t.addr = cur THEN [addr |-> cur, label |-> p] ELSE t
      BY <2>1 DEF Relabel
    <3>. QED  BY <3>1, <2>1, <2>3, AddrsAreBlocks DEF BlockOnItsPath
  <2>. QED  BY <2>4, <2>5 DEF BlockOnItsPath
<1>5. CASE ring_evict_path
  <2>. DEFINE path   == OnPath(evict_label')
              pulled == UNION { tree[n] : n \in path }
  <2>1. /\ tree' = [n \in Node |-> IF n \in path THEN {} ELSE tree[n]]
        /\ stash' = stash \cup pulled
        /\ PosMap' = PosMap
        /\ evict_label' \in Path
    BY <1>5, EvictedPath DEF ring_evict_path, TypeOK
  <2>2. \A n \in path : n \in Node
    BY <2>1, OnPathLevel
  <2>. HIDE DEF path
  <2>3. \A s \in pulled : s.label = PosMap[s.addr]
    BY <2>2 DEF BlockOnItsPath
  <2>. QED  BY <2>1, <2>3 DEF BlockOnItsPath
<1>6. ASSUME NEW W \in SUBSET stash, write_path(W)
      PROVE  BlockOnItsPath'
  <2>1. NodeAt(evict_label, lvl) \in Node
    BY NodeAtLevel DEF TypeOK
  <2>2. /\ W \subseteq pick_candidate(stash, NodeAt(evict_label, lvl))
        /\ write_bucket(NodeAt(evict_label, lvl), W)
        /\ stash' = stash \ W
        /\ PosMap' = PosMap
    BY <1>6 DEF write_path, Fills
  <2>3. \A s \in stash : s.label = PosMap[s.addr]
    BY DEF BlockOnItsPath
  <2>. QED  BY <2>1, <2>2, <2>3, WriteBucketOnPath DEF TypeOK
<1>7. ASSUME NEW W \in SUBSET (stash \cup tree[NodeAt(label, lvl)]), ring_early_reshuffle(W)
      PROVE  BlockOnItsPath'
  <2>1. PICK m \in Node : m = NodeAt(label, lvl)
    BY NodeAtLevel DEF TypeOK
  <2>. DEFINE mid == stash \cup tree[m]
  <2>2. /\ W \subseteq pick_candidate(mid, m)
        /\ write_bucket(m, W)
        /\ stash' = mid \ W
        /\ PosMap' = PosMap
    BY <1>7, <2>1 DEF ring_early_reshuffle, Fills
  <2>3. \A s \in mid : s.label = PosMap[s.addr]
    BY <2>1 DEF BlockOnItsPath
  <2>4. mid \in SUBSET Slot
    BY <2>1 DEF TypeOK
  <2>. QED  BY <2>1, <2>2, <2>3, <2>4, WriteBucketOnPath
<1>8. CASE plb_fill
  <2>. DEFINE tag  == PosTag[req][i_saved]
              back == Victim(tag)
  <2>1. /\ stash' = { s \in stash \cup back : s.addr # tag }
        /\ tree' = tree /\ PosMap' = PosMap
    BY <1>8 DEF plb_fill
  <2>2. \A s \in back : s.label = PosMap[s.addr]
    BY DEF Victim
  <2>. QED  BY <2>1, <2>2 DEF BlockOnItsPath
<1>9. CASE \E a \in Data : StashHit(a)
  BY <1>1, <1>9 DEF StashHit, vars
<1>10. CASE \E a \in Data : freecursive_access(a)
  BY <1>1, <1>10 DEF freecursive_access, oramVars
<1>11. CASE PosmapAccess
  BY <1>2, <1>11 DEF PosmapAccess
<1>12. CASE PosmapInStash
  BY <1>1, <1>12 DEF PosmapInStash, oramVars
<1>13. CASE DataAccess
  BY <1>2, <1>13 DEF DataAccess
<1>14. CASE DataInStash
  BY <1>1, <1>14 DEF DataInStash, oramVars
<1>15. CASE \E p \in Path : DummyAccess(p)
  BY <1>1, <1>15 DEF DummyAccess, oramVars
<1>16. CASE NoEviction
  BY <1>1, <1>16 DEF NoEviction, oramVars
<1>17. CASE NoReshuffle
  BY <1>1, <1>17 DEF NoReshuffle, oramVars
<1>18. CASE EndAccess
  BY <1>1, <1>18 DEF EndAccess, oramVars
<1>19. CASE UNCHANGED vars
  BY <1>1, <1>19 DEF vars
<1>. QED
  BY <1>3, <1>4, <1>5, <1>6, <1>7, <1>8, <1>9, <1>10, <1>11, <1>12, <1>13, <1>14, <1>15,
     <1>16, <1>17, <1>18, <1>19 DEF Next

-------------------------------------------------------------------------------
(* Every block is in one place.  Five actions move blocks; each has its own *)
(* lemma, and the other actions leave tree, stash and PLB alone.           *)
LEMMA CopyFrame ==
  ASSUME SingleCopy, tree' = tree, plb' = plb,
         \A b \in Block : stash_contain(b)' <=> stash_contain(b),
         \A s, t \in stash' : s.addr = t.addr => s = t
  PROVE  SingleCopy'
BY DEF SingleCopy, InTree, Holds, InPlb, plb_access

(* ring_read_path moves the block it finds from its bucket to the stash.   *)
LEMMA CopyRead ==
  ASSUME IndInv, ring_read_path
  PROVE  SingleCopy'
<1>. USE DEF IndInv
<1>1. plb' = plb
  BY DEF ring_read_path
<1>2. CASE tree' = tree /\ stash' = stash
  BY <1>1, <1>2 DEF SingleCopy, InTree, Holds, InPlb, plb_access, stash_contain
<1>3. ASSUME NEW m \in Node, NEW s \in Slot,
             s \in tree[m],
             s.addr = cur,
             tree' = [n \in Node |-> tree[n] \ {s}],
             stash' = stash \cup {s}
      PROVE  SingleCopy'
  <2>1. s.addr \in Block
    BY DEF Slot
  <2>2. /\ \A b \in Block : stash_contain(b)' <=> stash_contain(b) \/ b = s.addr
        /\ \A b \in Block : InPlb(b)' <=> InPlb(b)
    BY <1>1, <1>3 DEF stash_contain, InPlb, plb_access
  <2>3. \A b \in Block : InTree(b)' <=> InTree(b) /\ b # s.addr
    <3>1. \A n \in Node : \A t \in tree[n] : t.addr = s.addr => n = m /\ t = s
      BY <1>3 DEF SingleCopy
    <3>. QED  BY <1>3, <3>1 DEF InTree, Holds
  <2>4. InTree(s.addr)
    BY <1>3 DEF InTree, Holds
  <2>5. /\ \A b \in Block : InTree(b)' \/ stash_contain(b)' \/ InPlb(b)'
        /\ \A b \in Block : /\ ~(InTree(b)' /\ stash_contain(b)')
                            /\ ~(InTree(b)' /\ InPlb(b)')
                            /\ ~(stash_contain(b)' /\ InPlb(b)')
    BY <2>1, <2>2, <2>3, <2>4 DEF SingleCopy
  <2>6. \A n, k \in Node : \A t \in tree'[n], u \in tree'[k] : t.addr = u.addr => n = k /\ t = u
    BY <1>3 DEF SingleCopy
  <2>7. \A t, u \in stash' : t.addr = u.addr => t = u
    <3>1. \A t \in stash : t.addr # s.addr
      BY <2>1, <2>4 DEF SingleCopy, stash_contain
    <3>. QED  BY <1>3, <3>1 DEF SingleCopy
  <2>. QED  BY <2>5, <2>6, <2>7 DEF SingleCopy
<1>. QED  BY <1>2, <1>3, ReadPathEffect

(* remap_block changes a label and moves no block.                         *)
LEMMA CopyRemap ==
  ASSUME IndInv, NEW p \in Path, remap_block(p)
  PROVE  SingleCopy'
<1>. USE DEF IndInv
<1>1. /\ tree' = tree /\ plb' = plb
      /\ stash' = { IF s.addr = cur THEN [addr |-> cur, label |-> p] ELSE s : s \in stash }
  BY DEF remap_block, Relabel
<1>2. \A b \in Block : stash_contain(b)' <=> stash_contain(b)
  <2>1. ASSUME NEW s \in stash
        PROVE  (IF s.addr = cur THEN [addr |-> cur, label |-> p] ELSE s).addr = s.addr
    OBVIOUS
  <2>. QED  BY <1>1, <2>1 DEF stash_contain
<1>3. ASSUME NEW s \in stash', NEW t \in stash', s.addr = t.addr
      PROVE  s = t
  <2>1. PICK x \in stash : s = IF x.addr = cur THEN [addr |-> cur, label |-> p] ELSE x
    BY <1>1
  <2>2. PICK y \in stash : t = IF y.addr = cur THEN [addr |-> cur, label |-> p] ELSE y
    BY <1>1
  <2>3. x.addr = y.addr
    BY <1>3, <2>1, <2>2
  <2>4. x = y
    BY <2>3 DEF SingleCopy
  <2>. QED  BY <2>1, <2>2, <2>4
<1>. QED  BY <1>1, <1>2, <1>3, CopyFrame

(* ring_evict_path moves every block of the path to the stash.             *)
LEMMA CopyEvict ==
  ASSUME IndInv, ring_evict_path
  PROVE  SingleCopy'
<1>. USE DEF IndInv
<1>. DEFINE path   == OnPath(evict_label')
            pulled == UNION { tree[n] : n \in path }
<1>1. /\ tree' = [n \in Node |-> IF n \in path THEN {} ELSE tree[n]]
      /\ stash' = stash \cup pulled
      /\ plb' = plb
      /\ evict_label' \in Path
  BY EvictedPath DEF ring_evict_path, TypeOK
<1>2. \A n \in path : n \in Node
  BY <1>1, OnPathLevel
<1>3. \A s \in pulled : \E n \in Node : n \in path /\ s \in tree[n]
  BY <1>2
<1>. HIDE DEF path
<1>4. \A n \in Node : \A s \in tree[n] : n \in path => s \in pulled
  OBVIOUS
<1>. HIDE DEF pulled
<1>5. \A b \in Block : InPlb(b)' <=> InPlb(b)
  BY <1>1 DEF InPlb, plb_access
<1>6. ASSUME NEW b \in Block
      PROVE  /\ stash_contain(b)' <=> stash_contain(b) \/ \E s \in pulled : s.addr = b
             /\ InTree(b)' <=> \E n \in Node : n \notin path /\ \E s \in tree[n] : s.addr = b
  BY <1>1 DEF stash_contain, InTree, Holds
<1>7. ASSUME NEW b \in Block
      PROVE  /\ InTree(b)' \/ stash_contain(b)' \/ InPlb(b)'
             /\ ~(InTree(b)' /\ stash_contain(b)')
             /\ ~(InTree(b)' /\ InPlb(b)')
             /\ ~(stash_contain(b)' /\ InPlb(b)')
  <2>1. InTree(b) <=> InTree(b)' \/ \E s \in pulled : s.addr = b
    BY <1>3, <1>4, <1>6 DEF InTree, Holds
  <2>2. ~(InTree(b)' /\ \E s \in pulled : s.addr = b)
    BY <1>3, <1>6 DEF SingleCopy
  <2>. QED  BY <1>5, <1>6, <2>1, <2>2 DEF SingleCopy
<1>8. \A n, k \in Node : \A t \in tree'[n], u \in tree'[k] : t.addr = u.addr => n = k /\ t = u
  BY <1>1 DEF SingleCopy
<1>9. ASSUME NEW t \in stash', NEW u \in stash', t.addr = u.addr
      PROVE  t = u
  <2>1. ASSUME NEW s \in stash, NEW r \in pulled
        PROVE  s.addr # r.addr
    <3>1. s.addr \in Block
      BY AddrsAreBlocks
    <3>. QED  BY <3>1, <1>3 DEF SingleCopy, InTree, Holds, stash_contain
  <2>2. ASSUME NEW s \in pulled, NEW r \in pulled, s.addr = r.addr
        PROVE  s = r
    BY <1>3, <2>2 DEF SingleCopy
  <2>. QED  BY <1>1, <1>9, <2>1, <2>2 DEF SingleCopy
<1>. QED  BY <1>7, <1>8, <1>9 DEF SingleCopy

(* What is written into bucket m comes from a set S in which the blocks of *)
(* the stash and of the old bucket are, and the rest stays in the stash.   *)
LEMMA CopyWrite ==
  ASSUME TypeOK, SingleCopy, plb' = plb,
         NEW m \in Node, NEW S, S = stash \cup tree[m],
         NEW W \in SUBSET S,
         write_bucket(m, W),
         stash' = S \ W
  PROVE  SingleCopy'
<1>1. tree' = [tree EXCEPT ![m] = W]
  BY DEF write_bucket
<1>2. \A n \in Node : tree'[n] = IF n = m THEN W ELSE tree[n]
  BY <1>1 DEF TypeOK
<1>3. \A s, t \in S : s.addr = t.addr => s = t
  <2>1. \A s \in stash, t \in tree[m] : s.addr # t.addr
    BY AddrsAreBlocks DEF SingleCopy, InTree, Holds, stash_contain
  <2>. QED  BY <2>1 DEF SingleCopy
<1>4. \A n \in Node : \A t \in tree[n], s \in S : n # m => s.addr # t.addr
  <2>1. \A n \in Node : \A t \in tree[n], s \in stash : s.addr # t.addr
    BY AddrsAreBlocks DEF SingleCopy, InTree, Holds, stash_contain
  <2>. QED  BY <2>1 DEF SingleCopy
<1>5. \A b \in Block : InPlb(b)' <=> InPlb(b)
  BY DEF InPlb, plb_access
<1>6. ASSUME NEW b \in Block
      PROVE  /\ InTree(b)' \/ stash_contain(b)' \/ InPlb(b)'
             /\ ~(InTree(b)' /\ stash_contain(b)')
             /\ ~(InTree(b)' /\ InPlb(b)')
             /\ ~(stash_contain(b)' /\ InPlb(b)')
  <2>1. InTree(b)' <=> \/ \E s \in W : s.addr = b
                       \/ \E n \in Node : n # m /\ \E s \in tree[n] : s.addr = b
    BY <1>2 DEF InTree, Holds
  <2>2. stash_contain(b)' <=> \E s \in S \ W : s.addr = b
    BY DEF stash_contain
  <2>3. InTree(b) <=> \/ \E s \in tree[m] : s.addr = b
                      \/ \E n \in Node : n # m /\ \E s \in tree[n] : s.addr = b
    BY DEF InTree, Holds
  <2>4. stash_contain(b) <=> \E s \in stash : s.addr = b
    BY DEF stash_contain
  <2>5. (\E s \in S : s.addr = b) <=> stash_contain(b) \/ \E s \in tree[m] : s.addr = b
    BY <2>4
  <2>6. InTree(b)' \/ stash_contain(b)' <=> InTree(b) \/ stash_contain(b)
    BY <2>1, <2>2, <2>3, <2>5
  <2>7. ~(InTree(b)' /\ stash_contain(b)')
    BY <1>3, <1>4, <2>1, <2>2
  <2>. QED  BY <1>5, <2>6, <2>7 DEF SingleCopy
<1>7. ASSUME NEW n \in Node, NEW k \in Node, NEW t \in tree'[n], NEW u \in tree'[k],
             t.addr = u.addr
      PROVE  n = k /\ t = u
  BY <1>2, <1>3, <1>4, <1>7 DEF SingleCopy
<1>8. \A s, t \in stash' : s.addr = t.addr => s = t
  BY <1>3
<1>. QED  BY <1>6, <1>7, <1>8 DEF SingleCopy

(* plb_fill trades the block it takes out of the stash for the one that    *)
(* had its PLB line; the first was not in the PLB, the second nowhere else. *)
LEMMA CopyFill ==
  ASSUME IndInv, plb_fill
  PROVE  SingleCopy'
<1>. USE DEF IndInv
<1>. DEFINE old == plb[PlbIndex[PosTag[req][i_saved]]]
<1>1. PICK tag \in Pos : tag = PosTag[req][i_saved]
  BY PosTagType DEF plb_fill, At, AccessPhase
<1>2. PICK w \in PlbSets : w = PlbIndex[tag]
  BY PosmapAssumption
<1>3. /\ tree' = tree
      /\ plb' = [plb EXCEPT ![w] = tag]
      /\ stash' = { s \in stash \cup Victim(tag) : s.addr # tag }
  BY <1>1, <1>2 DEF plb_fill
<1>4. stash_contain(tag) /\ ~plb_access(tag) /\ tag \in Block
  <2>1. pc = "fill" /\ req # NONE /\ i_saved >= 1
    BY DEF plb_fill, At, AccessPhase
  <2>2. i_saved \in 1 .. i_saved
    BY <2>1 DEF TypeOK
  <2>3. ~plb_access(PosTag[req][i_saved])
    BY <2>1, <2>2 DEF AccessPhase
  <2>. QED  BY <1>1, <2>1, <2>3 DEF PinnedStays, Block
<1>5. ~InTree(tag)
  BY <1>4 DEF SingleCopy
<1>6. \A v \in PlbSets : plb'[v] = IF v = w THEN tag ELSE plb[v]
  BY <1>3 DEF TypeOK
<1>7. \A n, k \in Node : \A t \in tree'[n], u \in tree'[k] : t.addr = u.addr => n = k /\ t = u
  BY <1>3 DEF SingleCopy
<1>8. \A b \in Block : InTree(b)' <=> InTree(b)
  BY <1>3 DEF InTree, Holds
<1>9. CASE plb[w] = NONE
  <2>1. Victim(tag) = {}
    BY <1>2, <1>9 DEF Victim
  <2>2. \A b \in Block : stash_contain(b)' <=> stash_contain(b) /\ b # tag
    BY <1>3, <2>1 DEF stash_contain
  <2>3. ASSUME NEW b \in Block
        PROVE  InPlb(b)' <=> InPlb(b) \/ b = tag
    <3>1. b \in Pos => PlbIndex[b] \in PlbSets
      BY PosmapAssumption
    <3>2. b # NONE /\ tag # NONE
      BY <1>4, NoneIsNoBlock
    <3>. QED  BY <1>2, <1>6, <1>9, <3>1, <3>2 DEF InPlb, plb_access
  <2>4. \A t, u \in stash' : t.addr = u.addr => t = u
    BY <1>3, <2>1 DEF SingleCopy
  <2>5. ~InPlb(tag)
    BY <1>4 DEF InPlb
  <2>. QED  BY <1>4, <1>5, <1>7, <1>8, <2>2, <2>3, <2>4, <2>5 DEF SingleCopy
<1>10. CASE plb[w] # NONE
  <2>1. PICK v \in Pos : v = plb[w]
    BY <1>10 DEF TypeOK
  <2>2. PlbIndex[v] = w /\ v \in Block /\ v # tag /\ InPlb(v)
    BY <1>2, <1>4, <1>10, <2>1 DEF AccessPhase, Block, plb_access, InPlb
  <2>3. Victim(tag) = { [addr |-> v, label |-> PosMap[v]] }
    BY <1>2, <1>10, <2>1 DEF Victim
  <2>4. ~stash_contain(v) /\ ~InTree(v)
    BY <2>2 DEF SingleCopy
  <2>5. \A b \in Block : stash_contain(b)' <=> (stash_contain(b) /\ b # tag) \/ b = v
    <3>. DEFINE slot == [addr |-> v, label |-> PosMap[v]]
    <3>1. slot.addr = v
      OBVIOUS
    <3>. HIDE DEF slot
    <3>2. stash' = { s \in stash \cup {slot} : s.addr # tag }
      BY <1>3, <2>3 DEF slot
    <3>. QED  BY <3>1, <3>2, <2>2 DEF stash_contain
  <2>6. ASSUME NEW b \in Block
        PROVE  InPlb(b)' <=> (InPlb(b) /\ b # v) \/ b = tag
    <3>1. b \in Pos => PlbIndex[b] \in PlbSets
      BY PosmapAssumption
    <3>. QED  BY <1>2, <1>6, <2>1, <2>2, <3>1 DEF InPlb, plb_access
  <2>7. \A t, u \in stash' : t.addr = u.addr => t = u
    <3>1. \A t \in stash : t.addr # v
      BY <2>4 DEF stash_contain
    <3>. QED  BY <1>3, <2>3, <3>1 DEF SingleCopy
  <2>8. ~InPlb(tag)
    BY <1>4 DEF InPlb
  <2>. QED  BY <1>4, <1>5, <1>7, <1>8, <2>2, <2>4, <2>5, <2>6, <2>7, <2>8 DEF SingleCopy
<1>. QED  BY <1>9, <1>10

(* A step leaves every block in exactly one place.                         *)
LEMMA CopyNext == IndInv /\ [Next]_vars => SingleCopy'
<1>. SUFFICES ASSUME IndInv, [Next]_vars
              PROVE  SingleCopy'
  OBVIOUS
<1>. USE DEF IndInv
<1>1. ASSUME tree' = tree, stash' = stash, plb' = plb
      PROVE  SingleCopy'
  <2>1. \A b \in Block : stash_contain(b)' <=> stash_contain(b)
    BY <1>1 DEF stash_contain
  <2>2. \A s, t \in stash' : s.addr = t.addr => s = t
    BY <1>1 DEF SingleCopy
  <2>. QED  BY <1>1, <2>1, <2>2, CopyFrame
<1>2. ASSUME NEW b, NEW pin, Enter(b, pin)
      PROVE  SingleCopy'
  BY <1>1, <1>2 DEF Enter, oramVars
<1>3. ASSUME NEW W \in SUBSET stash, write_path(W)
      PROVE  SingleCopy'
  <2>1. PICK m \in Node : m = NodeAt(evict_label, lvl)
    BY NodeAtLevel DEF TypeOK
  <2>2. /\ write_bucket(m, W)
        /\ stash' = stash \ W
        /\ plb' = plb
        /\ pc = "evict"
    BY <1>3, <2>1 DEF write_path, At
  <2>3. Emptied(m)
    BY <2>1, <2>2, NodeAtLevel DEF Emptied, TypeOK, Level
  <2>4. tree[m] = {}
    BY <2>3 DEF DummyBudget, BucketBudget
  <2>5. W \in SUBSET (stash \cup tree[m]) /\ stash' = (stash \cup tree[m]) \ W
    BY <2>2, <2>4
  <2>. QED  BY <2>2, <2>5, CopyWrite
<1>4. ASSUME NEW W \in SUBSET (stash \cup tree[NodeAt(label, lvl)]), ring_early_reshuffle(W)
      PROVE  SingleCopy'
  <2>1. PICK m \in Node : m = NodeAt(label, lvl)
    BY NodeAtLevel DEF TypeOK
  <2>2. /\ write_bucket(m, W)
        /\ stash' = (stash \cup tree[m]) \ W
        /\ plb' = plb
    BY <1>4, <2>1 DEF ring_early_reshuffle
  <2>. QED  BY <1>4, <2>1, <2>2, CopyWrite
<1>5. CASE ring_read_path
  BY <1>5, CopyRead
<1>6. CASE \E p \in Path : remap_block(p)
  BY <1>6, CopyRemap
<1>7. CASE ring_evict_path
  BY <1>7, CopyEvict
<1>8. CASE plb_fill
  BY <1>8, CopyFill
<1>9. CASE \E a \in Data : StashHit(a)
  BY <1>1, <1>9 DEF StashHit, vars
<1>10. CASE \E a \in Data : freecursive_access(a)
  BY <1>1, <1>10 DEF freecursive_access, oramVars
<1>11. CASE PosmapAccess
  BY <1>2, <1>11 DEF PosmapAccess
<1>12. CASE PosmapInStash
  BY <1>1, <1>12 DEF PosmapInStash, oramVars
<1>13. CASE DataAccess
  BY <1>2, <1>13 DEF DataAccess
<1>14. CASE DataInStash
  BY <1>1, <1>14 DEF DataInStash, oramVars
<1>15. CASE \E p \in Path : DummyAccess(p)
  BY <1>1, <1>15 DEF DummyAccess, oramVars
<1>16. CASE NoEviction
  BY <1>1, <1>16 DEF NoEviction, oramVars
<1>17. CASE NoReshuffle
  BY <1>1, <1>17 DEF NoReshuffle, oramVars
<1>18. CASE EndAccess
  BY <1>1, <1>18 DEF EndAccess, oramVars
<1>19. CASE UNCHANGED vars
  BY <1>1, <1>19 DEF vars
<1>. QED
  BY <1>3, <1>4, <1>5, <1>6, <1>7, <1>8, <1>9, <1>10, <1>11, <1>12, <1>13, <1>14, <1>15,
     <1>16, <1>17, <1>18, <1>19 DEF Next

-------------------------------------------------------------------------------
(* The pinned block stays in the stash: pick_candidate passes it over.     *)
LEMMA PinNext == IndInv /\ [Next]_vars => PinnedStays'
<1>. SUFFICES ASSUME IndInv, [Next]_vars
              PROVE  PinnedStays'
  OBVIOUS
<1>. USE DEF IndInv
<1>1. ASSUME stash' = stash, cur' = cur, req' = req, i_saved' = i_saved, pinFlag' = pinFlag,
             pc' = pc \/ ( /\ pc \in { "remap", "round", "evict", "reshuffle", "done" }
                           /\ pc' \in { "remap", "round", "evict", "reshuffle", "done" })
      PROVE  PinnedStays'
  BY <1>1 DEF PinnedStays, stash_contain
<1>2. ASSUME pc' \in { "idle", "posmap", "read" }
      PROVE  PinnedStays'
  BY <1>2 DEF PinnedStays
<1>3. CASE ring_read_path
  <2>1. /\ pc = "read" /\ pc' \in { "remap", "round" }
        /\ cur' = cur /\ req' = req /\ i_saved' = i_saved /\ pinFlag' = pinFlag
    BY <1>3 DEF ring_read_path, At, accessVars
  <2>2. pinFlag => cur = PosTag[req][i_saved] /\ cur # NONE
    BY <2>1, PosTagType, BlockAssumption DEF AccessPhase, Accessing
  <2>3. cur # NONE => stash_contain(cur)'
    BY <1>3, <2>1, ReadPathEffect DEF stash_contain
  <2>. QED  BY <2>1, <2>2, <2>3 DEF PinnedStays, stash_contain
<1>4. ASSUME NEW p \in Path, remap_block(p)
      PROVE  PinnedStays'
  <2>1. /\ pc = "remap" /\ pc' = "round"
        /\ cur' = cur /\ req' = req /\ i_saved' = i_saved /\ pinFlag' = pinFlag
        /\ stash' = { IF s.addr = cur THEN [addr |-> cur, label |-> p] ELSE s : s \in stash }
    BY <1>4 DEF remap_block, At, accessVars, Relabel
  <2>2. stash_contain(cur)
    BY <2>1 DEF AccessPhase
  <2>3. stash_contain(cur)'
    <3>1. PICK s \in stash : s.addr = cur
      BY <2>2 DEF stash_contain
    <3>2. [addr |-> cur, label |-> p] \in stash'
      BY <2>1, <3>1
    <3>. QED  BY <2>1, <3>2 DEF stash_contain
  <2>. QED  BY <2>1, <2>3 DEF PinnedStays, stash_contain
<1>5. CASE ring_evict_path
  BY <1>5 DEF ring_evict_path, At, accessVars, PinnedStays, stash_contain
<1>6. ASSUME NEW S, NEW m, NEW W \in SUBSET S,
             stash \subseteq S, W \subseteq pick_candidate(S, m), stash' = S \ W,
             pc \in { "evict", "reshuffle" },
             pc' \in { "evict", "reshuffle", "done" },
             cur' = cur, req' = req, i_saved' = i_saved, pinFlag' = pinFlag
      PROVE  PinnedStays'
  BY <1>6 DEF PinnedStays, stash_contain, pick_candidate
<1>7. ASSUME NEW W \in SUBSET stash, write_path(W)
      PROVE  PinnedStays'
  <2>1. /\ W \subseteq pick_candidate(stash, NodeAt(evict_label, lvl))
        /\ stash' = stash \ W
        /\ pc = "evict" /\ pc' \in { "evict", "reshuffle" }
        /\ cur' = cur /\ req' = req /\ i_saved' = i_saved /\ pinFlag' = pinFlag
    BY <1>7 DEF write_path, At, accessVars, Fills
  <2>. QED  BY <1>6, <2>1
<1>8. ASSUME NEW W \in SUBSET (stash \cup tree[NodeAt(label, lvl)]), ring_early_reshuffle(W)
      PROVE  PinnedStays'
  <2>. DEFINE mid == stash \cup tree[NodeAt(label, lvl)]
  <2>1. /\ W \subseteq pick_candidate(mid, NodeAt(label, lvl))
        /\ stash' = mid \ W
        /\ pc = "reshuffle" /\ pc' \in { "reshuffle", "done" }
        /\ cur' = cur /\ req' = req /\ i_saved' = i_saved /\ pinFlag' = pinFlag
    BY <1>8 DEF ring_early_reshuffle, NextReshuffle, At, accessVars, Fills
  <2>. QED  BY <1>6, <2>1
<1>9. CASE EndAccess
  BY <1>9 DEF EndAccess, oramVars, At, PinnedStays, stash_contain
<1>10. CASE PosmapInStash
  BY <1>10 DEF PosmapInStash, oramVars, accessVars, PinnedStays, stash_contain
<1>11. CASE plb_fill
  BY <1>2, <1>11 DEF plb_fill
<1>12. CASE \E a \in Data : StashHit(a)
  BY <1>1, <1>12 DEF StashHit, vars
<1>13. CASE \E a \in Data : freecursive_access(a)
  BY <1>2, <1>13 DEF freecursive_access
<1>14. CASE PosmapAccess
  BY <1>2, <1>14 DEF PosmapAccess, Enter
<1>15. CASE DataAccess
  BY <1>2, <1>15 DEF DataAccess, Enter
<1>16. CASE DataInStash
  BY <1>2, <1>16 DEF DataInStash
<1>17. CASE \E p \in Path : DummyAccess(p)
  BY <1>2, <1>17 DEF DummyAccess
<1>18. CASE NoEviction
  BY <1>1, <1>18 DEF NoEviction, At, oramVars, accessVars
<1>19. CASE NoReshuffle
  BY <1>1, <1>19 DEF NoReshuffle, NextReshuffle, At, oramVars, accessVars
<1>20. CASE UNCHANGED vars
  BY <1>1, <1>20 DEF vars
<1>. QED
  BY <1>3, <1>4, <1>5, <1>7, <1>8, <1>9, <1>10, <1>11, <1>12, <1>13, <1>14, <1>15,
     <1>16, <1>17, <1>18, <1>19, <1>20 DEF Next

-------------------------------------------------------------------------------
(* The position-map block above the one to fetch is in the PLB.            *)
LEMMA ChainNext == IndInv /\ [Next]_vars => ChainInPlb'
<1>. SUFFICES ASSUME IndInv, [Next]_vars
              PROVE  ChainInPlb'
  OBVIOUS
<1>. USE DEF IndInv
<1>1. ASSUME req' = req, i_saved' = i_saved, plb' = plb
      PROVE  ChainInPlb'
  BY <1>1 DEF ChainInPlb, plb_access
<1>2. ASSUME req' = NONE
      PROVE  ChainInPlb'
  BY <1>2 DEF ChainInPlb
<1>3. ASSUME NEW b, NEW pin, Enter(b, pin)
      PROVE  ChainInPlb'
  BY <1>1, <1>3 DEF Enter
<1>4. ASSUME NEW a \in Data, freecursive_access(a)
      PROVE  ChainInPlb'
  <2>1. PlbSearch(a, i_saved') /\ req' = a /\ plb' = plb
    BY <1>4 DEF freecursive_access
  <2>. QED  BY <2>1 DEF PlbSearch, ChainInPlb, plb_access
<1>5. CASE plb_fill
  <2>1. PICK tag \in Pos : tag = PosTag[req][i_saved]
    BY <1>5, PosTagType DEF plb_fill, At, AccessPhase
  <2>2. plb' = [plb EXCEPT ![PlbIndex[tag]] = tag] /\ req' = req /\ i_saved' = i_saved - 1
    BY <1>5, <2>1 DEF plb_fill
  <2>3. i_saved' + 1 = i_saved
    BY <2>2 DEF TypeOK
  <2>4. plb'[PlbIndex[tag]] = tag
    BY <2>2, PosmapAssumption DEF TypeOK
  <2>. QED  BY <2>1, <2>2, <2>3, <2>4 DEF ChainInPlb, plb_access
<1>6. CASE \E a \in Data : StashHit(a)
  BY <1>1, <1>6 DEF StashHit, vars
<1>7. CASE PosmapAccess
  BY <1>3, <1>7 DEF PosmapAccess
<1>8. CASE PosmapInStash
  BY <1>1, <1>8 DEF PosmapInStash
<1>9. CASE DataAccess
  BY <1>3, <1>9 DEF DataAccess
<1>10. CASE DataInStash
  BY <1>2, <1>10 DEF DataInStash
<1>11. CASE \E p \in Path : DummyAccess(p)
  BY <1>1, <1>11 DEF DummyAccess
<1>12. CASE ring_read_path
  BY <1>1, <1>12 DEF ring_read_path
<1>13. CASE \E p \in Path : remap_block(p)
  BY <1>1, <1>13 DEF remap_block
<1>14. CASE NoEviction
  BY <1>1, <1>14 DEF NoEviction
<1>15. CASE ring_evict_path
  BY <1>1, <1>15 DEF ring_evict_path
<1>16. CASE \E W \in SUBSET stash : write_path(W)
  BY <1>1, <1>16 DEF write_path
<1>17. CASE NoReshuffle
  BY <1>1, <1>17 DEF NoReshuffle
<1>18. CASE \E W \in SUBSET (stash \cup tree[NodeAt(label, lvl)]) : ring_early_reshuffle(W)
  BY <1>1, <1>18 DEF ring_early_reshuffle
<1>19. CASE EndAccess
  BY <1>1, <1>2, <1>19 DEF EndAccess
<1>20. CASE UNCHANGED vars
  BY <1>1, <1>20 DEF vars
<1>. QED
  BY <1>4, <1>5, <1>6, <1>7, <1>8, <1>9, <1>10, <1>11, <1>12, <1>13, <1>14, <1>15,
     <1>16, <1>17, <1>18, <1>19, <1>20 DEF Next

-------------------------------------------------------------------------------
(* The variables of an access mean what AccessPhase says at every step.    *)
LEMMA PhaseNext == IndInv /\ [Next]_vars => AccessPhase'
<1>. SUFFICES ASSUME IndInv, [Next]_vars
              PROVE  AccessPhase'
  OBVIOUS
<1>. USE DEF IndInv
<1>1. ASSUME NEW a \in Data, freecursive_access(a)
      PROVE  AccessPhase'
  <2>1. /\ PlbSearch(a, i_saved') /\ req' = a /\ plb' = plb /\ pc' = "posmap"
        /\ cur' = cur /\ pinFlag' = pinFlag /\ a # NONE /\ pc = "idle"
    BY <1>1, BlockAssumption DEF freecursive_access, accessVars, At
  <2>2. \A i \in 1 .. i_saved' : ~plb_access(PosTag[req][i])'
    BY <2>1 DEF PlbSearch, plb_access
  <2>. QED  BY <2>1, <2>2 DEF AccessPhase, Accessing
<1>2. ASSUME NEW b \in Block, NEW pin \in BOOLEAN, Enter(b, pin),
             req # NONE, ~stash_contain(b),
             pin => i_saved >= 1 /\ b = PosTag[req][i_saved],
             ~pin => b = req
      PROVE  AccessPhase'
  <2>1. /\ pc' = "read" /\ cur' = b /\ pinFlag' = pin /\ label' = PosMap[b]
        /\ PosMap' = PosMap /\ stash' = stash /\ plb' = plb /\ req' = req /\ i_saved' = i_saved
    BY <1>2 DEF Enter, oramVars
  <2>. QED  BY <1>2, <2>1 DEF AccessPhase, Accessing, stash_contain, plb_access
<1>3. CASE PosmapAccess
  <2>1. /\ req # NONE /\ i_saved >= 1
        /\ ~stash_contain(PosTag[req][i_saved])
        /\ Enter(PosTag[req][i_saved], TRUE)
    BY <1>3 DEF PosmapAccess, At, AccessPhase
  <2>2. PosTag[req][i_saved] \in Block
    BY <2>1, PosTagType DEF Block
  <2>. QED  BY <1>2, <2>1, <2>2
<1>4. CASE DataAccess
  <2>1. /\ req # NONE /\ req \in Block
        /\ ~stash_contain(req)
        /\ Enter(req, FALSE)
    BY <1>4 DEF DataAccess, At, AccessPhase, TypeOK, Block
  <2>. QED  BY <1>2, <2>1
<1>5. CASE PosmapInStash
  BY <1>5 DEF PosmapInStash, At, accessVars, oramVars, AccessPhase, Accessing, plb_access
<1>6. CASE DataInStash
  BY <1>6 DEF DataInStash, At, accessVars, oramVars, AccessPhase, Accessing, plb_access
<1>7. ASSUME NEW p \in Path, DummyAccess(p)
      PROVE  AccessPhase'
  BY <1>7 DEF DummyAccess, At, oramVars, AccessPhase, Accessing, plb_access
<1>8. CASE ring_read_path
  <2>1. /\ pc = "read" /\ pc' = IF cur = NONE THEN "round" ELSE "remap"
        /\ cur' = cur /\ req' = req /\ i_saved' = i_saved /\ pinFlag' = pinFlag /\ plb' = plb
    BY <1>8 DEF ring_read_path, At, accessVars
  <2>2. cur # NONE => stash_contain(cur)'
    BY <1>8, <2>1, ReadPathEffect DEF stash_contain
  <2>. QED  BY <2>1, <2>2 DEF AccessPhase, Accessing, plb_access, stash_contain
<1>9. ASSUME Accessing, pc \notin { "read" }, pc' \in { "round", "evict", "reshuffle", "done" },
             cur' = cur, req' = req, i_saved' = i_saved, pinFlag' = pinFlag, plb' = plb
      PROVE  AccessPhase'
  BY <1>9 DEF AccessPhase, Accessing, plb_access
<1>10. CASE \E p \in Path : remap_block(p)
  BY <1>9, <1>10 DEF remap_block, At, accessVars, Accessing
<1>11. CASE NoEviction
  BY <1>9, <1>11 DEF NoEviction, At, accessVars, Accessing
<1>12. CASE ring_evict_path
  BY <1>9, <1>12 DEF ring_evict_path, At, accessVars, Accessing
<1>13. CASE \E W \in SUBSET stash : write_path(W)
  BY <1>9, <1>13 DEF write_path, At, accessVars, Accessing
<1>14. CASE NoReshuffle
  BY <1>9, <1>14 DEF NoReshuffle, NextReshuffle, At, accessVars, Accessing
<1>15. CASE \E W \in SUBSET (stash \cup tree[NodeAt(label, lvl)]) : ring_early_reshuffle(W)
  BY <1>9, <1>15 DEF ring_early_reshuffle, NextReshuffle, At, accessVars, Accessing
<1>16. CASE EndAccess
  BY <1>16 DEF EndAccess, At, oramVars, AccessPhase, Accessing, plb_access
<1>17. CASE plb_fill
  <2>1. PICK tag \in Pos : tag = PosTag[req][i_saved]
    BY <1>17, PosTagType DEF plb_fill, At, AccessPhase
  <2>2. /\ plb' = [plb EXCEPT ![PlbIndex[tag]] = tag]
        /\ req' = req /\ i_saved' = i_saved - 1
        /\ cur' = cur /\ pinFlag' = pinFlag
        /\ pc = "fill" /\ pc' = "posmap" /\ req # NONE /\ i_saved >= 1
    BY <1>17, <2>1 DEF plb_fill, accessVars, At, AccessPhase
  <2>3. \A w \in PlbSets : plb'[w] # NONE => PlbIndex[plb'[w]] = w
    BY <2>2 DEF TypeOK, AccessPhase
  <2>4. ASSUME NEW i \in 1 .. i_saved'
        PROVE  ~plb_access(PosTag[req][i])'
    <3>1. i \in 1 .. i_saved /\ i \in 1 .. H - 2 /\ i_saved \in 1 .. H - 2 /\ i # i_saved
      BY <2>2, SizeAssumption DEF TypeOK
    <3>2. req \in Data
      BY <2>2 DEF TypeOK
    <3>3. PosTag[req][i] # tag /\ PosTag[req][i] \in Pos
      BY <2>1, <3>1, <3>2, PosmapAssumption
    <3>4. plb[PlbIndex[PosTag[req][i]]] # PosTag[req][i]
      BY <2>2, <3>1 DEF AccessPhase, plb_access
    <3>5. PlbIndex[PosTag[req][i]] \in PlbSets
      BY <3>3, PosmapAssumption
    <3>. QED  BY <2>2, <3>3, <3>4, <3>5 DEF plb_access, TypeOK
  <2>. QED  BY <2>2, <2>3, <2>4 DEF AccessPhase, Accessing
<1>18. CASE UNCHANGED vars \/ \E a \in Data : StashHit(a)
  BY <1>18 DEF StashHit, vars, AccessPhase, Accessing, plb_access, stash_contain
<1>. QED
  BY <1>1, <1>3, <1>4, <1>5, <1>6, <1>7, <1>8, <1>10, <1>11, <1>12, <1>13, <1>14, <1>15,
     <1>16, <1>17, <1>18 DEF Next

-------------------------------------------------------------------------------
(* The slots of a bucket add up: real blocks, valid dummies and reads.     *)
LEMMA BudgetTypes ==
  ASSUME TypeOK, NEW n \in Node
  PROVE  /\ Cardinality(tree[n]) \in Nat /\ IsFiniteSet(tree[n])
         /\ dumvalid[n] \in Int
         /\ count[n] \in Nat
BY SlotsFinite DEF TypeOK

(* A bucket that a step does not touch keeps its budget.                   *)
LEMMA BudgetFrame ==
  ASSUME TypeOK, NEW n \in Node, BucketBudget(n),
         tree'[n] = tree[n], dumvalid'[n] = dumvalid[n], count'[n] = count[n],
         Emptied(n)' <=> Emptied(n),
         ToReshuffle(n) => ToReshuffle(n)' \/ count[n] <= RING_S - 1
  PROVE  BucketBudget(n)'
<1>1. count[n] <= IF ToReshuffle(n)' THEN RING_S ELSE RING_S - 1
  BY BudgetTypes, SizeAssumption DEF BucketBudget
<1>. QED  BY <1>1 DEF BucketBudget, LZ

(* ring_read_path takes one slot of each bucket of the path, and counts it. *)
LEMMA BudgetRead ==
  ASSUME IndInv, ring_read_path, NEW n \in Node
  PROVE  BucketBudget(n)'
<1>. USE DEF IndInv
<1>. DEFINE path == OnPath(label)
<1>1. /\ pc = "read" /\ pc' \in { "remap", "round" } /\ label' = label /\ label \in Path
      /\ dumvalid' = [k \in Node |-> IF k \in path /\ ~Holds(k, cur)
                                     THEN dumvalid[k] - 1 ELSE dumvalid[k]]
      /\ count' = [k \in Node |-> IF k \in path THEN count[k] + 1 ELSE count[k]]
  BY DEF ring_read_path, At, accessVars, TypeOK
<1>2. /\ dumvalid'[n] = IF n \in path /\ ~Holds(n, cur) THEN dumvalid[n] - 1 ELSE dumvalid[n]
      /\ count'[n] = IF n \in path THEN count[n] + 1 ELSE count[n]
  BY <1>1
<1>3. /\ ~Emptied(n) /\ ~Emptied(n)' /\ ~ToReshuffle(n)
      /\ ToReshuffle(n)' <=> n \in path
  BY <1>1 DEF Emptied, ToReshuffle
<1>4. /\ Cardinality(tree[n]) <= RING_Z
      /\ count[n] <= RING_S - 1
      /\ Cardinality(tree[n]) + dumvalid[n] + count[n] = LZ
  BY <1>3 DEF DummyBudget, BucketBudget
<1>5. CASE Holds(n, cur)
  <2>1. cur # NONE
    BY <1>5, AddrsAreBlocks, NoneIsNoBlock DEF Holds
  <2>2. PICK m \in OnPath(label), s \in Slot :
          /\ s \in tree[m]
          /\ \A k \in Node : \A t \in tree[k] : t.addr = cur => k = m /\ t = s
          /\ tree' = [k \in Node |-> tree[k] \ {s}]
    BY <2>1, ReadPathEffect
  <2>3. n = m
    BY <1>5, <2>2 DEF Holds
  <2>4. tree'[n] = tree[n] \ {s} /\ s \in tree[n] /\ n \in path
    BY <2>2, <2>3
  <2>5. Cardinality(tree'[n]) = Cardinality(tree[n]) - 1
    <3>1. IsFiniteSet(tree[n])
      BY BudgetTypes, Zenon
    <3>2. Cardinality(tree[n] \ {s}) = Cardinality(tree[n]) - 1
      BY <2>4, <3>1, FS_RemoveElement, Zenon
    <3>. QED  BY <2>4, <3>2, Zenon
  <2>6. count'[n] = count[n] + 1 /\ dumvalid'[n] = dumvalid[n]
    BY <1>2, <1>5, <2>4
  <2>. QED  BY <1>3, <1>4, <2>4, <2>5, <2>6, BudgetTypes, SizeAssumption DEF BucketBudget, LZ
<1>6. CASE ~Holds(n, cur)
  <2>1. tree'[n] = tree[n]
    <3>1. CASE tree' = tree
      BY <3>1
    <3>2. ASSUME NEW s \in Slot, s.addr = cur, tree' = [k \in Node |-> tree[k] \ {s}]
          PROVE  tree'[n] = tree[n]
      <4>1. s \notin tree[n]
        BY <1>6, <3>2 DEF Holds
      <4>. QED  BY <3>2, <4>1
    <3>. QED  BY <3>1, <3>2, ReadPathEffect
  <2>2. CASE n \in path
    <3>1. count'[n] = count[n] + 1 /\ dumvalid'[n] = dumvalid[n] - 1
      BY <1>2, <1>6, <2>2
    <3>. QED  BY <1>3, <1>4, <2>1, <2>2, <3>1, BudgetTypes, SizeAssumption DEF BucketBudget, LZ
  <2>3. CASE n \notin path
    BY <1>2, <1>3, <1>4, <2>1, <2>3 DEF BucketBudget, LZ
  <2>. QED  BY <2>2, <2>3
<1>. QED  BY <1>5, <1>6

(* ring_evict_path leaves the buckets of the path empty and without dummies. *)
LEMMA BudgetEvict ==
  ASSUME IndInv, ring_evict_path, NEW n \in Node
  PROVE  BucketBudget(n)'
<1>. USE DEF IndInv
<1>. DEFINE path == OnPath(evict_label')
<1>1. /\ pc = "round" /\ pc' = "evict" /\ label' = label /\ lvl' = LEVEL - 1
      /\ tree' = [k \in Node |-> IF k \in path THEN {} ELSE tree[k]]
      /\ dumvalid' = [k \in Node |-> IF k \in path THEN 0 ELSE dumvalid[k]]
      /\ count' = count
  BY DEF ring_evict_path, At, accessVars
<1>2. n[1] <= lvl'
  BY <1>1, NodeLevel, LevelAssumption DEF Level
<1>3. /\ ~Emptied(n)
      /\ Emptied(n)' <=> n \in path
      /\ ToReshuffle(n)' <=> ToReshuffle(n)
  BY <1>1, <1>2 DEF Emptied, ToReshuffle
<1>. HIDE DEF path
<1>4. CASE n \in path
  <2>1. tree'[n] = {} /\ dumvalid'[n] = 0 /\ count'[n] = count[n]
    BY <1>1, <1>4
  <2>2. Cardinality(tree'[n]) <= RING_Z
    BY <2>1, FS_EmptySet, SizeAssumption
  <2>3. count'[n] <= IF ToReshuffle(n)' THEN RING_S ELSE RING_S - 1
    BY <1>3, <2>1 DEF DummyBudget, BucketBudget
  <2>. QED  BY <1>3, <1>4, <2>1, <2>2, <2>3 DEF BucketBudget
<1>5. CASE n \notin path
  BY <1>1, <1>3, <1>5, BudgetFrame DEF DummyBudget
<1>. QED  BY <1>4, <1>5

(* A bucket just written has no reads and a dummy in every other slot.     *)
LEMMA BudgetWritten ==
  ASSUME TypeOK, NEW m \in Node, NEW W \in SUBSET Slot,
         write_bucket(m, W), Cardinality(W) <= RING_Z, ~Emptied(m)'
  PROVE  BucketBudget(m)'
<1>1. tree'[m] = W /\ dumvalid'[m] = LZ - Cardinality(W) /\ count'[m] = 0
  BY DEF write_bucket, TypeOK
<1>2. Cardinality(W) \in Nat /\ LZ \in Nat
  BY SlotsFinite, SizeAssumption DEF LZ
<1>3. count'[m] <= IF ToReshuffle(m)' THEN RING_S ELSE RING_S - 1
  BY <1>1, SizeAssumption
<1>. QED  BY <1>1, <1>2, <1>3 DEF BucketBudget, LZ

(* One turn of write_path gives its bucket a whole new budget.             *)
LEMMA BudgetWrite ==
  ASSUME IndInv, NEW W \in SUBSET stash, write_path(W), NEW n \in Node
  PROVE  BucketBudget(n)'
<1>. USE DEF IndInv
<1>1. PICK m \in Node : m = NodeAt(evict_label, lvl)
  BY NodeAtLevel DEF TypeOK
<1>2. /\ pc = "evict" /\ label' = label /\ evict_label' = evict_label
      /\ Cardinality(W) <= RING_Z
      /\ write_bucket(m, W)
      /\ \/ lvl = 0 /\ lvl' = LEVEL - 1 /\ pc' = "reshuffle"
         \/ lvl # 0 /\ lvl' = lvl - 1 /\ pc' = "evict"
  BY <1>1 DEF write_path, At, accessVars, Fills
<1>3. lvl \in Level /\ evict_label \in Path /\ m[1] = lvl /\ n[1] \in Level
  BY <1>1, NodeAtLevel, NodeLevel DEF TypeOK
<1>4. CASE n = m
  <2>1. ~Emptied(m)'
    BY <1>2, <1>3 DEF Emptied, Level
  <2>. QED  BY <1>2, <1>4, <2>1, BudgetWritten DEF TypeOK
<1>5. CASE n # m
  <2>1. tree'[n] = tree[n] /\ dumvalid'[n] = dumvalid[n] /\ count'[n] = count[n]
    BY <1>2, <1>5 DEF write_bucket, TypeOK
  <2>2. n \in OnPath(evict_label) => n[1] # lvl
    BY <1>1, <1>3, <1>5, OnPathLevel
  <2>3. Emptied(n)' <=> Emptied(n)
    BY <1>2, <1>3, <2>2 DEF Emptied, Level
  <2>4. ToReshuffle(n) => ToReshuffle(n)'
    BY <1>2, <1>3 DEF ToReshuffle, Level
  <2>. QED  BY <2>1, <2>3, <2>4, BudgetFrame DEF DummyBudget
<1>. QED  BY <1>4, <1>5

(* The bucket the reshuffle loop passes has no more reads than it may keep. *)
LEMMA BudgetPassed ==
  ASSUME IndInv, pc = "reshuffle", NextReshuffle, label' = label,
         NEW n \in Node, n # NodeAt(label, lvl)
  PROVE  /\ ~Emptied(n) /\ ~Emptied(n)'
         /\ ToReshuffle(n) => ToReshuffle(n)'
<1>1. lvl \in Level /\ label \in Path /\ n[1] \in Level
  BY NodeLevel DEF IndInv, TypeOK
<1>2. n \in OnPath(label) => n[1] # lvl
  BY <1>1, OnPathLevel
<1>. QED  BY <1>1, <1>2 DEF NextReshuffle, ToReshuffle, Emptied, Level

(* A step keeps the budget of every bucket.                                *)
LEMMA BudgetNext == IndInv /\ [Next]_vars => DummyBudget'
<1>. SUFFICES ASSUME IndInv, [Next]_vars, NEW n \in Node
              PROVE  BucketBudget(n)'
  BY DEF DummyBudget
<1>. USE DEF IndInv
<1>1. ASSUME tree' = tree, dumvalid' = dumvalid, count' = count,
             Emptied(n)' <=> Emptied(n), ToReshuffle(n) => ToReshuffle(n)'
      PROVE  BucketBudget(n)'
  BY <1>1, BudgetFrame DEF DummyBudget
<1>2. ASSUME tree' = tree, dumvalid' = dumvalid, count' = count,
             pc \in { "idle", "posmap", "fill", "done" },
             pc' \in { "idle", "posmap", "fill", "read" }
      PROVE  BucketBudget(n)'
  BY <1>1, <1>2 DEF Emptied, ToReshuffle
<1>3. ASSUME NEW b, NEW pin, Enter(b, pin), pc = "posmap"
      PROVE  BucketBudget(n)'
  BY <1>2, <1>3 DEF Enter, oramVars
<1>4. CASE ring_read_path
  BY <1>4, BudgetRead
<1>5. CASE \E p \in Path : remap_block(p)
  BY <1>1, <1>5 DEF remap_block, At, accessVars, loopVars, Emptied, ToReshuffle
<1>6. CASE NoEviction
  <2>1. n[1] <= LEVEL - 1
    BY NodeLevel, LevelAssumption DEF Level
  <2>. QED  BY <1>1, <1>6, <2>1 DEF NoEviction, At, oramVars, accessVars, Emptied, ToReshuffle
<1>7. CASE ring_evict_path
  BY <1>7, BudgetEvict
<1>8. CASE \E W \in SUBSET stash : write_path(W)
  BY <1>8, BudgetWrite
<1>9. CASE NoReshuffle
  <2>1. /\ pc = "reshuffle" /\ NextReshuffle /\ label' = label
        /\ ~must_reshuffle(NodeAt(label, lvl))
        /\ tree' = tree /\ dumvalid' = dumvalid /\ count' = count
    BY <1>9 DEF NoReshuffle, At, oramVars, accessVars
  <2>2. CASE n # NodeAt(label, lvl)
    BY <1>1, <2>1, <2>2, BudgetPassed
  <2>3. CASE n = NodeAt(label, lvl)
    <3>1. count[n] <= RING_S - 1
      BY <2>1, <2>3, BudgetTypes, SizeAssumption DEF must_reshuffle
    <3>2. ~Emptied(n) /\ ~Emptied(n)'
      BY <2>1 DEF Emptied, NextReshuffle
    <3>. QED  BY <2>1, <3>1, <3>2, BudgetFrame DEF DummyBudget
  <2>. QED  BY <2>2, <2>3
<1>10. ASSUME NEW W \in SUBSET (stash \cup tree[NodeAt(label, lvl)]), ring_early_reshuffle(W)
       PROVE  BucketBudget(n)'
  <2>1. PICK m \in Node : m = NodeAt(label, lvl)
    BY NodeAtLevel DEF TypeOK
  <2>2. /\ pc = "reshuffle" /\ NextReshuffle /\ label' = label
        /\ Cardinality(W) <= RING_Z
        /\ write_bucket(m, W)
    BY <1>10, <2>1 DEF ring_early_reshuffle, At, accessVars, Fills
  <2>3. W \in SUBSET Slot
    BY <2>1 DEF TypeOK
  <2>4. CASE n = m
    <3>1. ~Emptied(m)'
      BY <2>2 DEF Emptied, NextReshuffle
    <3>. QED  BY <2>2, <2>3, <2>4, <3>1, BudgetWritten
  <2>5. CASE n # m
    <3>1. tree'[n] = tree[n] /\ dumvalid'[n] = dumvalid[n] /\ count'[n] = count[n]
      BY <2>2, <2>5 DEF write_bucket, TypeOK
    <3>2. (Emptied(n)' <=> Emptied(n)) /\ (ToReshuffle(n) => ToReshuffle(n)')
      BY <2>1, <2>2, <2>5, BudgetPassed
    <3>. QED  BY <3>1, <3>2, BudgetFrame DEF DummyBudget
  <2>. QED  BY <2>4, <2>5
<1>11. CASE EndAccess
  BY <1>2, <1>11 DEF EndAccess, At, oramVars
<1>12. CASE plb_fill
  BY <1>2, <1>12 DEF plb_fill, At
<1>13. CASE \E a \in Data : freecursive_access(a)
  BY <1>2, <1>13 DEF freecursive_access, At, oramVars
<1>14. CASE PosmapAccess
  BY <1>3, <1>14 DEF PosmapAccess, At
<1>15. CASE PosmapInStash
  BY <1>2, <1>15 DEF PosmapInStash, At, oramVars
<1>16. CASE DataAccess
  BY <1>3, <1>16 DEF DataAccess, At
<1>17. CASE DataInStash
  BY <1>2, <1>17 DEF DataInStash, At, oramVars
<1>18. CASE \E p \in Path : DummyAccess(p)
  BY <1>2, <1>18 DEF DummyAccess, At, oramVars
<1>19. CASE UNCHANGED vars \/ \E a \in Data : StashHit(a)
  BY <1>1, <1>19 DEF StashHit, vars, Emptied, ToReshuffle
<1>. QED
  BY <1>4, <1>5, <1>6, <1>7, <1>8, <1>9, <1>10, <1>11, <1>12, <1>13, <1>14, <1>15,
     <1>16, <1>17, <1>18, <1>19 DEF Next

-------------------------------------------------------------------------------
(* None of the checks but the one of the stash size can fail.              *)
LEMMA EnoughDummies ==
  ASSUME IndInv, NEW n \in Node, ~Emptied(n)
  PROVE  /\ ~ShortOfDummies(n)
         /\ ~ToReshuffle(n) => dumvalid[n] # 0
<1>1. /\ Cardinality(tree[n]) <= RING_Z
      /\ count[n] <= RING_S
      /\ ~ToReshuffle(n) => count[n] <= RING_S - 1
      /\ Cardinality(tree[n]) + dumvalid[n] + count[n] = RING_Z + RING_S
  BY BudgetTypes, SizeAssumption DEF IndInv, DummyBudget, BucketBudget, LZ
<1>. QED  BY <1>1, BudgetTypes, SizeAssumption DEF IndInv, ShortOfDummies

(* A reshuffle writes back as many blocks as it has read: those are        *)
(* candidates, none of them being pinned in the stash.                     *)
LEMMA ReshuffleShrinks ==
  ASSUME IndInv, pc = "reshuffle",
         NEW m \in Node, m = NodeAt(label, lvl),
         NEW mid, mid = stash \cup tree[m],
         NEW W, Fills(W, pick_candidate(mid, m)),
         NEW rest, rest = mid \ W
  PROVE  ~(Cardinality(rest) > Cardinality(stash))
<1>. USE DEF IndInv
<1>1. /\ IsFiniteSet(stash) /\ IsFiniteSet(tree[m]) /\ IsFiniteSet(mid)
      /\ W \subseteq mid /\ IsFiniteSet(W) /\ IsFiniteSet(rest)
  <2>1. mid \in SUBSET Slot /\ W \subseteq mid /\ rest \in SUBSET Slot
    BY DEF TypeOK, Fills, pick_candidate
  <2>. QED  BY <2>1, SlotsFinite DEF TypeOK
<1>2. /\ Cardinality(stash) \in Nat /\ Cardinality(tree[m]) \in Nat
      /\ Cardinality(mid) \in Nat /\ Cardinality(W) \in Nat /\ Cardinality(rest) \in Nat
  BY <1>1, FS_CardinalityType
<1>3. tree[m] \subseteq pick_candidate(mid, m)
  <2>1. ASSUME NEW s \in tree[m]
        PROVE  NodeAt(s.label, m[1]) = m /\ ~(pinFlag /\ s.addr = cur)
    <3>1. NodeAt(s.label, m[1]) = m
      BY DEF BlockOnItsPath
    <3>2. ASSUME pinFlag, s.addr = cur
          PROVE  FALSE
      <4>1. stash_contain(cur)
        BY <3>2 DEF PinnedStays
      <4>2. s.addr \in Block /\ InTree(s.addr)
        BY AddrsAreBlocks DEF InTree, Holds
      <4>. QED  BY <3>2, <4>1, <4>2 DEF SingleCopy
    <3>. QED  BY <3>1, <3>2
  <2>. QED  BY <2>1 DEF pick_candidate
<1>4. CASE W = pick_candidate(mid, m)
  <2>1. rest \in SUBSET stash
    BY <1>3, <1>4
  <2>. QED  BY <1>1, <1>2, <2>1, FS_Subset
<1>5. CASE Cardinality(W) = RING_Z
  <2>1. Cardinality(tree[m]) <= RING_Z
    BY DEF DummyBudget, BucketBudget
  <2>2. Cardinality(mid) <= Cardinality(stash) + Cardinality(tree[m])
    <3>1. Cardinality(mid) = Cardinality(stash) + Cardinality(tree[m]) - Cardinality(stash \cap tree[m])
      BY <1>1, FS_Union
    <3>2. Cardinality(stash \cap tree[m]) \in Nat
      BY <1>1, FS_Intersection, FS_CardinalityType
    <3>. QED  BY <1>2, <3>1, <3>2
  <2>3. Cardinality(mid) = Cardinality(rest) + Cardinality(W)
    <3>1. mid = rest \cup W /\ rest \cap W = {}
      BY <1>1
    <3>2. Cardinality(mid) = Cardinality(rest) + Cardinality(W) - Cardinality(rest \cap W)
      BY <1>1, <3>1, FS_Union
    <3>3. Cardinality(rest \cap W) = 0
      BY <3>1, FS_EmptySet
    <3>. QED  BY <1>2, <3>2, <3>3
  <2>. QED  BY <1>2, <1>5, <2>1, <2>2, <2>3, SizeAssumption
<1>. QED  BY <1>4, <1>5 DEF Fills

(* A step ends the run with an exit(1) only for a full stash.              *)
LEMMA ExitNext == IndInv /\ [Next]_vars => NoExit'
<1>. SUFFICES ASSUME IndInv, [Next]_vars
              PROVE  NoExit'
  OBVIOUS
<1>. USE DEF IndInv, NoExit
<1>1. CASE ring_read_path
  <2>. DEFINE path  == OnPath(label)
              found == { s \in UNION { tree[n] : n \in path } : s.addr = cur }
  <2>1. err' = Check(\E n \in path : ~Holds(n, cur) /\ dumvalid[n] = 0, "no valid dummy",
               Check(Cardinality(stash \cup found) > STASH_SIZE, "stash overflow", "none"))
    BY <1>1 DEF ring_read_path
  <2>2. pc = "read" /\ label \in Path
    BY <1>1 DEF ring_read_path, At, TypeOK
  <2>3. ASSUME NEW n \in path
        PROVE  dumvalid[n] # 0
    <3>1. n \in Node /\ ~Emptied(n) /\ ~ToReshuffle(n)
      BY <2>2, OnPathLevel DEF Emptied, ToReshuffle
    <3>. QED  BY <3>1, EnoughDummies
  <2>4. ~ \E n \in path : ~Holds(n, cur) /\ dumvalid[n] = 0
    BY <2>3
  <2>5. err' = Check(Cardinality(stash \cup found) > STASH_SIZE, "stash overflow", "none")
    BY <2>1, <2>4 DEF Check
  <2>. QED  BY <2>5 DEF Check
<1>2. CASE \E p \in Path : remap_block(p)
  BY <1>2 DEF remap_block, At, AccessPhase, Check
<1>3. CASE ring_evict_path
  <2>. DEFINE path   == OnPath(evict_label')
              pulled == UNION { tree[n] : n \in path }
  <2>1. err' = Check(\E n \in path : ShortOfDummies(n), "remainCount",
               Check(Cardinality(stash \cup pulled) > STASH_SIZE, "stash overflow", "none"))
    BY <1>3 DEF ring_evict_path
  <2>2. pc = "round" /\ evict_label' \in Path
    BY <1>3, EvictedPath DEF ring_evict_path, At, TypeOK
  <2>3. ASSUME NEW n \in path
        PROVE  ~ShortOfDummies(n)
    <3>1. n \in Node /\ ~Emptied(n)
      BY <2>2, OnPathLevel DEF Emptied
    <3>. QED  BY <3>1, EnoughDummies
  <2>4. ~ \E n \in path : ShortOfDummies(n)
    BY <2>3
  <2>5. err' = Check(Cardinality(stash \cup pulled) > STASH_SIZE, "stash overflow", "none")
    BY <2>1, <2>4 DEF Check
  <2>. QED  BY <2>5 DEF Check
<1>4. ASSUME NEW W \in SUBSET (stash \cup tree[NodeAt(label, lvl)]), ring_early_reshuffle(W)
      PROVE  NoExit'
  <2>1. PICK m \in Node : m = NodeAt(label, lvl)
    BY NodeAtLevel DEF TypeOK
  <2>2. PICK mid : mid = stash \cup tree[m]
    OBVIOUS
  <2>3. PICK rest : rest = mid \ W
    OBVIOUS
  <2>4. /\ pc = "reshuffle"
        /\ Fills(W, pick_candidate(mid, m))
        /\ err' = Check(ShortOfDummies(m), "remainCount",
                  Check(Cardinality(mid) > STASH_SIZE, "stash overflow",
                  Check(Cardinality(rest) > Cardinality(stash), "reshuffle grew stash",
                        "none")))
    BY <1>4, <2>1, <2>2, <2>3 DEF ring_early_reshuffle, At
  <2>5. ~ShortOfDummies(m)
    BY <2>4, EnoughDummies DEF Emptied
  <2>6. ~(Cardinality(rest) > Cardinality(stash))
    BY <2>1, <2>2, <2>3, <2>4, ReshuffleShrinks
  <2>. QED  BY <2>4, <2>5, <2>6 DEF Check
<1>5. CASE plb_fill
  <2>1. PICK tag \in Pos : tag = PosTag[req][i_saved]
    BY <1>5, PosTagType DEF plb_fill, At, AccessPhase
  <2>2. PICK back : back = Victim(tag)
    OBVIOUS
  <2>3. /\ pc = "fill"
        /\ err' = Check(\E s \in back : stash_contain(s.addr), "already in stash",
                  Check(Cardinality(stash \cup back) > STASH_SIZE, "stash overflow",
                  Check(~stash_contain(tag), "not in stash", "none")))
    BY <1>5, <2>1, <2>2 DEF plb_fill, At
  <2>4. stash_contain(tag)
    BY <2>1, <2>3 DEF PinnedStays
  <2>5. ASSUME NEW s \in back
        PROVE  ~stash_contain(s.addr)
    <3>1. PICK w \in PlbSets : w = PlbIndex[tag]
      BY PosmapAssumption
    <3>2. s.addr = plb[w] /\ plb[w] # NONE
      <4>1. back = IF plb[w] = NONE THEN {} ELSE { [addr |-> plb[w], label |-> PosMap[plb[w]]] }
        BY <2>2, <3>1 DEF Victim
      <4>2. plb[w] # NONE /\ s = [addr |-> plb[w], label |-> PosMap[plb[w]]]
        BY <4>1
      <4>. QED  BY <4>2
    <3>3. plb[w] \in Pos /\ plb[w] \in Block
      BY <3>2 DEF TypeOK, Block
    <3>4. PlbIndex[plb[w]] = w
      BY <3>2 DEF AccessPhase
    <3>5. InPlb(plb[w])
      BY <3>3, <3>4 DEF InPlb, plb_access
    <3>. QED  BY <3>2, <3>3, <3>5 DEF SingleCopy
  <2>. QED  BY <2>3, <2>4, <2>5 DEF Check
<1>6. CASE err' = err
  BY <1>6
<1>. QED
  BY <1>1, <1>2, <1>3, <1>4, <1>5, <1>6
     DEF Next, vars, StashHit, freecursive_access, PosmapAccess, PosmapInStash, DataAccess,
         DataInStash, Enter, DummyAccess, NoEviction, write_path, NoReshuffle, EndAccess

-------------------------------------------------------------------------------
(* Initially every block is in the one bucket oram_init has placed it in.  *)
LEMMA InitTree ==
  ASSUME Init
  PROVE  \E depth \in [Block -> Level] :
           /\ Placement(PosMap, depth)
           /\ \A n \in Node : \A s : s \in tree[n] <=>
                \E b \in Block : /\ NodeAt(PosMap[b], depth[b]) = n
                                 /\ s = [addr |-> b, label |-> PosMap[b]]
<1>1. PICK depth \in [Block -> Level] :
        /\ Placement(PosMap, depth)
        /\ tree = [n \in Node |-> { [addr |-> b, label |-> PosMap[b]] :
                                    b \in { c \in Block : NodeAt(PosMap[c], depth[c]) = n } }]
  BY DEF Init
<1>2. ASSUME NEW n \in Node, NEW s
      PROVE  s \in tree[n] <=>
               \E b \in Block : /\ NodeAt(PosMap[b], depth[b]) = n
                                /\ s = [addr |-> b, label |-> PosMap[b]]
  <2>1. tree[n] = { [addr |-> b, label |-> PosMap[b]] :
                    b \in { c \in Block : NodeAt(PosMap[c], depth[c]) = n } }
    BY <1>1
  <2>. QED  BY <2>1
<1>. QED  BY <1>1, <1>2

(* Initially every block is in one place, on its path.                     *)
LEMMA InitCopy == Init => SingleCopy /\ BlockOnItsPath
<1>. SUFFICES ASSUME Init
              PROVE  SingleCopy /\ BlockOnItsPath
  OBVIOUS
<1>1. PICK depth \in [Block -> Level] :
        \A n \in Node : \A s : s \in tree[n] <=>
          \E b \in Block : /\ NodeAt(PosMap[b], depth[b]) = n
                           /\ s = [addr |-> b, label |-> PosMap[b]]
  BY InitTree
<1>2. stash = {} /\ PosMap \in [Block -> Path]
  BY DEF Init
<1>3. \A b \in Block : NodeAt(PosMap[b], depth[b]) \in Node /\ NodeAt(PosMap[b], depth[b])[1] = depth[b]
  BY <1>2, NodeAtLevel
<1>4. \A b \in Block : ~InPlb(b) /\ ~stash_contain(b)
  <2>1. \A b \in Pos : plb[PlbIndex[b]] # b
    BY PosmapAssumption, BlockAssumption DEF Init
  <2>. QED  BY <1>2, <2>1 DEF InPlb, plb_access, stash_contain
<1>5. \A b \in Block : InTree(b)
  <2>1. ASSUME NEW b \in Block
        PROVE  InTree(b)
    <3>. DEFINE slot == [addr |-> b, label |-> PosMap[b]]
    <3>1. slot \in tree[NodeAt(PosMap[b], depth[b])]
      BY <1>1, <1>3
    <3>. QED  BY <1>3, <3>1 DEF InTree, Holds
  <2>. QED  BY <2>1
<1>6. \A n, m \in Node : \A s \in tree[n], t \in tree[m] : s.addr = t.addr => n = m /\ s = t
  BY <1>1
<1>7. SingleCopy
  BY <1>2, <1>4, <1>5, <1>6 DEF SingleCopy
<1>8. \A n \in Node : \A s \in tree[n] : s.label = PosMap[s.addr] /\ NodeAt(s.label, n[1]) = n
  BY <1>1, <1>3
<1>. QED  BY <1>2, <1>7, <1>8 DEF BlockOnItsPath

(* Initially every bucket has its whole budget.                            *)
LEMMA InitBudget == Init => DummyBudget
<1>. SUFFICES ASSUME Init, NEW n \in Node
              PROVE  BucketBudget(n)
  BY DEF DummyBudget
<1>1. PICK depth \in [Block -> Level] :
        /\ Placement(PosMap, depth)
        /\ \A m \in Node : \A s : s \in tree[m] <=>
             \E b \in Block : /\ NodeAt(PosMap[b], depth[b]) = m
                              /\ s = [addr |-> b, label |-> PosMap[b]]
  BY InitTree
<1>. DEFINE In == { b \in Block : NodeAt(PosMap[b], depth[b]) = n }
            f  == [b \in In |-> [addr |-> b, label |-> PosMap[b]]]
<1>2. Cardinality(In) <= RING_Z
  BY <1>1 DEF Placement
<1>3. IsFiniteSet(In) /\ Cardinality(In) \in Nat
  BY BlockAssumption, FS_Union, FS_Subset, FS_CardinalityType DEF Block
<1>4. f \in Surjection(In, tree[n])
  BY <1>1 DEF Surjection
<1>. HIDE DEF In, f
<1>5. Cardinality(tree[n]) <= Cardinality(In) /\ IsFiniteSet(tree[n])
  BY <1>3, <1>4, FS_Surjection
<1>6. Cardinality(tree[n]) \in Nat /\ Cardinality(tree[n]) <= RING_Z
  BY <1>2, <1>3, <1>5, FS_CardinalityType, SizeAssumption
<1>7. count[n] = 0 /\ dumvalid[n] = LZ - Cardinality(tree[n]) /\ ~Emptied(n)
  BY DEF Init, Emptied
<1>8. LZ \in Nat
  BY SizeAssumption DEF LZ
<1>. QED  BY <1>6, <1>7, <1>8, SizeAssumption DEF BucketBudget

(* The invariant holds initially.                                          *)
LEMMA IndInvInit == Init => IndInv
<1>. SUFFICES ASSUME Init
              PROVE  IndInv
  OBVIOUS
<1>1. NoExit
  BY DEF Init, NoExit
<1>2. AccessPhase
  BY DEF Init, AccessPhase, Accessing
<1>3. PinnedStays /\ ChainInPlb
  BY DEF Init, PinnedStays, ChainInPlb
<1>. QED  BY <1>1, <1>2, <1>3, TypeInit, InitCopy, InitBudget DEF IndInv

-------------------------------------------------------------------------------
(* The invariant of every access, and with it each of its conjuncts.       *)
THEOREM Inductive == Spec => []IndInv
<1>1. IndInv /\ [Next]_vars => IndInv'
  BY TypeNext, ExitNext, PhaseNext, CopyNext, PathNext, BudgetNext, PinNext, ChainNext DEF IndInv
<1>. QED  BY <1>1, IndInvInit, PTL DEF Spec

(* Every variable stays in its range.                                      *)
THEOREM TypeCorrect == Spec => []TypeOK
<1>1. IndInv => TypeOK
  BY DEF IndInv
<1>. QED  BY <1>1, Inductive, PTL

(* No sequence of accesses and no choice of labels takes the program to an *)
(* exit(1) other than the one of a full stash.                             *)
THEOREM NeverExits == Spec => []NoExit
<1>1. IndInv => NoExit
  BY DEF IndInv
<1>. QED  BY <1>1, Inductive, PTL

(* No block is lost or copied by ring_read_path, the evictions, the        *)
(* reshuffles and plb_fill.                                                *)
THEOREM BlocksConserved == Spec => []SingleCopy
<1>1. IndInv => SingleCopy
  BY DEF IndInv
<1>. QED  BY <1>1, Inductive, PTL

(* The path that PosMap names for a block in the tree is the one it is on. *)
THEOREM OnPathAlways == Spec => []BlockOnItsPath
<1>1. IndInv => BlockOnItsPath
  BY DEF IndInv
<1>. QED  BY <1>1, Inductive, PTL

(* Every bucket has a valid dummy left for the next read of its path.      *)
THEOREM BudgetKept == Spec => []DummyBudget
<1>1. IndInv => DummyBudget
  BY DEF IndInv
<1>. QED  BY <1>1, Inductive, PTL

(* A pinned position-map block is in the stash until plb_fill takes it.    *)
THEOREM PinnedKept == Spec => []PinnedStays
<1>1. IndInv => PinnedStays
  BY DEF IndInv
<1>. QED  BY <1>1, Inductive, PTL

(* The labels of a level are used only with the block that holds them in   *)
(* the PLB.                                                                *)
THEOREM ChainKept == Spec => []ChainInPlb
<1>1. IndInv => ChainInPlb
  BY DEF IndInv
<1>. QED  BY <1>1, Inductive, PTL

-------------------------------------------------------------------------------
(* The buckets an eviction has written are full for every block that is    *)
(* left over: the strengthening from which EvictionIsMaximal follows.      *)
LeftOver(s) == ~(pinFlag /\ s.addr = cur)

WrittenFull ==
  pc = "evict" =>
    \A s \in stash : LeftOver(s) =>
      \A n \in OnPath(evict_label) \cap OnPath(s.label) :
        n[1] > lvl => Cardinality(tree[n]) = RING_Z

(* One turn of write_path leaves a candidate in the stash only if the      *)
(* bucket is full now.                                                     *)
LEMMA WriteLeavesFull ==
  ASSUME IndInv, WrittenFull, NEW W \in SUBSET stash, write_path(W),
         NEW s \in stash', LeftOver(s),
         NEW n \in OnPath(evict_label) \cap OnPath(s.label), n[1] >= lvl
  PROVE  Cardinality(tree'[n]) = RING_Z
<1>. USE DEF IndInv
<1>1. PICK m \in Node : m = NodeAt(evict_label, lvl)
  BY NodeAtLevel DEF TypeOK
<1>2. /\ pc = "evict"
      /\ Fills(W, pick_candidate(stash, m))
      /\ tree' = [tree EXCEPT ![m] = W]
      /\ stash' = stash \ W
  BY <1>1 DEF write_path, At, write_bucket
<1>3. /\ n \in Node /\ n[1] \in Level /\ n = NodeAt(evict_label, n[1])
      /\ s \in Slot /\ s.label \in Path /\ n = NodeAt(s.label, n[1])
  <2>1. s \in Slot /\ s.label \in Path /\ evict_label \in Path
    BY <1>2 DEF TypeOK, Slot
  <2>. QED  BY <2>1, OnPathLevel
<1>4. CASE n[1] = lvl
  <2>1. n = m
    BY <1>1, <1>3, <1>4
  <2>2. s \in pick_candidate(stash, m) /\ s \notin W
    BY <1>2, <1>3, <2>1 DEF pick_candidate, LeftOver
  <2>3. Cardinality(W) = RING_Z
    BY <1>2, <2>2 DEF Fills
  <2>. QED  BY <1>2, <2>1, <2>3 DEF TypeOK
<1>5. CASE n[1] # lvl
  <2>1. n # m /\ n[1] > lvl
    <3>1. m[1] = lvl /\ lvl \in Int /\ n[1] \in Int
      BY <1>1, <1>3, NodeAtLevel DEF TypeOK, Level
    <3>. QED  BY <1>5, <3>1
  <2>2. tree'[n] = tree[n]
    BY <1>2, <1>3, <2>1 DEF TypeOK
  <2>. QED  BY <1>2, <2>1, <2>2 DEF WrittenFull
<1>. QED  BY <1>4, <1>5

(* The buckets write_path has passed stay full for every block left over.  *)
LEMMA WrittenFullNext == IndInv /\ WrittenFull /\ [Next]_vars => WrittenFull'
<1>. SUFFICES ASSUME IndInv, WrittenFull, [Next]_vars
              PROVE  WrittenFull'
  OBVIOUS
<1>1. ASSUME pc' # "evict"
      PROVE  WrittenFull'
  BY <1>1 DEF WrittenFull
<1>2. CASE ring_evict_path
  <2>1. lvl' = LEVEL - 1 /\ evict_label' \in Path
    BY <1>2, EvictedPath DEF ring_evict_path, IndInv, TypeOK
  <2>2. \A n \in OnPath(evict_label') : ~(n[1] > lvl')
    BY <2>1, OnPathLevel, LevelAssumption DEF Level
  <2>. QED  BY <2>2 DEF WrittenFull
<1>3. ASSUME NEW W \in SUBSET stash, write_path(W), pc' = "evict"
      PROVE  WrittenFull'
  <2>1. lvl' = lvl - 1 /\ evict_label' = evict_label /\ cur' = cur /\ pinFlag' = pinFlag
    BY <1>3 DEF write_path, accessVars
  <2>2. ASSUME NEW s \in stash', LeftOver(s),
               NEW n \in OnPath(evict_label) \cap OnPath(s.label), n[1] > lvl - 1
        PROVE  Cardinality(tree'[n]) = RING_Z
    <3>1. n[1] \in Int /\ lvl \in Int
      BY OnPathLevel DEF IndInv, TypeOK, Level
    <3>2. n[1] >= lvl
      BY <2>2, <3>1
    <3>. QED  BY <1>3, <2>2, <3>2, WriteLeavesFull
  <2>. QED  BY <2>1, <2>2 DEF WrittenFull, LeftOver
<1>4. CASE UNCHANGED vars \/ \E a \in Data : StashHit(a)
  BY <1>4 DEF StashHit, vars, WrittenFull, LeftOver
<1>5. ASSUME Next, ~ring_evict_path, ~ \E W \in SUBSET stash : write_path(W),
             ~ \E a \in Data : StashHit(a)
      PROVE  pc' # "evict"
  BY <1>5 DEF Next, freecursive_access, PosmapAccess, PosmapInStash, DataAccess, DataInStash,
     Enter, DummyAccess, ring_read_path, remap_block, NoEviction, NoReshuffle, NextReshuffle,
     ring_early_reshuffle, EndAccess, plb_fill
<1>. QED  BY <1>1, <1>2, <1>3, <1>4, <1>5

(* An eviction pushes every block as deep as the path allows.              *)
THEOREM EvictionMaximal == Spec => EvictionIsMaximal
<1>1. Init => WrittenFull
  BY DEF Init, WrittenFull
<1>2. IndInv /\ WrittenFull /\ [Next]_vars
        => [ pc = "evict" /\ pc' = "reshuffle" =>
               \A s \in stash' : ~(pinFlag /\ s.addr = cur) =>
                 \A n \in OnPath(evict_label) \cap OnPath(s.label) :
                   Cardinality(tree'[n]) = RING_Z ]_vars
  <2>. SUFFICES ASSUME IndInv, WrittenFull, Next, pc = "evict", pc' = "reshuffle",
                       NEW s \in stash', LeftOver(s),
                       NEW n \in OnPath(evict_label) \cap OnPath(s.label)
                PROVE  Cardinality(tree'[n]) = RING_Z
    BY DEF LeftOver
  <2>1. PICK W \in SUBSET stash : write_path(W)
    BY DEF Next, StashHit, freecursive_access, PosmapAccess, PosmapInStash, DataAccess,
       DataInStash, DummyAccess, ring_read_path, remap_block, NoEviction, ring_evict_path,
       NoReshuffle, ring_early_reshuffle, EndAccess, plb_fill, At
  <2>2. lvl = 0 /\ n[1] \in Level
    BY <2>1, OnPathLevel DEF write_path, IndInv, TypeOK
  <2>. QED  BY <2>1, <2>2, WriteLeavesFull DEF Level
<1>. QED  BY <1>1, <1>2, IndInvInit, WrittenFullNext, Inductive, PTL DEF Spec, EvictionIsMaximal

-------------------------------------------------------------------------------
(* How full the stash gets: the growth of one access, the bound between    *)
(* accesses, and the size from which the stash never overflows.  The steps *)
(* build on IndInv.                                                        *)

(* What an access may leave in the stash: the occupancy it found and, when *)
(* it is not a dummy access, its own block.                                *)
Occ == stash_occu + (IF cur = NONE THEN 0 ELSE 1)

(* The slots of the stash that cannot go to level l of the evicted path.   *)
Misfits(l) == stash \ pick_candidate(stash, NodeAt(evict_label, l))

(* The strengthening that carries AccessGrowth through an eviction.  The   *)
(* slots pulled from level l or below can all be written to level l again, *)
(* so those that do not fit there were in the stash before or come from    *)
(* one of the l levels above, with at most RING_Z from each.               *)
EvictGrowth ==
  /\ Cardinality(stash) <= Occ + (lvl + 1) * RING_Z
  /\ \A l \in 0 .. lvl : Cardinality(Misfits(l)) <= Occ + l * RING_Z

GrowthInv ==
  /\ pc \in { "read", "remap", "round", "reshuffle", "done" } => Cardinality(stash) <= Occ
  /\ pc = "read" => Cardinality(stash) = stash_occu
  /\ pc = "evict" => EvictGrowth

(* The stash a step of the current request starts from: below DUMMY_TH when *)
(* the request began, and one block more for every level already fetched.   *)
Base == IF req = NONE THEN DUMMY_TH + H - 2 ELSE DUMMY_TH + H - 3 - i_saved

RequestInv ==
  /\ pc \in { "idle", "posmap" } => Cardinality(stash) <= Base
  /\ Accessing => stash_occu <= Base
  /\ pc = "fill" => Cardinality(stash) <= Base + 1

-------------------------------------------------------------------------------
(* What the cardinalities of sets of slots obey.                           *)
LEMMA SlotCounts ==
  ASSUME NEW S \in SUBSET Slot, NEW T \in SUBSET Slot
  PROVE  /\ Cardinality(S) \in Nat /\ Cardinality(T) \in Nat
         /\ Cardinality(S \cup T) <= Cardinality(S) + Cardinality(T)
         /\ T \subseteq S => /\ Cardinality(T) <= Cardinality(S)
                             /\ Cardinality(S \ T) = Cardinality(S) - Cardinality(T)
BY SlotsFinite, SetCounts

(* The types that bound the counts of this module. *)
LEMMA OccType ==
  ASSUME TypeOK
  PROVE  /\ Occ \in Nat /\ Base \in Int
         /\ Cardinality(stash) \in Nat
         /\ lvl \in Nat /\ lvl <= LEVEL - 1
         /\ LEVEL \in Nat /\ RING_Z \in Nat
<1>1. Base \in Int
  BY SizeAssumption DEF TypeOK, Base
<1>. QED  BY <1>1, SlotsFinite, SizeAssumption, LevelAssumption DEF TypeOK, Occ, Level

-------------------------------------------------------------------------------
(* The read of a path adds the block of the access, and nothing when it is *)
(* a dummy access.                                                         *)
LEMMA ReadGrowth ==
  ASSUME IndInv, GrowthInv, ring_read_path
  PROVE  /\ Cardinality(stash') <= Occ
         /\ Occ' = Occ /\ pc' # "read" /\ pc' # "evict"
<1>1. pc = "read" /\ cur' = cur /\ stash_occu' = stash_occu /\ pc' \in { "round", "remap" }
  BY DEF ring_read_path, At, accessVars
<1>2. Cardinality(stash) = stash_occu /\ stash \in SUBSET Slot
  BY <1>1 DEF GrowthInv, IndInv, TypeOK
<1>3. Occ' = Occ
  BY <1>1 DEF Occ
<1>4. CASE cur = NONE
  <2>1. stash' = stash
    BY <1>4, ReadPathEffect
  <2>. QED  BY <1>1, <1>2, <1>3, <1>4, <2>1, OccType DEF Occ, IndInv
<1>5. CASE cur # NONE
  <2>1. PICK s \in Slot : stash' = stash \cup {s}
    BY <1>5, ReadPathEffect
  <2>2. Cardinality(stash') <= stash_occu + 1
    BY <1>2, <2>1, SlotsFinite, OneElement
  <2>. QED  BY <1>1, <1>3, <1>5, <2>2 DEF Occ
<1>. QED  BY <1>4, <1>5

(* Relabelling a block in the stash adds none. *)
LEMMA RelabelGrowth ==
  ASSUME TypeOK, NEW b \in Block, NEW p \in Path
  PROVE  Cardinality(Relabel(stash, b, p)) <= Cardinality(stash)
<1>. DEFINE T == Relabel(stash, b, p)
            f == [s \in stash |-> IF s.addr = b THEN [addr |-> b, label |-> p] ELSE s]
<1>1. f \in Surjection(stash, T)
  <2>1. f \in [stash -> T]
    BY DEF Relabel
  <2>2. \A t \in T : \E s \in stash : f[s] = t
    BY DEF Relabel
  <2>. QED  BY <2>1, <2>2 DEF Surjection
<1>2. IsFiniteSet(stash)
  BY SlotsFinite DEF TypeOK
<1>. HIDE DEF f
<1>. QED  BY <1>1, <1>2, FS_Surjection

(* The eviction pulls at most RING_Z slots from each of its levels; all    *)
(* that come from level l or below fit into the bucket of level l, since a *)
(* path that shares a bucket with it shares the buckets above.             *)
LEMMA PulledGrowth ==
  ASSUME IndInv, Cardinality(stash) <= Occ, ring_evict_path
  PROVE  EvictGrowth'
<1>. USE DEF IndInv
<1>1. PICK el \in Path : el = reverse_lex(ring_G)
  BY EvictedPath DEF TypeOK
<1>. DEFINE O == [j \in Level |-> tree[NodeAt(el, j)]]
            Above(l) == UNION { O[j] : j \in 0 .. l - 1 }
            pulled == UNION { tree[n] : n \in OnPath(el) }
<1>2. /\ pc = "round" /\ evict_label' = el /\ lvl' = LEVEL - 1
      /\ stash' = stash \cup pulled
      /\ cur' = cur /\ stash_occu' = stash_occu /\ pinFlag' = pinFlag
  BY <1>1 DEF ring_evict_path, At, accessVars
<1>3. Occ' = Occ
  BY <1>2 DEF Occ
<1>4. \A j \in Level : O[j] \in SUBSET Slot /\ Cardinality(O[j]) <= RING_Z
  BY NodeAtLevel DEF TypeOK, DummyBudget, BucketBudget
<1>5. pulled = Above(LEVEL)
  BY DEF OnPath, Level
<1>6. ASSUME NEW l \in 0 .. LEVEL
      PROVE  Above(l) \in SUBSET Slot /\ Cardinality(Above(l)) <= l * RING_Z
  <2>1. \A j \in 0 .. l - 1 : O[j] \in SUBSET Slot /\ Cardinality(O[j]) <= RING_Z
    <3>1. \A j \in 0 .. l - 1 : j \in Level
      BY LevelAssumption DEF Level
    <3>. HIDE DEF O
    <3>. QED  BY <1>4, <3>1, Zenon
  <2>2. l \in Nat /\ RING_Z \in Nat
    BY LevelAssumption, SizeAssumption
  <2>3. \A j \in 0 .. l - 1 : IsFiniteSet(O[j])
    BY <2>1, SlotsFinite
  <2>. HIDE DEF O
  <2>. QED  BY <2>1, <2>2, <2>3, UnionSize
<1>7. stash \in SUBSET Slot /\ Cardinality(stash) \in Nat
  BY SlotsFinite DEF TypeOK
<1>8. Cardinality(stash') <= Occ' + (lvl' + 1) * RING_Z
  <2>1. LEVEL \in 0 .. LEVEL /\ lvl' + 1 = LEVEL
    BY <1>2, LevelAssumption
  <2>2. Above(LEVEL) \in SUBSET Slot /\ Cardinality(Above(LEVEL)) <= LEVEL * RING_Z
    BY <1>6, <2>1
  <2>3. /\ Cardinality(stash') <= Cardinality(stash) + Cardinality(Above(LEVEL))
        /\ Cardinality(stash') \in Nat /\ Cardinality(Above(LEVEL)) \in Nat
    <3>1. stash' = stash \cup Above(LEVEL)
      BY <1>2, <1>5
    <3>. HIDE DEF Above, pulled
    <3>. QED  BY <1>7, <2>2, <3>1, SlotCounts, SlotsFinite
  <2>4. Occ \in Nat /\ LEVEL * RING_Z \in Nat
    BY OccType, LevelAssumption, SizeAssumption
  <2>. HIDE DEF Above, pulled
  <2>. QED  BY <1>3, <1>7, <2>1, <2>2, <2>3, <2>4
<1>9. ASSUME NEW l \in 0 .. lvl'
      PROVE  Cardinality(Misfits(l)') <= Occ' + l * RING_Z
  <2>1. l \in Level /\ l \in 0 .. LEVEL
    BY <1>2, LevelAssumption DEF Level
  <2>2. ASSUME NEW j \in Level, l <= j, NEW s \in O[j]
        PROVE  s \in pick_candidate(stash', NodeAt(el, l))
    <3>1. NodeAt(el, j) \in Node /\ NodeAt(el, j) \in OnPath(el)
          /\ NodeAt(el, j)[1] = j /\ NodeAt(el, l)[1] = l
      BY <2>1, NodeAtLevel
    <3>2. s \in tree[NodeAt(el, j)] /\ s \in Slot /\ s.addr \in Block /\ s.label \in Path
      BY <2>2, <3>1 DEF TypeOK, Slot
    <3>3. NodeAt(s.label, j) = NodeAt(el, j)
      BY <3>1, <3>2 DEF BlockOnItsPath
    <3>4. NodeAt(s.label, l) = NodeAt(el, l)
      BY <2>1, <2>2, <3>2, <3>3, Nested
    <3>5. ~(pinFlag /\ s.addr = cur)
      <4>1. pinFlag => stash_contain(cur)
        BY <1>2 DEF PinnedStays
      <4>2. InTree(s.addr)
        BY <3>1, <3>2 DEF InTree, Holds
      <4>. QED  BY <3>2, <4>1, <4>2 DEF SingleCopy
    <3>6. s \in stash'
      BY <1>2, <3>1, <3>2
    <3>. QED  BY <1>2, <3>1, <3>4, <3>5, <3>6 DEF pick_candidate
  <2>3. Misfits(l)' \subseteq stash \cup Above(l)
    <3>1. Misfits(l)' = stash' \ pick_candidate(stash', NodeAt(el, l))
      BY <1>2 DEF Misfits, pick_candidate
    <3>2. ASSUME NEW s \in pulled, s \notin pick_candidate(stash', NodeAt(el, l))
          PROVE  s \in Above(l)
      <4>1. PICK j \in Level : s \in O[j]
        BY DEF OnPath
      <4>2. ~(l <= j)
        BY <2>2, <3>2, <4>1
      <4>3. j \in 0 .. l - 1
        BY <2>1, <4>2 DEF Level
      <4>. QED  BY <4>1, <4>3
    <3>. HIDE DEF Above, pulled, O
    <3>. QED  BY <1>2, <3>1, <3>2
  <2>4. Above(l) \in SUBSET Slot /\ Cardinality(Above(l)) <= l * RING_Z
    BY <1>6, <2>1
  <2>. HIDE DEF Above, pulled, O
  <2>5. /\ Cardinality(Misfits(l)') <= Cardinality(stash \cup Above(l))
        /\ Cardinality(stash \cup Above(l)) <= Cardinality(stash) + Cardinality(Above(l))
    BY <1>7, <2>3, <2>4, SlotCounts
  <2>6. /\ Cardinality(Misfits(l)') \in Nat /\ Cardinality(stash \cup Above(l)) \in Nat
        /\ Cardinality(Above(l)) \in Nat
    BY <1>7, <2>3, <2>4, SlotsFinite
  <2>7. Occ \in Nat /\ l * RING_Z \in Nat
    BY OccType, <2>1, SizeAssumption DEF Level
  <2>. QED  BY <1>3, <1>7, <2>4, <2>5, <2>6, <2>7
<1>. QED  BY <1>8, <1>9 DEF EvictGrowth

(* One turn of write_path: a full bucket takes RING_Z slots; one that is   *)
(* not full takes every slot that fits, and leaves the misfits.            *)
LEMMA WriteGrowth ==
  ASSUME IndInv, EvictGrowth, NEW W \in SUBSET stash, write_path(W)
  PROVE  /\ Cardinality(stash') <= Occ + lvl * RING_Z
         /\ \A l \in 0 .. lvl :
              Cardinality(stash' \ pick_candidate(stash', NodeAt(evict_label, l))) <= Occ + l * RING_Z
<1>. USE DEF IndInv
<1>1. PICK C : C = pick_candidate(stash, NodeAt(evict_label, lvl))
  OBVIOUS
<1>2. Fills(W, C) /\ stash' = stash \ W /\ C \in SUBSET stash
  BY <1>1 DEF write_path, pick_candidate
<1>3. /\ stash \in SUBSET Slot /\ W \in SUBSET Slot /\ C \in SUBSET Slot
      /\ stash \ W \in SUBSET Slot /\ stash \ C \in SUBSET Slot
  BY <1>2 DEF TypeOK
<1>4. /\ Cardinality(stash) \in Nat /\ Cardinality(W) \in Nat /\ Cardinality(stash \ W) \in Nat
      /\ Cardinality(stash \ C) \in Nat
  BY <1>3, SlotsFinite
<1>5. /\ Occ \in Nat /\ lvl \in Nat /\ RING_Z \in Nat
      /\ (lvl + 1) * RING_Z = lvl * RING_Z + RING_Z /\ lvl * RING_Z \in Nat
  BY OccType
<1>6. Cardinality(stash') <= Occ + lvl * RING_Z
  <2>1. CASE W = C
    <3>1. Cardinality(stash \ C) <= Occ + lvl * RING_Z
      BY <1>1, <1>5 DEF EvictGrowth, Misfits
    <3>. QED  BY <1>2, <2>1, <3>1
  <2>2. CASE Cardinality(W) = RING_Z
    <3>1. Cardinality(stash) <= Occ + (lvl + 1) * RING_Z
      BY DEF EvictGrowth
    <3>2. Cardinality(stash \ W) = Cardinality(stash) - RING_Z
      BY <1>3, <2>2, SlotCounts
    <3>. QED  BY <1>2, <1>4, <1>5, <3>1, <3>2
  <2>. QED  BY <1>2, <2>1, <2>2 DEF Fills
<1>7. ASSUME NEW l \in 0 .. lvl
      PROVE  Cardinality(stash' \ pick_candidate(stash', NodeAt(evict_label, l))) <= Occ + l * RING_Z
  <2>1. PICK M : M = Misfits(l)
    OBVIOUS
  <2>2. PICK N : N = stash' \ pick_candidate(stash', NodeAt(evict_label, l))
    OBVIOUS
  <2>3. N \subseteq M /\ M \in SUBSET Slot /\ N \in SUBSET Slot
    BY <1>2, <1>3, <2>1, <2>2 DEF Misfits, pick_candidate
  <2>4. Cardinality(N) <= Cardinality(M) /\ Cardinality(N) \in Nat /\ Cardinality(M) \in Nat
    BY <2>3, SlotCounts
  <2>5. Cardinality(M) <= Occ + l * RING_Z
    BY <2>1 DEF EvictGrowth
  <2>6. l * RING_Z \in Nat
    BY <1>5
  <2>. QED  BY <1>5, <2>2, <2>4, <2>5, <2>6
<1>. QED  BY <1>6, <1>7

(* Every step keeps the growth of the access within its bound. *)
LEMMA GrowthNext == IndInv /\ GrowthInv /\ [Next]_vars => GrowthInv'
<1>. SUFFICES ASSUME IndInv, GrowthInv, [Next]_vars
              PROVE  GrowthInv'
  OBVIOUS
<1>. USE DEF IndInv
<1>1. ASSUME NEW b, Enter(b, TRUE) \/ Enter(b, FALSE)
      PROVE  GrowthInv'
  <2>1. /\ pc' = "read" /\ stash' = stash /\ stash_occu' = Cardinality(stash)
    BY <1>1 DEF Enter, oramVars
  <2>. QED  BY <2>1, OccType DEF GrowthInv, Occ
<1>2. ASSUME NEW p \in Path, DummyAccess(p)
      PROVE  GrowthInv'
  <2>1. pc' = "read" /\ stash' = stash /\ stash_occu' = Cardinality(stash)
    BY <1>2 DEF DummyAccess, oramVars
  <2>. QED  BY <2>1, OccType DEF GrowthInv, Occ
<1>3. CASE ring_read_path
  BY <1>3, ReadGrowth DEF GrowthInv
<1>4. ASSUME NEW p \in Path, remap_block(p)
      PROVE  GrowthInv'
  <2>1. /\ pc = "remap" /\ pc' = "round" /\ cur' = cur /\ stash_occu' = stash_occu
        /\ stash' = Relabel(stash, cur, p)
    BY <1>4 DEF remap_block, At, accessVars
  <2>2. cur \in Block
    BY <2>1 DEF AccessPhase, TypeOK
  <2>3. Cardinality(stash') <= Cardinality(stash) /\ Cardinality(stash') \in Nat
    <3>1. stash' \in SUBSET Slot
      BY TypeNext DEF TypeOK
    <3>. QED  BY <2>1, <2>2, <3>1, RelabelGrowth, SlotsFinite
  <2>. QED  BY <2>1, <2>3, OccType DEF GrowthInv, Occ
<1>5. CASE NoEviction
  BY <1>5 DEF NoEviction, At, oramVars, accessVars, GrowthInv, Occ
<1>6. CASE ring_evict_path
  <2>1. pc = "round" /\ pc' = "evict"
    BY <1>6 DEF ring_evict_path, At
  <2>. QED  BY <1>6, <2>1, PulledGrowth DEF GrowthInv
<1>7. ASSUME NEW W \in SUBSET stash, write_path(W)
      PROVE  GrowthInv'
  <2>1. /\ pc = "evict" /\ evict_label' = evict_label
        /\ cur' = cur /\ stash_occu' = stash_occu /\ pinFlag' = pinFlag
        /\ Occ' = Occ
    BY <1>7 DEF write_path, At, accessVars, Occ
  <2>2. EvictGrowth
    BY <2>1 DEF GrowthInv
  <2>3. CASE lvl = 0
    <3>1. pc' = "reshuffle" /\ lvl * RING_Z = 0
      BY <1>7, <2>3, OccType DEF write_path
    <3>. QED  BY <1>7, <2>1, <2>2, <3>1, WriteGrowth, OccType DEF GrowthInv
  <2>4. CASE lvl # 0
    <3>1. pc' = "evict" /\ lvl' = lvl - 1 /\ lvl' + 1 = lvl
      BY <1>7, <2>4, OccType DEF write_path
    <3>2. Cardinality(stash') <= Occ' + (lvl' + 1) * RING_Z
      BY <1>7, <2>1, <2>2, <3>1, WriteGrowth
    <3>3. ASSUME NEW l \in 0 .. lvl'
          PROVE  Cardinality(Misfits(l)') <= Occ' + l * RING_Z
      <4>1. l \in 0 .. lvl
        BY <3>1, OccType
      <4>2. Misfits(l)' = stash' \ pick_candidate(stash', NodeAt(evict_label, l))
        BY <2>1 DEF Misfits, pick_candidate
      <4>. QED  BY <1>7, <2>1, <2>2, <4>1, <4>2, WriteGrowth
    <3>. QED  BY <3>1, <3>2, <3>3 DEF GrowthInv, EvictGrowth
  <2>. QED  BY <2>3, <2>4
<1>8. CASE NoReshuffle
  BY <1>8 DEF NoReshuffle, NextReshuffle, At, oramVars, accessVars, GrowthInv, Occ
<1>9. ASSUME NEW W \in SUBSET (stash \cup tree[NodeAt(label, lvl)]), ring_early_reshuffle(W)
      PROVE  GrowthInv'
  <2>1. PICK m \in Node : m = NodeAt(label, lvl)
    BY NodeAtLevel DEF TypeOK
  <2>2. /\ pc = "reshuffle" /\ pc' \in { "reshuffle", "done" }
        /\ Fills(W, pick_candidate(stash \cup tree[m], m))
        /\ stash' = (stash \cup tree[m]) \ W
        /\ Occ' = Occ
    BY <1>9, <2>1 DEF ring_early_reshuffle, NextReshuffle, At, accessVars, Occ
  <2>3. ~(Cardinality(stash') > Cardinality(stash))
    BY <2>1, <2>2, ReshuffleShrinks
  <2>4. Cardinality(stash') \in Nat
    BY TypeNext, SlotsFinite DEF TypeOK
  <2>. QED  BY <2>2, <2>3, <2>4, OccType DEF GrowthInv
<1>10. ASSUME pc' \in { "idle", "posmap", "fill" }
       PROVE  GrowthInv'
  BY <1>10 DEF GrowthInv
<1>11. CASE UNCHANGED vars
  BY <1>11 DEF vars, GrowthInv, EvictGrowth, Misfits, Occ, pick_candidate
<1>12. CASE \E a \in Data : StashHit(a)
  BY <1>12, <1>11 DEF StashHit
<1>13. CASE (\E a \in Data : freecursive_access(a)) \/ PosmapInStash \/ DataInStash \/ EndAccess \/ plb_fill
  <2>1. pc' \in { "idle", "posmap", "fill" }
    BY <1>13 DEF freecursive_access, PosmapInStash, DataInStash, EndAccess, plb_fill
  <2>. QED  BY <2>1, <1>10
<1>14. CASE PosmapAccess \/ DataAccess
  BY <1>14, <1>1 DEF PosmapAccess, DataAccess
<1>. QED
  BY <1>2, <1>3, <1>4, <1>5, <1>6, <1>7, <1>8, <1>9, <1>11, <1>12, <1>13, <1>14 DEF Next

(* An access leaves at most one block more in the stash than it found, a   *)
(* dummy access none: the last check of ring_access never reports.         *)
THEOREM GrowthBounded == Spec => []AccessGrowth
<1>1. Init => GrowthInv
  BY DEF Init, GrowthInv
<1>2. GrowthInv => AccessGrowth
  BY DEF GrowthInv, AccessGrowth, Occ
<1>. QED  BY <1>1, <1>2, GrowthNext, Inductive, PTL DEF Spec

-------------------------------------------------------------------------------
(* plb_fill takes the fetched block out of the stash and returns at most   *)
(* one block to it.                                                        *)
LEMMA FillGrowth ==
  ASSUME IndInv, plb_fill
  PROVE  /\ Cardinality(stash') <= Cardinality(stash)
         /\ Cardinality(stash \cup Victim(PosTag[req][i_saved])) <= Cardinality(stash) + 1
<1>. USE DEF IndInv
<1>1. PICK tag \in Pos : tag = PosTag[req][i_saved]
  BY PosTagType DEF plb_fill, At, AccessPhase
<1>2. PICK back : back = Victim(tag)
  OBVIOUS
<1>3. back = {} \/ \E v \in Slot : back = {v}
  <2>1. PICK b : b = plb[PlbIndex[tag]]
    OBVIOUS
  <2>2. b \in Pos \cup {NONE}
    BY <1>1, <2>1, PosmapAssumption DEF TypeOK
  <2>3. b # NONE => [addr |-> b, label |-> PosMap[b]] \in Slot
    BY <2>2 DEF TypeOK, Slot, Block
  <2>. QED  BY <1>2, <2>1, <2>3 DEF Victim
<1>4. PICK t \in stash : t.addr = tag
  BY <1>1 DEF plb_fill, At, PinnedStays, stash_contain
<1>5. PICK rest : rest = stash \ {t}
  OBVIOUS
<1>6. /\ stash \in SUBSET Slot /\ t \in Slot /\ rest \in SUBSET Slot /\ back \in SUBSET Slot
      /\ Cardinality(stash) \in Nat /\ Cardinality(rest) \in Nat
      /\ Cardinality(stash \cup back) \in Nat /\ Cardinality(rest \cup back) \in Nat
  BY <1>3, <1>4, <1>5, SlotsFinite DEF TypeOK
<1>7. /\ Cardinality(stash \cup back) <= Cardinality(stash) + 1
      /\ Cardinality(rest \cup back) <= Cardinality(rest) + 1
  <2>1. CASE back = {}
    <3>1. stash \cup back = stash /\ rest \cup back = rest
      BY <2>1
    <3>. QED  BY <1>6, <3>1
  <2>2. CASE \E v \in Slot : back = {v}
    BY <1>6, <2>2, SlotsFinite, OneElement
  <2>. QED  BY <1>3, <2>1, <2>2
<1>8. Cardinality(rest) = Cardinality(stash) - 1
  BY <1>4, <1>5, <1>6, SlotsFinite, OneElement
<1>9. stash' \subseteq rest \cup back
  <2>1. stash' = { s \in stash \cup back : s.addr # tag }
    BY <1>1, <1>2 DEF plb_fill
  <2>. QED  BY <1>4, <1>5, <2>1
<1>10. Cardinality(stash') <= Cardinality(rest \cup back) /\ Cardinality(stash') \in Nat
  BY <1>6, <1>9, SlotCounts
<1>. QED  BY <1>1, <1>2, <1>6, <1>7, <1>8, <1>10

(* A request starts below DUMMY_TH and makes one access for every level it *)
(* still has to fetch, and the one for its data block.                     *)
LEMMA RequestNext == IndInv /\ GrowthInv /\ RequestInv /\ [Next]_vars => RequestInv'
<1>. SUFFICES ASSUME IndInv, GrowthInv, RequestInv, [Next]_vars
              PROVE  RequestInv'
  OBVIOUS
<1>. USE DEF IndInv
<1>1. /\ TypeOK' /\ AccessPhase' /\ Base \in Int /\ Base' \in Int
      /\ Cardinality(stash) \in Nat /\ Cardinality(stash') \in Nat
      /\ stash_occu \in Nat /\ Occ \in Nat
      /\ H \in Nat /\ H >= 2 /\ DUMMY_TH \in Nat /\ i_saved \in Nat
  <2>1. TypeOK' /\ AccessPhase'
    BY TypeNext, PhaseNext
  <2>2. Base' \in Int
    BY <2>1, SizeAssumption DEF TypeOK, Base
  <2>3. Cardinality(stash') \in Nat
    BY <2>1, SlotsFinite DEF TypeOK
  <2>. QED  BY <2>1, <2>2, <2>3, OccType, SizeAssumption DEF TypeOK
<1>2. ASSUME NEW a \in Data, freecursive_access(a)
      PROVE  RequestInv'
  <2>1. /\ pc' = "posmap" /\ stash' = stash /\ req' = a /\ a # NONE
        /\ Cardinality(stash) < DUMMY_TH
    BY <1>1, <1>2, BlockAssumption DEF freecursive_access, ring_dummy, oramVars
  <2>2. i_saved' \in 0 .. H - 2
    BY <1>1 DEF TypeOK
  <2>3. Base' = DUMMY_TH + H - 3 - i_saved'
    BY <2>1 DEF Base
  <2>. QED  BY <1>1, <2>1, <2>2, <2>3 DEF RequestInv, Accessing
<1>3. ASSUME NEW b, Enter(b, TRUE) \/ Enter(b, FALSE), pc = "posmap"
      PROVE  RequestInv'
  <2>1. /\ pc' = "read" /\ stash' = stash /\ stash_occu' = Cardinality(stash)
        /\ req' = req /\ i_saved' = i_saved
    BY <1>3 DEF Enter, oramVars
  <2>. QED  BY <1>3, <2>1 DEF RequestInv, Base, Accessing
<1>4. ASSUME NEW p \in Path, DummyAccess(p)
      PROVE  RequestInv'
  <2>1. /\ pc = "idle" /\ pc' = "read" /\ stash' = stash /\ stash_occu' = Cardinality(stash)
        /\ req' = req /\ i_saved' = i_saved
    BY <1>4 DEF DummyAccess, At, oramVars
  <2>. QED  BY <2>1 DEF RequestInv, Base, Accessing
<1>5. CASE PosmapInStash \/ DataInStash
  <2>1. /\ pc = "posmap" /\ stash' = stash /\ i_saved' = i_saved
        /\ \/ pc' = "fill" /\ req' = req
           \/ pc' = "idle" /\ req' = NONE
    BY <1>5 DEF PosmapInStash, DataInStash, At, oramVars
  <2>2. Cardinality(stash) <= Base /\ Base <= DUMMY_TH + H - 2
    BY <1>1, <2>1 DEF RequestInv, Base
  <2>3. CASE pc' = "fill" /\ req' = req
    BY <1>1, <2>1, <2>2, <2>3 DEF RequestInv, Base, Accessing
  <2>4. CASE pc' = "idle" /\ req' = NONE
    BY <1>1, <2>1, <2>2, <2>4 DEF RequestInv, Base, Accessing
  <2>. QED  BY <2>1, <2>3, <2>4
<1>6. CASE EndAccess
  <2>1. /\ pc = "done" /\ stash' = stash /\ i_saved' = i_saved
        /\ pc' = IF pinFlag THEN "fill" ELSE "idle"
        /\ req' = IF pinFlag THEN req ELSE NONE
    BY <1>6 DEF EndAccess, At, oramVars
  <2>2. Cardinality(stash) <= Occ /\ stash_occu <= Base
    BY <2>1 DEF GrowthInv, RequestInv, Accessing
  <2>3. CASE pinFlag
    <3>1. Occ <= stash_occu + 1
      BY <1>1 DEF Occ
    <3>2. Base' = Base
      BY <2>1, <2>3 DEF Base
    <3>. QED  BY <1>1, <2>1, <2>2, <2>3, <3>1, <3>2 DEF RequestInv, Accessing
  <2>4. CASE ~pinFlag
    <3>1. Occ = stash_occu + (IF req = NONE THEN 0 ELSE 1)
      BY <2>1, <2>4 DEF Occ, AccessPhase, Accessing
    <3>2. Cardinality(stash) <= DUMMY_TH + H - 2
      BY <1>1, <2>2, <3>1 DEF Base
    <3>. QED  BY <1>1, <2>1, <2>4, <3>2 DEF RequestInv, Base, Accessing
  <2>. QED  BY <2>3, <2>4
<1>7. CASE plb_fill
  <2>1. /\ pc = "fill" /\ pc' = "posmap" /\ req' = req /\ req # NONE
        /\ i_saved' = i_saved - 1
    BY <1>7 DEF plb_fill, At, AccessPhase
  <2>2. Cardinality(stash') <= Cardinality(stash)
    BY <1>7, FillGrowth
  <2>3. Base' = Base + 1
    BY <1>1, <2>1 DEF Base
  <2>. QED  BY <1>1, <2>1, <2>2, <2>3 DEF RequestInv, Accessing
<1>8. ASSUME Accessing, Accessing', req' = req, i_saved' = i_saved, stash_occu' = stash_occu
      PROVE  RequestInv'
  BY <1>8 DEF RequestInv, Base, Accessing
<1>9. CASE ring_read_path \/ (\E p \in Path : remap_block(p)) \/ NoEviction \/ ring_evict_path
             \/ (\E W \in SUBSET stash : write_path(W)) \/ NoReshuffle
             \/ (\E W \in SUBSET (stash \cup tree[NodeAt(label, lvl)]) : ring_early_reshuffle(W))
  <2>1. Accessing /\ Accessing' /\ req' = req /\ i_saved' = i_saved /\ stash_occu' = stash_occu
    BY <1>9 DEF ring_read_path, remap_block, NoEviction, ring_evict_path, write_path,
       NoReshuffle, ring_early_reshuffle, NextReshuffle, At, Accessing, accessVars
  <2>. QED  BY <2>1, <1>8
<1>10. CASE UNCHANGED vars \/ \E a \in Data : StashHit(a)
  BY <1>10 DEF vars, StashHit, RequestInv, Base, Accessing
<1>11. CASE PosmapAccess \/ DataAccess
  BY <1>11, <1>3 DEF PosmapAccess, DataAccess, At
<1>. QED  BY <1>2, <1>4, <1>5, <1>6, <1>7, <1>9, <1>10, <1>11 DEF Next

(* Between accesses the stash holds fewer than DUMMY_TH blocks and one for *)
(* every ring_access of a request.                                         *)
THEOREM StashBounded == Spec => []StashBound
<1>1. Init => GrowthInv /\ RequestInv
  <2>. SUFFICES ASSUME Init
                PROVE  GrowthInv /\ RequestInv
    OBVIOUS
  <2>1. pc = "idle" /\ req = NONE /\ Cardinality(stash) = 0
    BY FS_EmptySet DEF Init
  <2>. QED  BY <2>1, SizeAssumption DEF GrowthInv, RequestInv, Base, Accessing
<1>2. IndInv /\ RequestInv => StashBound
  BY DEF IndInv, AccessPhase, RequestInv, StashBound, Base
<1>. QED  BY <1>1, <1>2, GrowthNext, RequestNext, Inductive, PTL DEF Spec

-------------------------------------------------------------------------------
(* The room that StashBound and one eviction ask of the stash. *)
StashFits == STASH_SIZE >= DUMMY_TH + H - 2 + LEVEL * RING_Z

(* No step overflows a stash that has room for a whole path more. *)
LEMMA OverflowNext ==
  StashFits /\ IndInv /\ GrowthInv /\ RequestInv /\ err = "none" /\ [Next]_vars => err' = "none"
<1>. SUFFICES ASSUME StashFits, IndInv, GrowthInv, RequestInv, err = "none", [Next]_vars
              PROVE  err' # "stash overflow"
  BY ExitNext DEF NoExit
<1>. USE DEF IndInv
<1>1. /\ Cardinality(stash) \in Nat /\ Occ \in Nat /\ Base \in Int /\ STASH_SIZE \in Nat
      /\ LEVEL * RING_Z \in Nat /\ RING_Z <= LEVEL * RING_Z
      /\ H \in Nat /\ H >= 2 /\ DUMMY_TH \in Nat /\ RING_Z \in Nat
  <2>1. LEVEL \in Nat /\ LEVEL >= 1 /\ RING_Z \in Nat
    BY LevelAssumption, SizeAssumption
  <2>2. LEVEL * RING_Z \in Nat /\ RING_Z <= LEVEL * RING_Z
    BY <2>1
  <2>. QED  BY <2>1, <2>2, OccType, SizeAssumption
<1>2. Accessing => Occ <= DUMMY_TH + H - 2
  <2>. SUFFICES ASSUME Accessing
                PROVE  Occ <= DUMMY_TH + H - 2
    OBVIOUS
  <2>1. stash_occu <= Base /\ stash_occu \in Nat /\ i_saved \in Nat
    BY DEF RequestInv, TypeOK
  <2>2. cur # NONE => req # NONE
    BY DEF AccessPhase
  <2>. QED  BY <1>1, <2>1, <2>2 DEF Occ, Base
<1>3. CASE ring_read_path
  <2>1. Accessing /\ Cardinality(stash') <= Occ /\ Cardinality(stash') \in Nat
    BY <1>3, ReadGrowth, TypeNext, SlotsFinite DEF ring_read_path, At, Accessing, TypeOK
  <2>2. ~(Cardinality(stash') > STASH_SIZE)
    BY <1>1, <1>2, <2>1 DEF StashFits
  <2>. QED  BY <1>3, <2>2 DEF ring_read_path, Check
<1>4. CASE ring_evict_path
  <2>1. Accessing /\ Occ' = Occ /\ lvl' + 1 = LEVEL
    <3>1. pc = "round" /\ lvl' = LEVEL - 1 /\ cur' = cur /\ stash_occu' = stash_occu
      BY <1>4 DEF ring_evict_path, At, accessVars
    <3>. QED  BY <3>1, LevelAssumption DEF Accessing, Occ
  <2>2. Cardinality(stash') <= Occ + LEVEL * RING_Z /\ Cardinality(stash') \in Nat
    <3>1. EvictGrowth'
      BY <1>4, PulledGrowth DEF ring_evict_path, At, GrowthInv
    <3>. QED  BY <2>1, <3>1, TypeNext, SlotsFinite DEF EvictGrowth, TypeOK
  <2>3. ~(Cardinality(stash') > STASH_SIZE)
    BY <1>1, <1>2, <2>1, <2>2 DEF StashFits
  <2>. QED  BY <1>4, <2>3 DEF ring_evict_path, Check
<1>5. ASSUME NEW W \in SUBSET (stash \cup tree[NodeAt(label, lvl)]), ring_early_reshuffle(W)
      PROVE  err' # "stash overflow"
  <2>1. PICK m \in Node : m = NodeAt(label, lvl)
    BY NodeAtLevel DEF TypeOK
  <2>2. PICK mid : mid = stash \cup tree[m]
    OBVIOUS
  <2>3. /\ Cardinality(mid) <= Cardinality(stash) + Cardinality(tree[m])
        /\ Cardinality(mid) \in Nat /\ Cardinality(tree[m]) \in Nat
        /\ Cardinality(tree[m]) <= RING_Z
    <3>1. stash \in SUBSET Slot /\ tree[m] \in SUBSET Slot /\ mid \in SUBSET Slot
      BY <2>2 DEF TypeOK
    <3>. QED  BY <2>2, <3>1, SlotCounts DEF DummyBudget, BucketBudget
  <2>4. Accessing /\ Cardinality(stash) <= Occ
    BY <1>5 DEF ring_early_reshuffle, At, Accessing, GrowthInv
  <2>5. ~(Cardinality(mid) > STASH_SIZE)
    BY <1>1, <1>2, <2>3, <2>4 DEF StashFits
  <2>. QED  BY <1>5, <2>1, <2>2, <2>5 DEF ring_early_reshuffle, Check
<1>6. CASE plb_fill
  <2>1. PICK both : both = stash \cup Victim(PosTag[req][i_saved])
    OBVIOUS
  <2>2. /\ Cardinality(both) <= Cardinality(stash) + 1
        /\ pc = "fill" /\ req # NONE /\ i_saved >= 1 /\ i_saved \in Nat
        /\ Cardinality(stash) <= Base + 1
    <3>1. pc = "fill" /\ i_saved \in Nat
      <4>1. pc = "fill"
        BY <1>6 DEF plb_fill, At
      <4>2. i_saved \in Nat
        BY <1>1 DEF TypeOK
      <4>. QED  BY <4>1, <4>2
    <3>2. req # NONE /\ i_saved >= 1
      BY <3>1 DEF AccessPhase
    <3>3. Cardinality(stash) <= Base + 1
      BY <3>1 DEF RequestInv
    <3>. QED  BY <1>6, <2>1, <3>1, <3>2, <3>3, FillGrowth
  <2>3. Cardinality(both) \in Nat
    <3>1. PosTag[req][i_saved] \in Pos
      BY <2>2, PosTagType
    <3>2. PlbIndex[PosTag[req][i_saved]] \in PlbSets
      BY <3>1, PosmapAssumption
    <3>3. Victim(PosTag[req][i_saved]) \in SUBSET Slot
      BY <3>2 DEF Victim, Slot, Block, TypeOK
    <3>. QED  BY <2>1, <3>3, SlotsFinite DEF TypeOK
  <2>4. ~(Cardinality(both) > STASH_SIZE)
    BY <1>1, <2>2, <2>3 DEF StashFits, Base
  <2>. QED  BY <1>6, <2>1, <2>4 DEF plb_fill, Check
<1>7. CASE \E p \in Path : remap_block(p)
  BY <1>7 DEF remap_block, Check
<1>8. CASE err' = err
  BY <1>8
<1>. QED
  BY <1>3, <1>4, <1>5, <1>6, <1>7, <1>8
     DEF Next, vars, StashHit, freecursive_access, PosmapAccess, PosmapInStash, DataAccess,
         DataInStash, Enter, DummyAccess, NoEviction, write_path, NoReshuffle, EndAccess

(* With a stash of that size no choice of labels makes the program call    *)
(* exit(1), for whatever reason.                                           *)
NeverAnyExit == StashFits => err = "none"

THEOREM NeverOverflows == Spec => []NeverAnyExit
<1>1. Init => GrowthInv /\ RequestInv /\ NeverAnyExit
  <2>. SUFFICES ASSUME Init
                PROVE  GrowthInv /\ RequestInv /\ NeverAnyExit
    OBVIOUS
  <2>1. pc = "idle" /\ req = NONE /\ Cardinality(stash) = 0
    BY FS_EmptySet DEF Init
  <2>. QED  BY <2>1, SizeAssumption
            DEF GrowthInv, RequestInv, Base, Accessing, Init, NeverAnyExit
<1>2. IndInv /\ GrowthInv /\ RequestInv /\ NeverAnyExit /\ [Next]_vars => NeverAnyExit'
  BY OverflowNext DEF NeverAnyExit, StashFits
<1>. QED  BY <1>1, <1>2, GrowthNext, RequestNext, Inductive, PTL DEF Spec
===============================================================================

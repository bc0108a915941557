------------------------------- MODULE OramTree -------------------------------
(***************************************************************************)
(* The geometry of the ORAM tree: LEVEL levels of buckets, numbered from   *)
(* the root (0) to the leaves (LEVEL - 1), and PATH leaves.  A label names *)
(* a leaf and with it the path from the root to that leaf.                 *)
(*                                                                         *)
(* The program numbers the buckets in one array, breadth first.  Here a    *)
(* bucket is the pair <<level, offset within the level>> instead of the    *)
(* index that calc_index computes from it.                                 *)
(***************************************************************************)
EXTENDS Integers

CONSTANT LEVEL   (* number of levels of the tree, root and leaves included *)

PATH == 2 ^ (LEVEL - 1)

Path == 0 .. PATH - 1

Level == 0 .. LEVEL - 1

(* The bucket at level l on the path of label p.  Two labels share it iff  *)
(* they agree after the shift by LEVEL - 1 - l that pick_candidate makes.  *)
NodeAt(p, l) == << l, p \div 2 ^ (LEVEL - 1 - l) >>

Node == { NodeAt(p, l) : p \in Path, l \in Level }

OnPath(p) == { NodeAt(p, l) : l \in Level }

(* The label of the n-th evicted path: the low LEVEL - 1 bits of n in      *)
(* reverse order.  Higher bits of n add less than one and are truncated.   *)
reverse_lex(n) ==
  LET bit[i \in 1 .. LEVEL - 1] == ((n \div 2 ^ (i - 1)) % 2) * 2 ^ (LEVEL - 1 - i)
      rev[i \in 0 .. LEVEL - 1] == IF i = 0 THEN 0 ELSE rev[i - 1] + bit[i]
  IN  rev[LEVEL - 1]

ASSUME LevelAssumption == LEVEL \in Nat \ {0}

(* What a power is, for the proofs: no prover knows.  TLC evaluates it for *)
(* the tree of every run.                                                  *)
ASSUME PowerAssumption ==
  2 ^ 0 = 1 /\ \A k \in 0 .. LEVEL - 1 : 2 ^ (k + 1) = 2 * 2 ^ k
===============================================================================

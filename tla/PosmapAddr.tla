------------------------------ MODULE PosmapAddr ------------------------------
(***************************************************************************)
(* The addresses of data and position-map blocks (POSACT_ENABLE).  Data    *)
(* blocks come first; the position-map blocks of level i, each holding the *)
(* labels of X blocks of level i - 1, follow those of level i - 1.         *)
(***************************************************************************)
EXTENDS Integers

CONSTANTS
  BLOCK_ORG,   (* number of data blocks                                     *)
  X,           (* labels in a position-map block                            *)
  H            (* levels of the position map, data and on-chip map included *)

ASSUME AddrAssumption ==
  /\ BLOCK_ORG \in Nat \ {0}
  /\ X \in Nat \ {0}
  /\ H \in Nat /\ H >= 2

(* What a power is, for the proofs: no prover knows.  TLC evaluates it for *)
(* the map of every run.                                                   *)
ASSUME PowerXAssumption ==
  X ^ 0 = 1 /\ \A k \in 0 .. H - 1 : X ^ (k + 1) = X * X ^ k

(* Blocks of level i: the quotient BLOCK_ORG / X^i rounded up. *)
LevelSize(i) == (BLOCK_ORG + X ^ i - 1) \div X ^ i

(* The address after the last block of every level. *)
DATAPOS_RANGE ==
  LET range[i \in 0 .. H - 1] == (IF i = 0 THEN 0 ELSE range[i - 1]) + LevelSize(i)
  IN  range

(* The level of an address; undefined (an exit of the program) beyond the  *)
(* last level.                                                             *)
calc_datapos_level(addr) ==
  CHOOSE i \in 0 .. H - 1 :
    addr < DATAPOS_RANGE[i] /\ \A j \in 0 .. i - 1 : addr >= DATAPOS_RANGE[j]

(* Rank of an address among the blocks of its level. *)
RankInLevel(addr) ==
  IF calc_datapos_level(addr) = 0 THEN addr
  ELSE addr - DATAPOS_RANGE[calc_datapos_level(addr) - 1]

(* The rank, among all position-map blocks, of the block of level pl that  *)
(* covers addr, and the place of addr's ancestor of level pl - 1 in it.    *)
merkle_addr_as_data(addr, pl) ==
  DATAPOS_RANGE[pl - 1] - DATAPOS_RANGE[0] + RankInLevel(addr) \div X ^ pl
merkle_addr(addr, pl) ==
  DATAPOS_RANGE[pl - 1] - DATAPOS_RANGE[0]
    + RankInLevel(addr) \div X ^ (pl - calc_datapos_level(addr))

merkle_offset(addr, pl) ==
  (RankInLevel(addr) \div X ^ (pl - calc_datapos_level(addr) - 1)) % X

calc_posact_addr(addr, pl) == BLOCK_ORG + merkle_addr(addr, pl)
===============================================================================

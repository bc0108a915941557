------------------------------ MODULE MCPathOram ------------------------------
(* PathOram over the block addresses of the program; the sets of blocks    *)
(* and the position-map blocks of a data block follow as in PosmapAddr.    *)
EXTENDS PathOram

CONSTANTS BLOCK_ORG, X, PLB_SET

Addr == INSTANCE PosmapAddr

MCData == 0 .. BLOCK_ORG - 1

MCPos == { Addr!calc_posact_addr(a, i) : a \in MCData, i \in 1 .. H - 2 }

MCPosTag == [a \in MCData |-> [i \in 1 .. H - 2 |-> Addr!calc_posact_addr(a, i)]]

MCPlbSets == 0 .. PLB_SET - 1

MCPlbIndex == [b \in MCPos |-> b % PLB_SET]

(* The hash of stt_index, on two sets. *)
MCSttIndex == [b \in MCData \cup MCPos |-> b % 2]

MCNone == -1
===============================================================================

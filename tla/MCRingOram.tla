------------------------------ MODULE MCRingOram ------------------------------
(* RingOram over the block addresses of the program: the constants of a    *)
(* run are the sizes, and the sets of blocks and their position-map blocks *)
(* follow from them as in PosmapAddr.                                      *)
EXTENDS RingOram

CONSTANTS BLOCK_ORG, X, PLB_SET

Addr == INSTANCE PosmapAddr

MCData == 0 .. BLOCK_ORG - 1

MCPos == { Addr!calc_posact_addr(a, i) : a \in MCData, i \in 1 .. H - 2 }

MCPosTag == [a \in MCData |-> [i \in 1 .. H - 2 |-> Addr!calc_posact_addr(a, i)]]

MCPlbSets == 0 .. PLB_SET - 1

MCPlbIndex == [b \in MCPos |-> b % PLB_SET]

MCNone == -1
===============================================================================

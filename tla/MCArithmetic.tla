----------------------------- MODULE MCArithmetic -----------------------------
(* The parts of the program whose difficulty is in their arithmetic, for    *)
(* TLC.  They share no state: an execution is one of                        *)
(*   window  the activation record of a rank (FawWindow);                   *)
(*   order   the paths that are evicted (EvictOrder);                       *)
(*   posmap  the loop of oram_init over every address (PosmapAddr).         *)
EXTENDS FawWindow, EvictOrder, PosmapAddr

VARIABLES part, addr

all == << vars, part, addr, order >>

AllInit ==
  /\ part \in { "window", "order", "posmap" }
  /\ Init /\ OrderInit /\ addr = 0

RecordActivate ==
  part = "window" /\ record_activate /\ UNCHANGED << part, addr, order >>

FlushRecord ==
  part = "window" /\ flush_activate_record /\ UNCHANGED << part, addr, order >>

EvictPath ==
  part = "order" /\ ring_evict_path /\ UNCHANGED << part, addr, vars >>

NextAddr ==
  /\ part = "posmap" /\ addr' = (addr + 1) % DATAPOS_RANGE[H - 2]
  /\ UNCHANGED << part, vars, order >>

AllNext == RecordActivate \/ FlushRecord \/ EvictPath \/ NextAddr

AllSpec == AllInit /\ [][AllNext]_all
-------------------------------------------------------------------------------
AddrLevel == calc_datapos_level(addr)

(* calc_posact_addr never takes its exit: the block it computes for any    *)
(* level above that of the address lies among the blocks of that level.    *)
LevelMatches ==
  \A pl \in AddrLevel + 1 .. H - 1 :
    /\ calc_posact_addr(addr, pl) < DATAPOS_RANGE[H - 1]
    /\ calc_datapos_level(calc_posact_addr(addr, pl)) = pl

(* The block of level pl + 1 found from an address is the one found from   *)
(* its block of level pl.                                                  *)
ParentsChain ==
  \A pl \in AddrLevel + 1 .. H - 2 :
    calc_posact_addr(addr, pl + 1) = calc_posact_addr(calc_posact_addr(addr, pl), pl + 1)

(* An address and its offset determine each other within the parent block. *)
OwnEntry ==
  RankInLevel(addr) =
    X * RankInLevel(calc_posact_addr(addr, AddrLevel + 1))
      + merkle_offset(addr, AddrLevel + 1)

(* The position-map blocks are a tree over the data blocks: each address   *)
(* has its ancestor on every level above, the ancestors lie on one chain,  *)
(* so that freecursive_access may stop at the first hit, and no two        *)
(* addresses share the entry that holds their label.                       *)
MapIsTree == LevelMatches /\ ParentsChain /\ OwnEntry
===============================================================================

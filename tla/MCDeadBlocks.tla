----------------------------- MODULE MCDeadBlocks -----------------------------
(* DeadBlocks for TLC, with what the repository says of the queues and the   *)
(* program does not keep.                                                  *)
EXTENDS DeadBlocks

(* "a slot in queue not supposed to be taken ever" (line 6628) *)
NeverTaken == ~mem.taken
===============================================================================

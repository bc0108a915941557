------------------------------ MODULE MissStream ------------------------------
(***************************************************************************)
(* What the trace side of main.c promises to the ORAM: a stream of misses, *)
(* each preceded by the write of the dirty block it evicted, if there is   *)
(* one.  A request stays pending until the ORAM is invoked for it, and the *)
(* next line is looked at only when nothing is pending.                    *)
(***************************************************************************)
EXTENDS Sequences

VARIABLE pending

Init == pending = << >>

Miss ==
  /\ pending = << >>
  /\ Len(pending') = 1
  /\ pending'[1].kind = "miss"

DirtyMiss ==
  /\ pending = << >>
  /\ Len(pending') = 2
  /\ pending'[1].kind = "write" /\ pending'[2].kind = "miss"

Serve ==
  /\ pending # << >>
  /\ pending' = Tail(pending)

Next == Miss \/ DirtyMiss \/ Serve

Spec == Init /\ [][Next]_pending
===============================================================================

------------------------------ MODULE OramQueue -------------------------------
(***************************************************************************)
(* oramQ, the queue of memory requests between the ORAM accesses and the   *)
(* fetch loop, and the dummy gate of simulation mode: whenever the element *)
(* at the head begins an operation of a real access, the loop compares the *)
(* stash with DUMMY_TH, and puts a dummy access in front if it is too full.*)
(*                                                                         *)
(* An operation (the read of a path, an eviction, a reshuffle) is two      *)
(* elements, one with the flag beginning and the rest: the first read of a *)
(* path or of a reshuffled bucket begins it, but an eviction begins with   *)
(* the first read of its last level.  The occupancy of the stash is a      *)
(* choice at each comparison.  Simulation is on.                           *)
(***************************************************************************)
EXTENDS Integers, Sequences

CONSTANTS
  DUMMY_ENABLE,  (* the dummy gate is on                                    *)
  MAX_OPS,       (* operations that one access may put into the queue       *)
  QUEUE_SIZE     (* capacity of the queue                                   *)

ASSUME QueueAssumption ==
  /\ DUMMY_ENABLE \in BOOLEAN
  /\ MAX_OPS \in Nat \ {0} /\ QUEUE_SIZE \in Nat

VARIABLES
  oramQ,       (* its elements, the head first                              *)
  ring_dummy,  (* the stash was full when it was last compared              *)
  failure      (* exit(1) of insert_oramQ, or the NULL of EnqueueHead       *)

(* dummy: the oramid is negative. *)
Element == [dummy : BOOLEAN, beginning : BOOLEAN]

Failures == { "none", "queue full", "end of queue" }

(* The flag beginning of the elements of an operation. *)
Forward == << TRUE, FALSE >>
Eviction == << FALSE, TRUE >>

(* An access reads its path, then come an eviction and the reshuffles. *)
Operations ==
  { ops \in UNION { [1 .. n -> { Forward, Eviction }] : n \in 1 .. MAX_OPS } :
      ops[1] = Forward }

(* The elements of an access of the operations ops, two for each. *)
Access(dummy, ops) ==
  [ i \in 1 .. 2 * Len(ops) |->
      [dummy |-> dummy, beginning |-> ops[(i + 1) \div 2][2 - (i % 2)]] ]

Real(q) == { i \in DOMAIN q : ~q[i].dummy }

-------------------------------------------------------------------------------
(* Every element of the access goes behind the ones that are there. *)
Enqueue(q, access) == q \o access

(* Every element goes before the first that has no negative oramid; the    *)
(* walk to that element passes the end of a queue that has none.           *)
EnqueueHead_at_tail(q, access) == q \o access
EnqueueHead(q, access) ==
  IF Real(q) = {} THEN q
  ELSE LET f == CHOOSE i \in Real(q) : \A j \in Real(q) : i <= j
       IN  SubSeq(q, 1, f - 1) \o access \o SubSeq(q, f, Len(q))

Refused(q, access) == Len(q) + Len(access) > QUEUE_SIZE

(* invoke_oram of a request: it adds no operation when the block is in the *)
(* stash or in the PLB.                                                    *)
AddAccess(ops) ==
  LET access == Access(FALSE, ops)
  IN  /\ oramQ' = IF Refused(oramQ, access) THEN oramQ ELSE Enqueue(oramQ, access)
      /\ failure' = IF Refused(oramQ, access) THEN "queue full" ELSE failure
      /\ UNCHANGED ring_dummy

-------------------------------------------------------------------------------
(* The stash is compared before this element is taken. *)
Compared_any_element(e) == ~e.dummy
Compared_any_beginning(e) == e.beginning
Compared(e) == e.beginning /\ ~e.dummy

(* One turn of the fetch loop takes the head of the queue ...  *)
FetchHead ==
  /\ oramQ # << >>
  /\ oramQ' = Tail(oramQ)
  /\ ring_dummy' = IF Compared(Head(oramQ)) THEN FALSE ELSE ring_dummy
  /\ UNCHANGED failure

(* ... or, when the stash is full, the first element of a dummy access     *)
(* that ring_access(-1) has just put in front.                             *)
FetchDummy(ops) ==
  /\ oramQ # << >>
  /\ Compared(Head(oramQ))
  /\ LET access == Access(TRUE, ops)
     IN  /\ failure' = IF ~DUMMY_ENABLE THEN failure
                       ELSE IF Real(oramQ) = {} THEN "end of queue"
                       ELSE IF Refused(oramQ, access) THEN "queue full" ELSE failure
         /\ oramQ' = IF ~DUMMY_ENABLE THEN Tail(oramQ)
                     ELSE IF Refused(oramQ, access) THEN oramQ
                     ELSE Tail(EnqueueHead(oramQ, access))
  /\ ring_dummy' = TRUE

-------------------------------------------------------------------------------
QueueTypeOK ==
  /\ oramQ \in Seq(Element)
  /\ ring_dummy \in BOOLEAN
  /\ failure \in Failures
===============================================================================

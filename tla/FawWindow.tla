------------------------------- MODULE FawWindow -------------------------------
(***************************************************************************)
(* The activation record of a rank in memory_controller.c: a ring with one *)
(* entry per processor cycle, cleared behind the last T_FAW cycles once    *)
(* per memory cycle, and counted by is_T_FAW_met, whose parameter cycle is *)
(* an int while CYCLE_VAL is a long long.  BankTiming has the window as a  *)
(* set of ages; here it is what the code computes.                         *)
(***************************************************************************)
EXTENDS Integers, FiniteSets

CONSTANTS
  BIG_ACTIVATION_WINDOW, T_FAW, PROCESSOR_CLK_MULTIPLIER,
  INT_MAX1,  (* the number of values of an int that are not negative        *)
  LIMIT      (* bound of CYCLE_VAL                                          *)

ASSUME WindowAssumption ==
  /\ { T_FAW, PROCESSOR_CLK_MULTIPLIER, INT_MAX1 } \subseteq Nat \ {0} /\ LIMIT \in Nat
  /\ BIG_ACTIVATION_WINDOW \in Nat /\ T_FAW % PROCESSOR_CLK_MULTIPLIER = 0
  /\ BIG_ACTIVATION_WINDOW >= T_FAW + 2 * PROCESSOR_CLK_MULTIPLIER

VARIABLES
  CYCLE_VAL,
  activation_record,
  acts        (* cycles of the activations within T_FAW, for the properties *)

vars == << CYCLE_VAL, activation_record, acts >>

Entry == 0 .. BIG_ACTIVATION_WINDOW - 1

int(n) == ((n + INT_MAX1) % (2 * INT_MAX1)) - INT_MAX1

is_T_FAW_met_one_short(cycle) ==
  LET start == int(cycle)
      span == IF start >= T_FAW THEN T_FAW - PROCESSOR_CLK_MULTIPLIER ELSE start
  IN  Cardinality({ i \in 1 .. span :
        activation_record[(start - i) % BIG_ACTIVATION_WINDOW] = 1 }) < 4
is_T_FAW_met(cycle) ==
  LET start == int(cycle)
      span == IF start >= T_FAW THEN T_FAW ELSE start
  IN  Cardinality({ i \in 1 .. span :
        activation_record[(start - i) % BIG_ACTIVATION_WINDOW] = 1 }) < 4

record_activate ==
  /\ is_T_FAW_met(CYCLE_VAL)
  /\ activation_record[CYCLE_VAL % BIG_ACTIVATION_WINDOW] = 0
  /\ activation_record' = [ activation_record EXCEPT ![CYCLE_VAL % BIG_ACTIVATION_WINDOW] = 1 ]
  /\ acts' = acts \cup { CYCLE_VAL }
  /\ UNCHANGED CYCLE_VAL

Cleared(cycle) ==
  IF cycle < T_FAW + PROCESSOR_CLK_MULTIPLIER THEN {}
  ELSE { (cycle - T_FAW - i) % BIG_ACTIVATION_WINDOW : i \in 1 .. PROCESSOR_CLK_MULTIPLIER }

(* The main loop calls update_memory in every cycle that is a multiple of   *)
(* PROCESSOR_CLK_MULTIPLIER.                                                *)
flush_activate_record ==
  LET cycle == CYCLE_VAL + PROCESSOR_CLK_MULTIPLIER
  IN  /\ cycle <= LIMIT
      /\ CYCLE_VAL' = cycle
      /\ activation_record' = [ e \in Entry |->
           IF e \in Cleared(cycle) THEN 0 ELSE activation_record[e] ]
      /\ acts' = { a \in acts : a >= cycle - T_FAW }

Init ==
  /\ CYCLE_VAL = 0
  /\ activation_record = [ e \in Entry |-> 0 ]
  /\ acts = {}

Next == record_activate \/ flush_activate_record

Spec == Init /\ [][Next]_vars
-------------------------------------------------------------------------------
(* The ring holds the activations of the last T_FAW cycles, the current one *)
(* included, and none that is_T_FAW_met could take for one of them after a  *)
(* wrap of the ring; and no five of them lie within T_FAW ("Have there been *)
(* 3 or less activates in the last T_FAW period", comment of is_T_FAW_met). *)
RingIsWindow ==
  /\ { e \in Entry : activation_record[e] = 1 } = { a % BIG_ACTIVATION_WINDOW : a \in acts }
  /\ Cardinality(acts) <= 4
===============================================================================

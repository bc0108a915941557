------------------------------ MODULE BankTiming ------------------------------
(***************************************************************************)
(* The banks of one channel in memory_controller.c: bank states, the       *)
(* earliest time of each command (next_act, next_pre, ...), the activation *)
(* window and the refresh deadlines.                                       *)
(*                                                                         *)
(* A step is update_memory, which starts a memory cycle, or the command    *)
(* that the scheduler issues in it.  The scheduler is any that uses the    *)
(* commands of Issued; which requests are in the queues is left out: there *)
(* may be one for the open row of a bank and one for another row.          *)
(*                                                                         *)
(* The unit of time is the memory cycle (all parameters are multiples of   *)
(* PROCESSOR_CLK_MULTIPLIER), and times are relative to CYCLE_VAL: 0 is    *)
(* now or earlier.                                                         *)
(***************************************************************************)
EXTENDS Integers, FiniteSets

CONSTANTS
  NUM_RANKS, NUM_BANKS,
  T_RCD, T_RP, T_CAS, T_RAS, T_RC, T_CWD, T_WR, T_WTR, T_RTRS, T_DATA_TRANS,
  T_RTP, T_CCD, T_XP, T_XP_DLL, T_PD_MIN, T_RRD, T_FAW, T_REFI, T_RFC,
  REFRESHES,   (* refreshes of a window, 8 in the code                      *)
  ACTIVATES,   (* activations within T_FAW, 4 in the code                   *)
  Issued       (* the commands that the scheduler uses                      *)

Rank == 0 .. NUM_RANKS - 1
Bank == 0 .. NUM_BANKS - 1

ASSUME TimingAssumption ==
  /\ { NUM_RANKS, NUM_BANKS, REFRESHES, ACTIVATES, T_RFC, T_RP } \subseteq Nat \ {0}
  /\ { T_RCD, T_CAS, T_RAS, T_RC, T_CWD, T_WR, T_WTR, T_RTRS, T_DATA_TRANS,
       T_RTP, T_CCD, T_XP, T_XP_DLL, T_PD_MIN, T_RRD, T_FAW, T_REFI } \subseteq Nat
  /\ T_RCD <= T_RAS /\ T_RTP <= T_RP /\ T_RRD <= T_RC
  /\ T_RAS + T_RP <= T_RC /\ T_RC <= T_RAS + T_RP + T_RFC
  /\ \A t \in { T_RAS, T_RTP, T_CWD + T_DATA_TRANS + T_WR, T_RFC } :
       t <= REFRESHES * T_REFI - T_RP - REFRESHES * T_RFC

VARIABLES
  state, next,   (* dram_state: bankstate_t, and next_act, next_pre, ...    *)
  record,        (* activation_record: ages of the activations of a rank    *)
  command,       (* command_issued_current_cycle, cas_issued_current_cycle  *)
  left,          (* next_refresh_completion_deadline - CYCLE_VAL            *)
  due,           (* refresh_issue_deadline - CYCLE_VAL                      *)
  num_issued_refreshes,
  forced_refresh_mode_on

window == << left, due, num_issued_refreshes, forced_refresh_mode_on >>
vars == << state, next, record, command, window >>

Later(s, t) == IF s > t THEN s ELSE t

Closed == { "IDLE", "PRECHARGING", "REFRESHING" }
Powered == Closed \cup { "ROW_ACTIVE" }
PrechargeDown == { "PRECHARGE_POWER_DOWN_FAST", "PRECHARGE_POWER_DOWN_SLOW" }
Asleep == PrechargeDown \cup { "ACTIVE_POWER_DOWN" }
bankstate_t == Powered \cup Asleep

Kind == { "act", "pre", "read", "write", "refresh", "powerdown", "powerup" }

NONE == [ op |-> "NONE" ]
Command == { NONE } \cup [ op : Issued, r : Rank, b : Bank ]

(* next of a bank with each command of after put off to its time at least. *)
PutOff(n, after) ==
  [ c \in DOMAIN n |-> IF c \in DOMAIN after THEN Later(n[c], after[c]) ELSE n[c] ]

OneBank(r, b, after) == [ next EXCEPT ![r][b] = PutOff(@, after) ]
WholeRank(r, After(_)) ==
  [ next EXCEPT ![r] = [ b \in Bank |-> PutOff(@[b], After(b)) ] ]
SetState(r, To(_)) == [ state EXCEPT ![r] = [ b \in Bank |-> To(b) ] ]

(* The tests that every issuable command has in common: nothing was issued *)
(* in this cycle, and t cycles are left before the refreshes of the rank.  *)
Free(r, t) == command = NONE /\ ~forced_refresh_mode_on[r] /\ t <= due[r]

Issue(op, r, b) ==
  /\ op \in Issued
  /\ command' = [ op |-> op, r |-> r, b |-> b ]

WriteToPre == T_CWD + T_DATA_TRANS + T_WR

-------------------------------------------------------------------------------
(* Commands for a request in a queue.  The next command of a request is set *)
(* by the state of its bank, and is issuable when the bank is ready for it  *)
(* and has the time for it before the refreshes.                            *)

is_T_FAW_met(r) == Cardinality(record[r] \cap 1 .. T_FAW) < ACTIVATES

Ready(r, b, states, c, time) ==
  Free(r, time) /\ state[r][b] \in states /\ next[r][b][c] = 0

ActivateIssuable(r, b) == Ready(r, b, Closed, "act", T_RAS) /\ is_T_FAW_met(r)
ReadIssuable(r, b) == Ready(r, b, { "ROW_ACTIVE" }, "read", T_RTP)
WriteIssuable(r, b) == Ready(r, b, { "ROW_ACTIVE" }, "write", WriteToPre)

(* The precharge of a request finds the bank open; issue_precharge_command *)
(* takes closed banks as well.                                             *)
is_precharge_allowed_any_state(r, b) == Free(r, T_RP) /\ next[r][b].pre = 0
is_precharge_allowed(r, b) == Ready(r, b, Powered, "pre", T_RP)

ExitTime(s) == IF s = "PRECHARGE_POWER_DOWN_SLOW" THEN T_XP_DLL ELSE T_XP

PowerUpIssuable(r, b) ==
  /\ command = NONE /\ state[r][b] \in Asleep /\ next[r][b].powerup = 0
  /\ ExitTime(state[r][b]) <= due[r]

AfterAct ==
  [ pre |-> T_RAS, refresh |-> T_RAS, read |-> T_RCD, write |-> T_RCD,
    act |-> T_RC, powerdown |-> T_RCD ]

Activate(r, b) ==
  /\ ActivateIssuable(r, b) /\ Issue("ACT", r, b)
  /\ state' = [ state EXCEPT ![r][b] = "ROW_ACTIVE" ]
  /\ next' = WholeRank(r, LAMBDA i : IF i = b THEN AfterAct ELSE [ act |-> T_RRD ])
  /\ record' = [ record EXCEPT ![r] = @ \cup { 0 } ]
  /\ UNCHANGED window

(* A column access puts off those of all banks of the channel: other is    *)
(* for the banks of other ranks, own for those of rank r, and bank for the *)
(* bank itself.                                                            *)
Column(r, b, own, other, bank) ==
  /\ next' = [ i \in Rank |-> [ j \in Bank |->
       LET n == PutOff(next[i][j], IF i = r THEN own ELSE other)
       IN  IF << i, j >> = << r, b >> THEN PutOff(n, bank) ELSE n ] ]
  /\ UNCHANGED << state, record, window >>

ColRead(r, b) ==
  /\ ReadIssuable(r, b) /\ Issue("RD", r, b)
  /\ LET write == T_CAS + T_DATA_TRANS + T_RTRS - T_CWD
     IN  Column(r, b, [ read |-> Later(T_CCD, T_DATA_TRANS), write |-> write ],
                [ read |-> T_DATA_TRANS + T_RTRS, write |-> write ],
                [ pre |-> T_RTP, refresh |-> T_RTP, powerdown |-> T_RTP ])

ColWrite_no_switch(r, b) ==
  /\ WriteIssuable(r, b) /\ Issue("WR", r, b)
  /\ Column(r, b, [ write |-> Later(T_CCD, T_DATA_TRANS), read |-> T_CWD + T_DATA_TRANS + T_WTR ],
            [ write |-> T_DATA_TRANS, read |-> T_CWD + T_DATA_TRANS + T_RTRS - T_CAS ],
            [ pre |-> WriteToPre, refresh |-> WriteToPre, powerdown |-> WriteToPre ])
ColWrite(r, b) ==
  /\ WriteIssuable(r, b) /\ Issue("WR", r, b)
  /\ Column(r, b, [ write |-> Later(T_CCD, T_DATA_TRANS), read |-> T_CWD + T_DATA_TRANS + T_WTR ],
            [ write |-> T_DATA_TRANS + T_RTRS, read |-> T_CWD + T_DATA_TRANS + T_RTRS - T_CAS ],
            [ pre |-> WriteToPre, refresh |-> WriteToPre, powerdown |-> WriteToPre ])

AfterPre == [ act |-> T_RP, powerdown |-> T_RP, pre |-> T_RP, refresh |-> T_RP ]

Precharge(r, b) ==
  /\ is_precharge_allowed(r, b) /\ Issue("PRE", r, b)
  /\ state' = [ state EXCEPT ![r][b] = "PRECHARGING" ]
  /\ next' = OneBank(r, b, AfterPre)
  /\ UNCHANGED << record, window >>

(* PWR_UP_CMD and issue_powerup_command.  The state is changed before it is *)
(* compared with PRECHARGE_POWER_DOWN_SLOW: every bank gets T_XP.          *)
Wake(r) ==
  /\ state' = SetState(r, LAMBDA b :
       IF state[r][b] \in PrechargeDown THEN "IDLE" ELSE "ROW_ACTIVE")
  /\ next' = WholeRank(r, LAMBDA b :
       [ powerdown |-> T_XP, pre |-> T_XP, read |-> T_XP, write |-> T_XP,
         act |-> T_XP, refresh |-> T_XP ])
  /\ UNCHANGED << record, window >>

PowerUpForRequest(r, b) == PowerUpIssuable(r, b) /\ Issue("PUP", r, b) /\ Wake(r)

-------------------------------------------------------------------------------
(* Commands that a scheduler issues of its own accord.                     *)

(* The deadline that is tested is that of rank 0. *)
is_powerup_allowed(r) ==
  /\ command = NONE /\ ~forced_refresh_mode_on[r]
  /\ state[r][0] \in Asleep /\ next[r][0].powerup = 0
  /\ ExitTime(state[r][0]) <= due[0]

issue_powerup_command(r) == is_powerup_allowed(r) /\ Issue("PUPR", r, 0) /\ Wake(r)

(* In the cycle of a column access of the bank and after it, once. *)
AutoStart(r, b) == Later(IF command.op = "RD" THEN T_RTP ELSE WriteToPre, next[r][b].pre)

is_autoprecharge_allowed(r, b) ==
  /\ command.op \in { "RD", "WR" } /\ command.r = r /\ command.b = b
  /\ AutoStart(r, b) + T_RP <= due[r]

issue_autoprecharge(r, b) ==
  /\ "AUTO" \in Issued /\ is_autoprecharge_allowed(r, b)
  /\ next' = OneBank(r, b, [ c \in DOMAIN AfterPre |-> AutoStart(r, b) + T_RP ])
  /\ command' = [ op |-> "AUTO", r |-> r, b |-> b ]
  /\ state' = [ state EXCEPT ![r][b] = "PRECHARGING" ]
  /\ UNCHANGED << record, window >>

is_all_bank_precharge_allowed(r) == \A b \in Bank : is_precharge_allowed(r, b)

issue_all_bank_precharge_command(r) ==
  /\ is_all_bank_precharge_allowed(r) /\ Issue("PREA", r, 0)
  /\ state' = SetState(r, LAMBDA b : "PRECHARGING")
  /\ next' = WholeRank(r, LAMBDA b : AfterPre)
  /\ UNCHANGED << record, window >>

(* From the command to the end of the refresh: a rank that sleeps is woken *)
(* and an open bank is closed first.                                       *)
RefreshTime(r) ==
  CASE state[r][0] = "PRECHARGE_POWER_DOWN_SLOW" -> T_XP_DLL + T_RFC
    [] state[r][0] = "PRECHARGE_POWER_DOWN_FAST" -> T_XP + T_RFC
    [] state[r][0] = "ACTIVE_POWER_DOWN" -> T_XP + T_RP + T_RFC
    [] OTHER -> IF \E b \in Bank : state[r][b] = "ROW_ACTIVE" THEN T_RP + T_RFC ELSE T_RFC

is_refresh_allowed(r) ==
  /\ command = NONE /\ ~forced_refresh_mode_on[r]
  /\ \A b \in Bank : next[r][b].refresh = 0

issue_refresh_command(r) ==
  /\ is_refresh_allowed(r) /\ Issue("REF", r, 0)
  /\ num_issued_refreshes' = [ num_issued_refreshes EXCEPT ![r] = @ + 1 ]
  /\ next' = WholeRank(r, LAMBDA b : [ c \in DOMAIN AfterPre |-> RefreshTime(r) ])
  /\ state' = SetState(r, LAMBDA b : "REFRESHING")
  /\ UNCHANGED << record, left, due, forced_refresh_mode_on >>

(* op is "PDF" or "PDS": sleep with fast or with slow exit. *)
is_powerdown_allowed(r, op) ==
  /\ Free(r, T_PD_MIN + (IF op = "PDS" THEN T_XP_DLL ELSE T_XP))
  /\ \A b \in Bank : /\ state[r][b] \in (IF op = "PDS" THEN Closed ELSE Powered)
                     /\ next[r][b].powerdown = 0

issue_powerdown_command(r, op) ==
  /\ is_powerdown_allowed(r, op) /\ Issue(op, r, 0)
  /\ state' = SetState(r, LAMBDA b :
       CASE state[r][b] = "ROW_ACTIVE" -> "ACTIVE_POWER_DOWN"
         [] OTHER -> IF op = "PDS" THEN "PRECHARGE_POWER_DOWN_SLOW" ELSE "PRECHARGE_POWER_DOWN_FAST")
  /\ next' = WholeRank(r, LAMBDA b : [ powerup |-> T_PD_MIN, refresh |-> T_PD_MIN ])
  /\ UNCHANGED << record, window >>

-------------------------------------------------------------------------------
(* A memory cycle goes by; update_memory.                                  *)

Window == REFRESHES * T_REFI
IssueDeadline(l, n) == l - T_RP - (REFRESHES - n) * T_RFC

Elapsed_below_zero(r) ==
  [ b \in Bank |-> [ c \in DOMAIN next[r][b] |-> next[r][b][c] - 1 ] ]
Elapsed(r) ==
  [ b \in Bank |-> [ c \in DOMAIN next[r][b] |-> Later(next[r][b][c] - 1, 0) ] ]

Forced(r) == due[r] = 1 /\ num_issued_refreshes[r] < REFRESHES

(* issue_forced_refresh_commands: busy until the deadline. *)
UntilDeadline(n) == [ c \in DOMAIN n |-> IF c \in DOMAIN AfterPre THEN left - 1 ELSE n[c] ]

update_memory ==
  /\ command' = NONE
  /\ record' = [ r \in Rank |-> { a + 1 : a \in record[r] } \cap 1 .. T_FAW ]
  /\ IF left = 1
     THEN /\ left' = Window
          /\ due' = [ r \in Rank |-> IssueDeadline(Window, 0) ]
          /\ num_issued_refreshes' = [ r \in Rank |-> 0 ]
          /\ forced_refresh_mode_on' = [ r \in Rank |-> FALSE ]
          /\ next' = [ r \in Rank |-> Elapsed(r) ]
          /\ UNCHANGED state
     ELSE /\ left' = left - 1
          /\ due' = [ r \in Rank |->
               IF due[r] > 1 THEN IssueDeadline(left - 1, num_issued_refreshes[r]) ELSE due[r] - 1 ]
          /\ forced_refresh_mode_on' =
               [ r \in Rank |-> forced_refresh_mode_on[r] \/ Forced(r) ]
          /\ next' = [ r \in Rank |-> IF Forced(r)
                       THEN [ b \in Bank |-> UntilDeadline(Elapsed(r)[b]) ] ELSE Elapsed(r) ]
          /\ state' = [ r \in Rank |->
               IF Forced(r) THEN [ b \in Bank |-> "REFRESHING" ] ELSE state[r] ]
          /\ UNCHANGED num_issued_refreshes

(* init_memory_controller_vars, and update_memory of cycle 0. *)
Init ==
  /\ state = [ r \in Rank |-> [ b \in Bank |-> "IDLE" ] ]
  /\ next = [ r \in Rank |-> [ b \in Bank |->
       [ act |-> 0, pre |-> 0, read |-> 0, write |-> 0, refresh |-> 0,
         powerdown |-> 0, powerup |-> 0 ] ] ]
  /\ record = [ r \in Rank |-> {} ]
  /\ command = NONE
  /\ left = Window
  /\ due = [ r \in Rank |-> IssueDeadline(Window, 0) ]
  /\ num_issued_refreshes = [ r \in Rank |-> 0 ]
  /\ forced_refresh_mode_on = [ r \in Rank |-> FALSE ]

Schedule ==
  \E r \in Rank :
    \/ \E b \in Bank :
         \/ Activate(r, b) \/ ColRead(r, b) \/ ColWrite(r, b) \/ Precharge(r, b)
         \/ PowerUpForRequest(r, b) \/ issue_autoprecharge(r, b)
    \/ issue_powerup_command(r) \/ issue_all_bank_precharge_command(r)
    \/ issue_refresh_command(r)
    \/ \E op \in { "PDF", "PDS" } : issue_powerdown_command(r, op)

Next == Schedule \/ update_memory

Spec == Init /\ [][Next]_vars
-------------------------------------------------------------------------------
TypeOK ==
  /\ state \in [ Rank -> [ Bank -> bankstate_t ] ]
  /\ next \in [ Rank -> [ Bank -> [ Kind -> Nat ] ] ]
  /\ record \in [ Rank -> SUBSET (0 .. T_FAW) ]
  /\ command \in Command
  /\ left \in 1 .. Window /\ due \in [ Rank -> Int ]
  /\ num_issued_refreshes \in [ Rank -> Nat ]
  /\ forced_refresh_mode_on \in [ Rank -> BOOLEAN ]

(* The banks of a rank sleep together: the power-up of a rank and the time  *)
(* of a refresh look at bank 0 only, and commands for single banks come     *)
(* between.                                                                 *)
SleepTogether ==
  \A r \in Rank : (\E b \in Bank : state[r][b] \in Asleep)
                     => \A b \in Bank : state[r][b] \in Asleep
===============================================================================

----------------------------- MODULE DramProtocol -----------------------------
(***************************************************************************)
(* What a DRAM channel demands of its controller, in terms of the commands *)
(* that were sent and their ages: the meaning of the parameters in         *)
(* params.h 57-127.  A command is legal or not whatever the controller     *)
(* keeps of the past.  Ranks that sleep are not part of it.                *)
(***************************************************************************)
EXTENDS Integers, FiniteSets

CONSTANTS
  NUM_RANKS, NUM_BANKS,
  T_RCD, T_RP, T_CAS, T_RAS, T_RC, T_CWD, T_WR, T_WTR, T_RTRS, T_DATA_TRANS,
  T_RTP, T_CCD, T_RRD, T_FAW, T_REFI, T_RFC, REFRESHES, ACTIVATES

Rank == 0 .. NUM_RANKS - 1
Bank == 0 .. NUM_BANKS - 1

VARIABLES
  open,     (* whether a bank has an open row                               *)
  age,      (* age of the last ACT, RD, WR and PRE of a bank; the age of a  *)
            (* precharge that is to come is negative                        *)
  acts,     (* ages of the activations of a rank within T_FAW               *)
  busy,     (* time left of the refresh of a rank                           *)
  refreshed,(* refreshes of a rank in this window                           *)
  left      (* time left of the refresh window                              *)

vars == << open, age, acts, busy, refreshed, left >>

Biggest(S) == CHOOSE m \in S : \A n \in S : n <= m

(* A command that is this old does not restrict any other.                 *)
LONG ==
  [ ACT |-> T_RC,
    RD |-> Biggest({ T_RTP, T_CCD, T_CAS + T_DATA_TRANS + T_RTRS - T_CWD, T_DATA_TRANS + T_RTRS }),
    WR |-> Biggest({ T_CCD, T_CWD + T_DATA_TRANS + Biggest({ T_WR, T_WTR, T_RTRS }) }),
    PRE |-> T_RP ]

(* Time until the open bank may be precharged. *)
UntilPre(r, b) ==
  LET a == age[r][b]
  IN  Biggest({ 0, T_RAS - a.ACT, T_RTP - a.RD, T_CWD + T_DATA_TRANS + T_WR - a.WR })

(* Time until the bank is closed if it is precharged now, or was before. *)
UntilClosed(r, b) == IF open[r][b] THEN T_RP ELSE Biggest({ 0, T_RP - age[r][b].PRE })

LegalActivate(r, b) ==
  /\ ~open[r][b] /\ busy[r] = 0
  /\ age[r][b].ACT >= T_RC /\ age[r][b].PRE >= T_RP
  /\ \A i \in Bank : age[r][i].ACT >= T_RRD
  /\ Cardinality(acts[r]) < ACTIVATES

(* The bursts that occupy the data bus, as [first, last + 1] from now on.  *)
Burst(op, a) ==
  LET first == (IF op = "RD" THEN T_CAS ELSE T_CWD) - a
  IN  << first, first + T_DATA_TRANS >>

(* The bus is passed on after T_RTRS when the rank or the direction from   *)
(* read to write changes.                                                  *)
BusFree(op, r) ==
  \A i \in Rank : \A j \in Bank : \A p \in { "RD", "WR" } :
    LET gap == IF i # r \/ (p = "RD" /\ op = "WR") THEN T_RTRS ELSE 0
    IN  Burst(p, age[i][j][p])[2] + gap <= Burst(op, 0)[1]

LegalColumn(op, r, b) ==
  /\ open[r][b] /\ busy[r] = 0
  /\ age[r][b].ACT >= T_RCD
  /\ BusFree(op, r)
  /\ \A j \in Bank : age[r][j][op] >= T_CCD
  /\ op = "RD" => \A j \in Bank : age[r][j].WR >= T_CWD + T_DATA_TRANS + T_WTR

LegalPrecharge(r, b) == busy[r] = 0 /\ (open[r][b] => UntilPre(r, b) = 0)

(* Open banks are closed, then the rank is refreshed. *)
LegalRefresh(r) ==
  /\ busy[r] = 0
  /\ \A b \in Bank : IF open[r][b] THEN UntilPre(r, b) = 0 ELSE age[r][b].PRE >= T_RP

(* At the end of this cycle the rank is refreshed until the window is over: *)
(* the refreshes that are missing have to fit in.                          *)
LegalForced(r) ==
  \A b \in Bank :
    /\ open[r][b] => UntilPre(r, b) <= 1
    /\ LET closed == IF open[r][b] THEN 1 + T_RP ELSE UntilClosed(r, b)
       IN  Biggest({ 1, busy[r], closed }) + (REFRESHES - refreshed[r]) * T_RFC <= left

Legal(c) ==
  CASE c.op = "ACT" -> LegalActivate(c.r, c.b)
    [] c.op \in { "RD", "WR" } -> LegalColumn(c.op, c.r, c.b)
    [] c.op \in { "PRE" } -> LegalPrecharge(c.r, c.b)
    [] c.op = "PREA" -> \A b \in Bank : LegalPrecharge(c.r, b)
    [] c.op = "AUTO" -> open[c.r][c.b]
    [] c.op = "REF" -> LegalRefresh(c.r)

CloseAll(r, S) == open' = [ open EXCEPT ![r] = [ b \in Bank |-> b \notin S /\ @[b] ] ]
Stamp(r, S, op, Age(_)) ==
  age' = [ age EXCEPT ![r] = [ b \in Bank |->
             IF b \in S THEN [ @[b] EXCEPT ![op] = Age(b) ] ELSE @[b] ] ]

Effect(c) ==
  /\ CASE c.op = "ACT" -> open' = [ open EXCEPT ![c.r][c.b] = TRUE ]
       [] c.op \in { "PRE", "AUTO" } -> CloseAll(c.r, { c.b })
       [] c.op \in { "PREA", "REF" } -> CloseAll(c.r, Bank)
       [] OTHER -> UNCHANGED open
  /\ CASE c.op \in { "ACT", "RD", "WR", "PRE" } -> Stamp(c.r, { c.b }, c.op, LAMBDA b : 0)
       [] c.op = "AUTO" -> Stamp(c.r, { c.b }, "PRE", LAMBDA b : - UntilPre(c.r, b))
       [] c.op = "PREA" -> Stamp(c.r, Bank, "PRE", LAMBDA b : 0)
       [] OTHER -> UNCHANGED age
  /\ acts' = IF c.op = "ACT" THEN [ acts EXCEPT ![c.r] = @ \cup { 0 } ] ELSE acts
  /\ IF c.op = "REF"
     THEN /\ busy' = [ busy EXCEPT ![c.r] =
                         (IF \E b \in Bank : open[c.r][b] THEN T_RP ELSE 0) + T_RFC ]
          /\ refreshed' = [ refreshed EXCEPT ![c.r] = @ + 1 ]
     ELSE UNCHANGED << busy, refreshed >>
  /\ UNCHANGED left

Older(a) == [ c \in DOMAIN a |-> IF a[c] < LONG[c] THEN a[c] + 1 ELSE a[c] ]

(* A cycle goes by, and the ranks of forced are refreshed until the end of *)
(* the window.                                                             *)
Tick(forced) ==
  /\ age' = [ r \in Rank |-> [ b \in Bank |-> Older(age[r][b]) ] ]
  /\ acts' = [ r \in Rank |-> { a + 1 : a \in acts[r] } \cap 0 .. T_FAW ]
  /\ left' = IF left = 1 THEN REFRESHES * T_REFI ELSE left - 1
  /\ busy' = [ r \in Rank |-> IF r \in forced THEN left - 1 ELSE IF busy[r] > 0 THEN busy[r] - 1 ELSE 0 ]
  /\ refreshed' = [ r \in Rank |->
       IF left = 1 THEN 0 ELSE IF r \in forced THEN REFRESHES ELSE refreshed[r] ]
  /\ open' = [ r \in Rank |-> [ b \in Bank |-> r \notin forced /\ open[r][b] ] ]

Init ==
  /\ open = [ r \in Rank |-> [ b \in Bank |-> FALSE ] ]
  /\ age = [ r \in Rank |-> [ b \in Bank |-> LONG ] ]
  /\ acts = [ r \in Rank |-> {} ]
  /\ busy = [ r \in Rank |-> 0 ] /\ refreshed = [ r \in Rank |-> 0 ]
  /\ left = REFRESHES * T_REFI

(* Every window has its refreshes, and at its end no rank has fewer. *)
Next ==
  \/ \E c \in [ op : { "ACT", "RD", "WR", "PRE", "PREA", "AUTO", "REF" }, r : Rank, b : Bank ] :
       Legal(c) /\ Effect(c)
  \/ /\ left = 1 => \A r \in Rank : refreshed[r] >= REFRESHES
     /\ \E forced \in SUBSET Rank : Tick(forced) /\ \A r \in forced : LegalForced(r)

Spec == Init /\ [][Next]_vars
===============================================================================

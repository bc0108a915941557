--------------------------- MODULE BankTimingProofs ---------------------------
(***************************************************************************)
(* Proofs about BankTiming, for every value of the timing parameters: the  *)
(* types, that the banks of a rank sleep together, what each command does, *)
(* and that the memory controller implements DramProtocol.                 *)
(***************************************************************************)
EXTENDS MCBankTiming, TLAPS

(* The states of the banks of a rank agree where the code looks at bank 0   *)
(* only, and a column access has left its bank open in this cycle.         *)
SlowTogether ==
  \A r \in Rank, b \in Bank :
    state[r][b] = "PRECHARGE_POWER_DOWN_SLOW" =>
      \A j \in Bank : state[r][j] = "PRECHARGE_POWER_DOWN_SLOW"

FastIssued ==
  \A r \in Rank, b \in Bank : state[r][b] = "PRECHARGE_POWER_DOWN_FAST" => "PDF" \in Issued

ColumnOpen ==
  command.op \in { "RD", "WR" } =>
    /\ command.r \in Rank /\ command.b \in Bank
    /\ state[command.r][command.b] = "ROW_ACTIVE"

(* An activation of this cycle is the command of this cycle.               *)
RecordFresh == \A r \in Rank : 0 \in record[r] => command # NONE

(* The deadline that is tested is not later than the last moment at which  *)
(* the missing refreshes can begin; once it has passed there are enough of *)
(* them, or the rank is refreshed by force.                                *)
DueInv ==
  \A r \in Rank :
    /\ due[r] <= IssueDeadline(left, num_issued_refreshes[r])
    /\ due[r] <= 0 => num_issued_refreshes[r] >= REFRESHES \/ forced_refresh_mode_on[r]
    /\ forced_refresh_mode_on[r] => due[r] <= 0

StateInv == SleepTogether /\ SlowTogether /\ FastIssued
Inv == TypeOK /\ StateInv /\ ColumnOpen /\ RecordFresh /\ DueInv

-------------------------------------------------------------------------------
(* The parameters, and the arithmetic of the refresh deadline.             *)
LEMMA Times ==
  /\ T_RCD \in Nat /\ T_CAS \in Nat /\ T_RAS \in Nat /\ T_RC \in Nat /\ T_CWD \in Nat
  /\ T_WR \in Nat /\ T_WTR \in Nat /\ T_RTRS \in Nat /\ T_DATA_TRANS \in Nat
  /\ T_RTP \in Nat /\ T_CCD \in Nat /\ T_XP \in Nat /\ T_XP_DLL \in Nat
  /\ T_PD_MIN \in Nat /\ T_RRD \in Nat /\ T_FAW \in Nat /\ T_REFI \in Nat
  /\ T_RFC \in Nat \ {0} /\ T_RP \in Nat \ {0}
  /\ REFRESHES \in Nat \ {0} /\ ACTIVATES \in Nat \ {0}
  /\ NUM_RANKS \in Nat \ {0} /\ NUM_BANKS \in Nat \ {0}
BY Zenon, TimingAssumption

LEMMA Deadlines ==
  ASSUME NEW l \in Int, NEW n \in Int
  PROVE  /\ IssueDeadline(l, n) \in Int
         /\ IssueDeadline(l - 1, n) = IssueDeadline(l, n) - 1
         /\ IssueDeadline(l, n + 1) = IssueDeadline(l, n) + T_RFC
         /\ (REFRESHES - n) * T_RFC = l - T_RP - IssueDeadline(l, n)
         /\ n < REFRESHES => IssueDeadline(l, n) <= l - T_RP - T_RFC
<1>1. PICK k \in Int : k = (REFRESHES - n) * T_RFC
  BY Times
<1>2. (REFRESHES - (n + 1)) * T_RFC = k - T_RFC
  BY Times, <1>1
<1>3. n < REFRESHES => k >= T_RFC
  <2>. SUFFICES ASSUME n < REFRESHES PROVE k >= T_RFC
    OBVIOUS
  <2>1. PICK m \in Nat : m = REFRESHES - n - 1
    BY Times
  <2>2. k = (m + 1) * T_RFC
    BY Times, <1>1, <2>1
  <2>3. m * T_RFC \in Nat
    BY Times, <2>1
  <2>4. (m + 1) * T_RFC = m * T_RFC + T_RFC
    BY Times, <2>1
  <2>. QED  BY Times, <2>2, <2>3, <2>4
<1>. QED  BY Times, <1>1, <1>2, <1>3 DEF IssueDeadline

LEMMA WindowRoom ==
  /\ Window \in Nat \ {0}
  /\ IssueDeadline(Window, 0) \in Nat
  /\ T_RAS <= IssueDeadline(Window, 0) /\ T_RTP <= IssueDeadline(Window, 0)
  /\ WriteToPre <= IssueDeadline(Window, 0) /\ T_RFC <= IssueDeadline(Window, 0)
<1>1. PICK w \in Int : w = REFRESHES * T_REFI
  BY Times
<1>2. PICK k \in Nat : k = REFRESHES * T_RFC
  BY Times
<1>3. (REFRESHES - 0) * T_RFC = k
  BY Times, <1>2
<1>4. \A t \in { T_RAS, T_RTP, T_CWD + T_DATA_TRANS + T_WR, T_RFC } : t <= w - T_RP - k
  BY TimingAssumption, <1>1, <1>2
<1>5. IssueDeadline(Window, 0) = w - T_RP - k /\ Window = w
  BY <1>1, <1>3 DEF IssueDeadline, Window
<1>6. /\ T_RAS <= w - T_RP - k /\ T_RTP <= w - T_RP - k
      /\ T_CWD + T_DATA_TRANS + T_WR <= w - T_RP - k /\ T_RFC <= w - T_RP - k
  BY <1>4
<1>. QED  BY Times, <1>1, <1>2, <1>5, <1>6 DEF WriteToPre

(* PutOff only puts off, and puts off far enough.                          *)
LEMMA PutOffGrows ==
  ASSUME NEW n \in [Kind -> Nat], NEW after,
         \A c \in Kind : c \in DOMAIN after => after[c] \in Int
  PROVE  /\ PutOff(n, after) \in [Kind -> Nat]
         /\ \A c \in Kind : /\ PutOff(n, after)[c] >= n[c]
                            /\ c \in DOMAIN after => PutOff(n, after)[c] >= after[c]
BY DEF PutOff, Later

-------------------------------------------------------------------------------
(* What each command does to the earliest times: none comes nearer, and    *)
(* those that the command restricts are put off.                           *)
NextType == next \in [ Rank -> [ Bank -> [ Kind -> Nat ] ] ]

Grown ==
  /\ NextType'
  /\ \A i \in Rank, j \in Bank, c \in Kind : next'[i][j][c] >= next[i][j][c]

(* A command that puts off times of the banks of a rank, A[j] of bank j.   *)
LEMMA RankTimes ==
  ASSUME NextType, NEW r \in Rank, NEW A,
         next' = [ next EXCEPT ![r] = [ j \in Bank |-> PutOff(next[r][j], A[j]) ] ],
         \A j \in Bank, c \in Kind : c \in DOMAIN A[j] => A[j][c] \in Int
  PROVE  /\ Grown
         /\ \A j \in Bank, c \in Kind : c \in DOMAIN A[j] => next'[r][j][c] >= A[j][c]
<1>1. \A j \in Bank : /\ PutOff(next[r][j], A[j]) \in [ Kind -> Nat ]
                      /\ \A c \in Kind : /\ PutOff(next[r][j], A[j])[c] >= next[r][j][c]
                                         /\ c \in DOMAIN A[j] => PutOff(next[r][j], A[j])[c] >= A[j][c]
  BY PutOffGrows DEF NextType
<1>2. \A i \in Rank, j \in Bank :
         next'[i][j] = IF i = r THEN PutOff(next[r][j], A[j]) ELSE next[i][j]
  BY DEF NextType
<1>3. next' \in [ Rank -> [ Bank -> [ Kind -> Nat ] ] ]
  BY <1>1 DEF NextType
<1>4. \A i \in Rank, j \in Bank, c \in Kind : next'[i][j][c] >= next[i][j][c]
  BY <1>1, <1>2 DEF NextType
<1>5. \A j \in Bank, c \in Kind : c \in DOMAIN A[j] => next'[r][j][c] >= A[j][c]
  BY <1>1, <1>2
<1>. QED  BY <1>3, <1>4, <1>5 DEF Grown, NextType

LEMMA ActivateTimes ==
  ASSUME NextType, NEW r \in Rank, NEW b \in Bank, Activate(r, b)
  PROVE  /\ Grown
         /\ next'[r][b].act >= T_RC
         /\ next'[r][b].read >= T_RCD /\ next'[r][b].write >= T_RCD
         /\ next'[r][b].pre >= T_RAS /\ next'[r][b].refresh >= T_RAS
         /\ \A j \in Bank : next'[r][j].act >= T_RRD
<1>. DEFINE A == [ j \in Bank |-> IF j = b THEN AfterAct ELSE [ act |-> T_RRD ] ]
<1>1. next' = [ next EXCEPT ![r] = [ j \in Bank |-> PutOff(next[r][j], A[j]) ] ]
  BY DEF Activate, WholeRank, NextType
<1>2. \A j \in Bank, c \in Kind : c \in DOMAIN A[j] => A[j][c] \in Int
  BY Times DEF AfterAct
<1>3. /\ { "act", "read", "write", "pre", "refresh" } \subseteq DOMAIN A[b]
      /\ A[b]["act"] = T_RC /\ A[b]["read"] = T_RCD /\ A[b]["write"] = T_RCD
      /\ A[b]["pre"] = T_RAS /\ A[b]["refresh"] = T_RAS
  BY DEF AfterAct
<1>4. \A j \in Bank : "act" \in DOMAIN A[j] /\ A[j]["act"] >= T_RRD
  BY Times, TimingAssumption DEF AfterAct
<1>. HIDE DEF A
<1>5. /\ Grown
      /\ \A j \in Bank, c \in Kind : c \in DOMAIN A[j] => next'[r][j][c] >= A[j][c]
  BY <1>1, <1>2, RankTimes
<1>6. { "act", "read", "write", "pre", "refresh" } \subseteq Kind
  BY DEF Kind
<1>7. \A j \in Bank : next'[r][j].act >= T_RRD
  BY <1>2, <1>4, <1>5, <1>6, Times DEF Grown, NextType
<1>. QED  BY <1>3, <1>5, <1>6, <1>7

(* A time of all banks of a rank is put off for the kinds of S.            *)
LEMMA SameTimes ==
  ASSUME NextType, NEW r \in Rank, NEW S \in SUBSET Kind, NEW t \in Int, NEW A,
         DOMAIN A = S, \A c \in S : A[c] = t,
         next' = [ next EXCEPT ![r] = [ j \in Bank |-> PutOff(next[r][j], A) ] ]
  PROVE  /\ Grown
         /\ \A j \in Bank, c \in S : next'[r][j][c] >= t
<1>. DEFINE F == [ j \in Bank |-> A ]
<1>1. next' = [ next EXCEPT ![r] = [ j \in Bank |-> PutOff(next[r][j], F[j]) ] ]
  BY DEF NextType
<1>2. \A j \in Bank, c \in Kind : c \in DOMAIN F[j] => F[j][c] \in Int
  OBVIOUS
<1>3. \A j \in Bank : F[j] = A
  OBVIOUS
<1>. HIDE DEF F
<1>4. /\ Grown
      /\ \A j \in Bank, c \in Kind : c \in DOMAIN F[j] => next'[r][j][c] >= F[j][c]
  BY <1>1, <1>2, RankTimes
<1>. QED  BY <1>3, <1>4

LEMMA OneBankTimes ==
  ASSUME NextType, NEW r \in Rank, NEW b \in Bank, NEW S \in SUBSET Kind, NEW t \in Int, NEW A,
         DOMAIN A = S, \A c \in S : A[c] = t, next' = OneBank(r, b, A)
  PROVE  /\ Grown
         /\ \A c \in S : next'[r][b][c] >= t
<1>1. next' = [ next EXCEPT ![r][b] = PutOff(next[r][b], A) ]
  BY DEF OneBank, NextType
<1>2. /\ PutOff(next[r][b], A) \in [ Kind -> Nat ]
      /\ \A c \in Kind : /\ PutOff(next[r][b], A)[c] >= next[r][b][c]
                         /\ c \in DOMAIN A => PutOff(next[r][b], A)[c] >= A[c]
  BY PutOffGrows DEF NextType
<1>3. \A i \in Rank, j \in Bank :
         next'[i][j] = IF i = r /\ j = b THEN PutOff(next[r][b], A) ELSE next[i][j]
  BY <1>1 DEF NextType
<1>4. next' \in [ Rank -> [ Bank -> [ Kind -> Nat ] ] ]
  BY <1>1, <1>2 DEF NextType
<1>5. \A i \in Rank, j \in Bank, c \in Kind : next'[i][j][c] >= next[i][j][c]
  BY <1>2, <1>3 DEF NextType
<1>. QED  BY <1>2, <1>3, <1>4, <1>5 DEF Grown, NextType

(* The kinds of AfterPre.                                                  *)
Shut == { "act", "powerdown", "pre", "refresh" }

LEMMA ShutKinds ==
  /\ Shut \subseteq Kind /\ DOMAIN AfterPre = Shut
  /\ \A c \in Shut : AfterPre[c] = T_RP
BY DEF Shut, Kind, AfterPre

LEMMA PrechargeTimes ==
  ASSUME NextType, NEW r \in Rank, NEW b \in Bank, Precharge(r, b)
  PROVE  Grown /\ \A c \in Shut : next'[r][b][c] >= T_RP
BY OneBankTimes, ShutKinds, Times DEF Precharge

LEMMA PrechargeAllTimes ==
  ASSUME NextType, NEW r \in Rank, issue_all_bank_precharge_command(r)
  PROVE  Grown /\ \A j \in Bank, c \in Shut : next'[r][j][c] >= T_RP
<1>1. next' = [ next EXCEPT ![r] = [ j \in Bank |-> PutOff(next[r][j], AfterPre) ] ]
  BY DEF issue_all_bank_precharge_command, WholeRank, NextType
<1>. QED  BY SMTT(60), <1>1, SameTimes, ShutKinds, Times

LEMMA WakeTimes ==
  ASSUME NextType, NEW r \in Rank, Wake(r)
  PROVE  Grown
<1>. DEFINE A == [ powerdown |-> T_XP, pre |-> T_XP, read |-> T_XP, write |-> T_XP,
                   act |-> T_XP, refresh |-> T_XP ]
            S == { "powerdown", "pre", "read", "write", "act", "refresh" }
<1>1. next' = [ next EXCEPT ![r] = [ j \in Bank |-> PutOff(next[r][j], A) ] ]
  BY DEF Wake, WholeRank, NextType
<1>2. DOMAIN A = S /\ S \in SUBSET Kind /\ \A c \in S : A[c] = T_XP
  BY DEF Kind
<1>. HIDE DEF A, S
<1>. QED  BY <1>1, <1>2, SameTimes, Times

LEMMA PowerDownTimes ==
  ASSUME NextType, NEW r \in Rank, NEW op, issue_powerdown_command(r, op)
  PROVE  Grown
<1>. DEFINE A == [ powerup |-> T_PD_MIN, refresh |-> T_PD_MIN ]
            S == { "powerup", "refresh" }
<1>1. next' = [ next EXCEPT ![r] = [ j \in Bank |-> PutOff(next[r][j], A) ] ]
  BY DEF issue_powerdown_command, WholeRank, NextType
<1>2. DOMAIN A = S /\ S \in SUBSET Kind /\ \A c \in S : A[c] = T_PD_MIN
  BY DEF Kind
<1>. HIDE DEF A, S
<1>. QED  BY <1>1, <1>2, SameTimes, Times

LEMMA RefreshTimes ==
  ASSUME NextType, NEW r \in Rank, issue_refresh_command(r)
  PROVE  /\ RefreshTime(r) \in Nat
         /\ Grown /\ \A j \in Bank, c \in Shut : next'[r][j][c] >= RefreshTime(r)
<1>. DEFINE A == [ c \in DOMAIN AfterPre |-> RefreshTime(r) ]
<1>1. next' = [ next EXCEPT ![r] = [ j \in Bank |-> PutOff(next[r][j], A) ] ]
  BY DEF issue_refresh_command, WholeRank, NextType
<1>2. RefreshTime(r) \in Nat
  BY Times DEF RefreshTime
<1>3. DOMAIN A = Shut /\ \A c \in Shut : A[c] = RefreshTime(r)
  BY ShutKinds
<1>. HIDE DEF A
<1>. QED  BY <1>1, <1>2, <1>3, SameTimes, ShutKinds

LEMMA AutoTimes ==
  ASSUME NextType, NEW r \in Rank, NEW b \in Bank, issue_autoprecharge(r, b)
  PROVE  /\ AutoStart(r, b) \in Nat
         /\ Grown /\ \A c \in Shut : next'[r][b][c] >= AutoStart(r, b) + T_RP
<1>. DEFINE A == [ c \in DOMAIN AfterPre |-> AutoStart(r, b) + T_RP ]
<1>1. next[r][b].pre \in Nat
  BY DEF NextType, Kind
<1>2. AutoStart(r, b) \in Nat
  BY <1>1, Times DEF AutoStart, Later, WriteToPre
<1>3. DOMAIN A = Shut /\ \A c \in Shut : A[c] = AutoStart(r, b) + T_RP
  BY ShutKinds
<1>4. next' = OneBank(r, b, A)
  BY DEF issue_autoprecharge
<1>. HIDE DEF A
<1>. QED  BY <1>2, <1>3, <1>4, OneBankTimes, ShutKinds, Times

LEMMA ColumnTimes ==
  ASSUME NextType, NEW r \in Rank, NEW b \in Bank, NEW own, NEW other, NEW bank,
         \A c \in Kind : /\ c \in DOMAIN own => own[c] \in Int
                         /\ c \in DOMAIN other => other[c] \in Int
                         /\ c \in DOMAIN bank => bank[c] \in Int,
         Column(r, b, own, other, bank)
  PROVE  /\ Grown
         /\ \A j \in Bank, c \in Kind : c \in DOMAIN own => next'[r][j][c] >= own[c]
         /\ \A i \in Rank, j \in Bank, c \in Kind :
               i # r /\ c \in DOMAIN other => next'[i][j][c] >= other[c]
         /\ \A c \in Kind : c \in DOMAIN bank => next'[r][b][c] >= bank[c]
<1>. DEFINE P(i, j) == PutOff(next[i][j], IF i = r THEN own ELSE other)
            Q == PutOff(P(r, b), bank)
<1>1. next' = [ i \in Rank |-> [ j \in Bank |->
                 IF << i, j >> = << r, b >> THEN PutOff(P(i, j), bank) ELSE P(i, j) ] ]
  BY DEF Column
<1>2. \A i \in Rank, j \in Bank : next'[i][j] = IF i = r /\ j = b THEN Q ELSE P(i, j)
  BY <1>1
<1>3. \A i \in Rank, j \in Bank :
         /\ P(i, j) \in [ Kind -> Nat ]
         /\ \A c \in Kind : P(i, j)[c] >= next[i][j][c]
  BY PutOffGrows DEF NextType
<1>4. \A j \in Bank, c \in Kind : c \in DOMAIN own => P(r, j)[c] >= own[c]
  BY PutOffGrows DEF NextType
<1>5. \A i \in Rank, j \in Bank, c \in Kind : i # r /\ c \in DOMAIN other => P(i, j)[c] >= other[c]
  BY PutOffGrows DEF NextType
<1>. HIDE DEF P
<1>6. /\ Q \in [ Kind -> Nat ]
      /\ \A c \in Kind : Q[c] >= P(r, b)[c] /\ (c \in DOMAIN bank => Q[c] >= bank[c])
  BY <1>3, PutOffGrows
<1>. HIDE DEF Q
<1>7. next' \in [ Rank -> [ Bank -> [ Kind -> Nat ] ] ]
  <2>1. next' = [ i \in Rank |-> [ j \in Bank |-> next'[i][j] ] ]
    BY <1>1
  <2>2. \A i \in Rank, j \in Bank : next'[i][j] \in [ Kind -> Nat ]
    BY <1>2, <1>3, <1>6
  <2>. QED  BY <2>1, <2>2
<1>8. \A i \in Rank, j \in Bank, c \in Kind :
        /\ next'[i][j][c] \in Nat /\ P(i, j)[c] \in Nat /\ next[i][j][c] \in Nat
        /\ next'[i][j][c] >= P(i, j)[c]
  <2>. TAKE i \in Rank, j \in Bank, c \in Kind
  <2>1. next'[i][j][c] \in Nat /\ P(i, j)[c] \in Nat /\ next[i][j][c] \in Nat
    BY <1>3, <1>7 DEF NextType
  <2>. QED  BY <1>2, <1>6, <2>1
<1>9. Grown
  <2>1. \A i \in Rank, j \in Bank, c \in Kind : next'[i][j][c] >= next[i][j][c]
    BY <1>3, <1>8
  <2>. QED  BY <1>7, <2>1 DEF Grown, NextType
<1>10. \A j \in Bank, c \in Kind : c \in DOMAIN own => next'[r][j][c] >= own[c]
  BY <1>4, <1>8
<1>11. \A i \in Rank, j \in Bank, c \in Kind : i # r /\ c \in DOMAIN other => next'[i][j][c] >= other[c]
  BY <1>5, <1>8
<1>12. \A c \in Kind : c \in DOMAIN bank => next'[r][b][c] >= bank[c]
  BY <1>2, <1>6
<1>. QED  BY <1>9, <1>10, <1>11, <1>12

LEMMA ReadTimes ==
  ASSUME NextType, NEW r \in Rank, NEW b \in Bank, ColRead(r, b)
  PROVE  /\ Grown
         /\ \A j \in Bank : next'[r][j].read >= T_CCD
         /\ \A i \in Rank, j \in Bank :
              /\ i # r => next'[i][j].read >= T_DATA_TRANS + T_RTRS
              /\ next'[i][j].read >= T_DATA_TRANS
              /\ next'[i][j].write >= T_CAS + T_DATA_TRANS + T_RTRS - T_CWD
         /\ next'[r][b].pre >= T_RTP /\ next'[r][b].refresh >= T_RTP
<1>. DEFINE w == T_CAS + T_DATA_TRANS + T_RTRS - T_CWD
            own == [ read |-> Later(T_CCD, T_DATA_TRANS), write |-> w ]
            other == [ read |-> T_DATA_TRANS + T_RTRS, write |-> w ]
            bank == [ pre |-> T_RTP, refresh |-> T_RTP, powerdown |-> T_RTP ]
<1>1. Column(r, b, own, other, bank)
  BY DEF ColRead
<1>2. Later(T_CCD, T_DATA_TRANS) \in Nat /\ w \in Int
      /\ Later(T_CCD, T_DATA_TRANS) >= T_CCD /\ Later(T_CCD, T_DATA_TRANS) >= T_DATA_TRANS
  BY Times DEF Later
<1>3. \A c \in Kind : /\ c \in DOMAIN own => own[c] \in Int
                      /\ c \in DOMAIN other => other[c] \in Int
                      /\ c \in DOMAIN bank => bank[c] \in Int
  BY <1>2, Times
<1>4. /\ { "read", "write" } \subseteq DOMAIN own /\ own["read"] = Later(T_CCD, T_DATA_TRANS)
      /\ own["write"] = w
      /\ { "read", "write" } \subseteq DOMAIN other /\ other["read"] = T_DATA_TRANS + T_RTRS
      /\ other["write"] = w
      /\ { "pre", "refresh" } \subseteq DOMAIN bank /\ bank["pre"] = T_RTP /\ bank["refresh"] = T_RTP
  OBVIOUS
<1>5. { "read", "write", "pre", "refresh" } \subseteq Kind
  BY DEF Kind
<1>. HIDE DEF own, other, bank
<1>6. /\ Grown
      /\ \A j \in Bank, c \in Kind : c \in DOMAIN own => next'[r][j][c] >= own[c]
      /\ \A i \in Rank, j \in Bank, c \in Kind :
            i # r /\ c \in DOMAIN other => next'[i][j][c] >= other[c]
      /\ \A c \in Kind : c \in DOMAIN bank => next'[r][b][c] >= bank[c]
  BY <1>1, <1>3, ColumnTimes
<1>7. \A i \in Rank, j \in Bank : next'[i][j].read \in Nat /\ next'[i][j].write \in Nat
  BY <1>5, <1>6 DEF Grown, NextType
<1>8. \A j \in Bank : next'[r][j].read >= Later(T_CCD, T_DATA_TRANS) /\ next'[r][j].write >= w
  BY <1>4, <1>5, <1>6
<1>9. \A i \in Rank, j \in Bank :
         i # r => next'[i][j].read >= T_DATA_TRANS + T_RTRS /\ next'[i][j].write >= w
  BY <1>4, <1>5, <1>6
<1>10. next'[r][b].pre >= T_RTP /\ next'[r][b].refresh >= T_RTP
  BY <1>4, <1>5, <1>6
<1>. HIDE DEF w
<1>11. \A j \in Bank : next'[r][j].read >= T_CCD /\ next'[r][j].read >= T_DATA_TRANS
  BY <1>2, <1>7, <1>8, Times
<1>12. \A i \in Rank, j \in Bank :
          /\ i # r => next'[i][j].read >= T_DATA_TRANS + T_RTRS
          /\ next'[i][j].read >= T_DATA_TRANS
          /\ next'[i][j].write >= w
  BY <1>7, <1>8, <1>9, <1>11, Times
<1>. QED  BY <1>6, <1>10, <1>11, <1>12 DEF w

LEMMA WriteTimes ==
  ASSUME NextType, NEW r \in Rank, NEW b \in Bank, ColWrite(r, b)
  PROVE  /\ Grown
         /\ \A j \in Bank : /\ next'[r][j].write >= T_CCD
                            /\ next'[r][j].read >= T_CWD + T_DATA_TRANS + T_WTR
         /\ \A i \in Rank, j \in Bank :
              /\ next'[i][j].write >= T_DATA_TRANS
              /\ i # r => /\ next'[i][j].write >= T_DATA_TRANS + T_RTRS
                          /\ next'[i][j].read >= T_CWD + T_DATA_TRANS + T_RTRS - T_CAS
         /\ next'[r][b].pre >= WriteToPre /\ next'[r][b].refresh >= WriteToPre
<1>. DEFINE v == T_CWD + T_DATA_TRANS + T_WTR
            w == T_CWD + T_DATA_TRANS + T_RTRS - T_CAS
            own == [ write |-> Later(T_CCD, T_DATA_TRANS), read |-> v ]
            other == [ write |-> T_DATA_TRANS + T_RTRS, read |-> w ]
            bank == [ pre |-> WriteToPre, refresh |-> WriteToPre, powerdown |-> WriteToPre ]
<1>1. Column(r, b, own, other, bank)
  BY DEF ColWrite
<1>2. Later(T_CCD, T_DATA_TRANS) \in Nat /\ v \in Int /\ w \in Int /\ WriteToPre \in Nat
      /\ Later(T_CCD, T_DATA_TRANS) >= T_CCD /\ Later(T_CCD, T_DATA_TRANS) >= T_DATA_TRANS
  BY Times DEF Later, WriteToPre
<1>3. \A c \in Kind : /\ c \in DOMAIN own => own[c] \in Int
                      /\ c \in DOMAIN other => other[c] \in Int
                      /\ c \in DOMAIN bank => bank[c] \in Int
  BY <1>2, Times
<1>4. /\ { "read", "write" } \subseteq DOMAIN own /\ own["write"] = Later(T_CCD, T_DATA_TRANS)
      /\ own["read"] = v
      /\ { "read", "write" } \subseteq DOMAIN other /\ other["write"] = T_DATA_TRANS + T_RTRS
      /\ other["read"] = w
      /\ { "pre", "refresh" } \subseteq DOMAIN bank
      /\ bank["pre"] = WriteToPre /\ bank["refresh"] = WriteToPre
  OBVIOUS
<1>5. { "read", "write", "pre", "refresh" } \subseteq Kind
  BY DEF Kind
<1>. HIDE DEF own, other, bank
<1>6. /\ Grown
      /\ \A j \in Bank, c \in Kind : c \in DOMAIN own => next'[r][j][c] >= own[c]
      /\ \A i \in Rank, j \in Bank, c \in Kind :
            i # r /\ c \in DOMAIN other => next'[i][j][c] >= other[c]
      /\ \A c \in Kind : c \in DOMAIN bank => next'[r][b][c] >= bank[c]
  BY <1>1, <1>3, ColumnTimes
<1>7. \A i \in Rank, j \in Bank : next'[i][j].read \in Nat /\ next'[i][j].write \in Nat
  BY <1>5, <1>6 DEF Grown, NextType
<1>8. \A j \in Bank : next'[r][j].write >= Later(T_CCD, T_DATA_TRANS) /\ next'[r][j].read >= v
  BY <1>4, <1>5, <1>6
<1>9. \A i \in Rank, j \in Bank :
         i # r => next'[i][j].write >= T_DATA_TRANS + T_RTRS /\ next'[i][j].read >= w
  BY <1>4, <1>5, <1>6
<1>10. next'[r][b].pre >= WriteToPre /\ next'[r][b].refresh >= WriteToPre
  BY <1>4, <1>5, <1>6
<1>. HIDE DEF v, w
<1>11. \A j \in Bank : next'[r][j].write >= T_CCD /\ next'[r][j].write >= T_DATA_TRANS
  BY <1>2, <1>7, <1>8, Times
<1>12. \A i \in Rank, j \in Bank : next'[i][j].write >= T_DATA_TRANS
  BY <1>7, <1>9, <1>11, Times
<1>. QED  BY <1>6, <1>8, <1>9, <1>10, <1>11, <1>12 DEF v, w

-------------------------------------------------------------------------------
(* The states of a rank after a command for the whole rank.                *)
StateType == state \in [ Rank -> [ Bank -> bankstate_t ] ]

LEMMA RankStates ==
  ASSUME StateType, NEW r \in Rank, NEW f,
         state' = [ state EXCEPT ![r] = [ j \in Bank |-> f[j] ] ],
         \A j \in Bank : f[j] \in bankstate_t
  PROVE  /\ StateType'
         /\ \A i \in Rank, j \in Bank : state'[i][j] = IF i = r THEN f[j] ELSE state[i][j]
<1>1. state \in [ Rank -> [ Bank -> bankstate_t ] ]
  BY DEF StateType
<1>2. state' \in [ Rank -> [ Bank -> bankstate_t ] ]
  BY <1>1
<1>3. \A i \in Rank, j \in Bank : state'[i][j] = IF i = r THEN f[j] ELSE state[i][j]
  BY <1>1
<1>. QED  BY <1>2, <1>3 DEF StateType

(* Commands for a whole rank keep the agreement of its banks, when they    *)
(* leave all of them asleep or none, and slow all of them or none.         *)
LEMMA RankAgrees ==
  ASSUME StateType, StateInv, NEW r \in Rank, NEW f,
         state' = [ state EXCEPT ![r] = [ j \in Bank |-> f[j] ] ],
         \A j \in Bank : f[j] \in bankstate_t,
         (\A j \in Bank : f[j] \in Asleep) \/ (\A j \in Bank : f[j] \notin Asleep),
         \/ \A j \in Bank : f[j] = "PRECHARGE_POWER_DOWN_SLOW"
         \/ \A j \in Bank : f[j] # "PRECHARGE_POWER_DOWN_SLOW",
         \A j \in Bank : f[j] = "PRECHARGE_POWER_DOWN_FAST" => "PDF" \in Issued
  PROVE  StateType' /\ StateInv'
<1>1. /\ StateType'
      /\ \A i \in Rank, j \in Bank : state'[i][j] = IF i = r THEN f[j] ELSE state[i][j]
  BY RankStates
<1>2. SleepTogether' /\ SlowTogether' /\ FastIssued'
  <2>1. ASSUME NEW i \in Rank
        PROVE  (\E j \in Bank : state'[i][j] \in Asleep) => \A j \in Bank : state'[i][j] \in Asleep
    BY <1>1 DEF StateInv, SleepTogether
  <2>2. ASSUME NEW i \in Rank, NEW b \in Bank, state'[i][b] = "PRECHARGE_POWER_DOWN_SLOW"
        PROVE  \A j \in Bank : state'[i][j] = "PRECHARGE_POWER_DOWN_SLOW"
    BY <1>1, <2>2 DEF StateInv, SlowTogether
  <2>3. ASSUME NEW i \in Rank, NEW b \in Bank, state'[i][b] = "PRECHARGE_POWER_DOWN_FAST"
        PROVE  "PDF" \in Issued
    BY <1>1, <2>3 DEF StateInv, FastIssued
  <2>. QED  BY <2>1, <2>2, <2>3 DEF SleepTogether, SlowTogether, FastIssued
<1>. QED  BY <1>1, <1>2 DEF StateInv

(* A command for one bank that is awake leaves it awake.                   *)
LEMMA BankAgrees ==
  ASSUME StateType, StateInv, NEW r \in Rank, NEW b \in Bank, NEW s \in Powered,
         state[r][b] \in Powered, state' = [ state EXCEPT ![r][b] = s ]
  PROVE  StateType' /\ StateInv'
<1>1. state \in [ Rank -> [ Bank -> bankstate_t ] ]
  BY DEF StateType
<1>2. s \in bankstate_t /\ s \notin Asleep /\ state[r][b] \notin Asleep
      /\ "PRECHARGE_POWER_DOWN_SLOW" \in Asleep
  BY DEF bankstate_t, Powered, Closed, Asleep, PrechargeDown
<1>3. StateType'
  BY <1>1, <1>2 DEF StateType
<1>4. \A i \in Rank, j \in Bank : state'[i][j] = IF i = r /\ j = b THEN s ELSE state[i][j]
  BY <1>1
<1>5. SleepTogether'
  BY <1>2, <1>4 DEF StateInv, SleepTogether
<1>6. SlowTogether'
  BY <1>2, <1>4 DEF StateInv, SlowTogether, SleepTogether
<1>7. FastIssued'
  BY <1>4 DEF StateInv, FastIssued, Powered, Closed
<1>. QED  BY <1>3, <1>5, <1>6, <1>7 DEF StateInv

(* What every command of the scheduler does to the states and the times.   *)
LEMMA ScheduleStates ==
  ASSUME TypeOK, StateInv, ColumnOpen, Schedule
  PROVE  StateType' /\ StateInv' /\ Grown
<1>1. StateType /\ NextType
  BY DEF TypeOK, StateType, NextType
<1>2. PICK r \in Rank :
        \/ \E b \in Bank :
             \/ Activate(r, b) \/ ColRead(r, b) \/ ColWrite(r, b) \/ Precharge(r, b)
             \/ PowerUpForRequest(r, b) \/ issue_autoprecharge(r, b)
        \/ issue_powerup_command(r) \/ issue_all_bank_precharge_command(r)
        \/ issue_refresh_command(r)
        \/ \E op \in { "PDF", "PDS" } : issue_powerdown_command(r, op)
  BY DEF Schedule
<1>3. \A j \in Bank : state[r][j] \in bankstate_t
  BY <1>1 DEF StateType
<1>4. 0 \in Bank
  BY Times DEF Bank
<1>5. ASSUME NEW b \in Bank, Activate(r, b)
      PROVE  StateType' /\ StateInv' /\ Grown
  <2>1. state[r][b] \in Powered /\ state' = [ state EXCEPT ![r][b] = "ROW_ACTIVE" ]
    BY <1>5 DEF Activate, ActivateIssuable, Ready, Powered
  <2>2. "ROW_ACTIVE" \in Powered
    BY DEF Powered
  <2>. QED  BY <1>1, <1>5, <2>1, <2>2, BankAgrees, ActivateTimes
<1>6. ASSUME NEW b \in Bank, ColRead(r, b) \/ ColWrite(r, b)
      PROVE  StateType' /\ StateInv' /\ Grown
  <2>1. state' = state
    BY <1>6 DEF ColRead, ColWrite, Column
  <2>2. StateType' /\ StateInv'
    BY <1>1, <2>1 DEF StateType, StateInv, SleepTogether, SlowTogether, FastIssued
  <2>. QED  BY <1>1, <1>6, <2>2, ReadTimes, WriteTimes
<1>7. ASSUME NEW b \in Bank, Precharge(r, b)
      PROVE  StateType' /\ StateInv' /\ Grown
  <2>1. state[r][b] \in Powered /\ state' = [ state EXCEPT ![r][b] = "PRECHARGING" ]
    BY <1>7 DEF Precharge, is_precharge_allowed, Ready
  <2>2. "PRECHARGING" \in Powered
    BY DEF Powered, Closed
  <2>. QED  BY <1>1, <1>7, <2>1, <2>2, BankAgrees, PrechargeTimes
<1>8. ASSUME NEW b \in Bank, issue_autoprecharge(r, b)
      PROVE  StateType' /\ StateInv' /\ Grown
  <2>1. state' = [ state EXCEPT ![r][b] = "PRECHARGING" ]
    BY <1>8 DEF issue_autoprecharge
  <2>2. state[r][b] = "ROW_ACTIVE"
    BY <1>8 DEF issue_autoprecharge, is_autoprecharge_allowed, ColumnOpen
  <2>3. "PRECHARGING" \in Powered /\ "ROW_ACTIVE" \in Powered
    BY DEF Powered, Closed
  <2>. QED  BY <1>1, <1>8, <2>1, <2>2, <2>3, BankAgrees, AutoTimes
<1>9. ASSUME Wake(r)
      PROVE  StateType' /\ StateInv' /\ Grown
  <2>. DEFINE f == [ j \in Bank |-> IF state[r][j] \in PrechargeDown THEN "IDLE" ELSE "ROW_ACTIVE" ]
  <2>1. state' = [ state EXCEPT ![r] = [ j \in Bank |-> f[j] ] ]
    BY <1>1, <1>9 DEF Wake, SetState
  <2>2. \A j \in Bank : f[j] \in { "IDLE", "ROW_ACTIVE" }
    OBVIOUS
  <2>. HIDE DEF f
  <2>3. \A j \in Bank : /\ f[j] \in bankstate_t /\ f[j] \notin Asleep
                        /\ f[j] # "PRECHARGE_POWER_DOWN_SLOW" /\ f[j] # "PRECHARGE_POWER_DOWN_FAST"
    BY <2>2 DEF bankstate_t, Powered, Closed, Asleep, PrechargeDown
  <2>4. StateType' /\ StateInv'
    BY <1>1, <2>1, <2>3, RankAgrees
  <2>. QED  BY <1>1, <1>9, <2>4, WakeTimes
<1>10. ASSUME NEW s \in { "PRECHARGING", "REFRESHING" }, state' = SetState(r, LAMBDA b : s)
       PROVE  StateType' /\ StateInv'
  <2>. DEFINE f == [ j \in Bank |-> s ]
  <2>1. state' = [ state EXCEPT ![r] = [ j \in Bank |-> f[j] ] ]
    BY <1>1, <1>10 DEF SetState
  <2>2. \A j \in Bank : f[j] = s
    OBVIOUS
  <2>. HIDE DEF f
  <2>3. \A j \in Bank : /\ f[j] \in bankstate_t /\ f[j] \notin Asleep
                        /\ f[j] # "PRECHARGE_POWER_DOWN_SLOW" /\ f[j] # "PRECHARGE_POWER_DOWN_FAST"
    BY <2>2 DEF bankstate_t, Powered, Closed, Asleep, PrechargeDown
  <2>. QED  BY <1>1, <2>1, <2>3, RankAgrees
<1>11. ASSUME issue_all_bank_precharge_command(r)
       PROVE  StateType' /\ StateInv' /\ Grown
  <2>1. state' = SetState(r, LAMBDA b : "PRECHARGING")
    BY <1>11 DEF issue_all_bank_precharge_command
  <2>. QED  BY <1>1, <1>10, <1>11, <2>1, PrechargeAllTimes
<1>12. ASSUME issue_refresh_command(r)
       PROVE  StateType' /\ StateInv' /\ Grown
  <2>1. state' = SetState(r, LAMBDA b : "REFRESHING")
    BY <1>12 DEF issue_refresh_command
  <2>. QED  BY <1>1, <1>10, <1>12, <2>1, RefreshTimes
<1>13. ASSUME NEW op \in { "PDF", "PDS" }, issue_powerdown_command(r, op)
       PROVE  StateType' /\ StateInv' /\ Grown
  <2>. DEFINE f == [ j \in Bank |->
                CASE state[r][j] = "ROW_ACTIVE" -> "ACTIVE_POWER_DOWN"
                  [] OTHER -> IF op = "PDS" THEN "PRECHARGE_POWER_DOWN_SLOW"
                              ELSE "PRECHARGE_POWER_DOWN_FAST" ]
  <2>1. state' = [ state EXCEPT ![r] = [ j \in Bank |-> f[j] ] ]
    BY <1>1, <1>13 DEF issue_powerdown_command, SetState
  <2>2. \A j \in Bank : f[j] \in { "ACTIVE_POWER_DOWN", "PRECHARGE_POWER_DOWN_SLOW",
                                    "PRECHARGE_POWER_DOWN_FAST" }
    OBVIOUS
  <2>3. op = "PDS" => \A j \in Bank : state[r][j] # "ROW_ACTIVE"
    BY <1>13 DEF issue_powerdown_command, is_powerdown_allowed, Closed
  <2>4. /\ op = "PDS" => \A j \in Bank : f[j] = "PRECHARGE_POWER_DOWN_SLOW"
        /\ op = "PDF" => \A j \in Bank : f[j] # "PRECHARGE_POWER_DOWN_SLOW"
    BY <2>3
  <2>5. "PDF" = op => "PDF" \in Issued
    BY <1>13 DEF issue_powerdown_command, Issue
  <2>. HIDE DEF f
  <2>6. \A j \in Bank : f[j] \in bankstate_t /\ f[j] \in Asleep
    BY <2>2 DEF bankstate_t, Asleep, PrechargeDown
  <2>7. \A j \in Bank : f[j] = "PRECHARGE_POWER_DOWN_FAST" => "PDF" \in Issued
    BY <1>13, <2>4, <2>5
  <2>8. StateType' /\ StateInv'
    BY <1>1, <2>1, <2>4, <2>6, <2>7, RankAgrees
  <2>. QED  BY <1>1, <1>13, <2>8, PowerDownTimes
<1>14. ASSUME issue_powerup_command(r) \/ \E b \in Bank : PowerUpForRequest(r, b)
       PROVE  Wake(r)
  BY <1>14 DEF issue_powerup_command, PowerUpForRequest
<1>. QED  BY <1>2, <1>5, <1>6, <1>7, <1>8, <1>9, <1>11, <1>12, <1>13, <1>14


(* What every command does to the rest: it is the command of this cycle,   *)
(* only an activation is recorded, and only a refresh is counted.          *)
LEMMA ScheduleRest ==
  ASSUME TypeOK, Schedule
  PROVE  /\ command' \in Command /\ command' # NONE
         /\ record' \in [ Rank -> SUBSET (0 .. T_FAW) ]
         /\ left' = left /\ due' = due /\ forced_refresh_mode_on' = forced_refresh_mode_on
         /\ num_issued_refreshes' \in [ Rank -> Nat ]
         /\ \A i \in Rank : \/ num_issued_refreshes'[i] = num_issued_refreshes[i]
                            \/ num_issued_refreshes'[i] = num_issued_refreshes[i] + 1
<1>1. PICK r \in Rank :
        \/ \E b \in Bank :
             \/ Activate(r, b) \/ ColRead(r, b) \/ ColWrite(r, b) \/ Precharge(r, b)
             \/ PowerUpForRequest(r, b) \/ issue_autoprecharge(r, b)
        \/ issue_powerup_command(r) \/ issue_all_bank_precharge_command(r)
        \/ issue_refresh_command(r)
        \/ \E op \in { "PDF", "PDS" } : issue_powerdown_command(r, op)
  BY DEF Schedule
<1>2. 0 \in Bank
  BY Times DEF Bank
<1>3. \E b \in Bank, op \in Issued : command' = [ op |-> op, r |-> r, b |-> b ]
  <2>1. ASSUME NEW b \in Bank,
               \/ Activate(r, b) \/ ColRead(r, b) \/ ColWrite(r, b) \/ Precharge(r, b)
               \/ PowerUpForRequest(r, b) \/ issue_autoprecharge(r, b)
        PROVE  \E op \in Issued : command' = [ op |-> op, r |-> r, b |-> b ]
    BY <2>1 DEF Activate, ColRead, ColWrite, Precharge, PowerUpForRequest, issue_autoprecharge, Issue
  <2>2. ASSUME NEW o, \/ issue_powerup_command(r) \/ issue_all_bank_precharge_command(r)
                      \/ issue_refresh_command(r) \/ issue_powerdown_command(r, o)
        PROVE  \E op \in Issued : command' = [ op |-> op, r |-> r, b |-> 0 ]
    BY <2>2 DEF issue_powerup_command, issue_all_bank_precharge_command, issue_refresh_command,
         issue_powerdown_command, Issue
  <2>. QED  BY <1>1, <1>2, <2>1, <2>2
<1>4. command' \in Command /\ command' # NONE
  <2>1. command' \in [ op : Issued, r : Rank, b : Bank ]
    BY <1>3
  <2>2. DOMAIN command' = { "op", "r", "b" } /\ DOMAIN NONE = { "op" }
    BY <1>3 DEF NONE
  <2>3. command' # NONE
    BY <2>2
  <2>. QED  BY <2>1, <2>3 DEF Command
<1>5. record' = record \/ record' = [ record EXCEPT ![r] = @ \cup { 0 } ]
  BY <1>1 DEF Activate, ColRead, ColWrite, Precharge, PowerUpForRequest, issue_autoprecharge,
    issue_powerup_command, issue_all_bank_precharge_command, issue_refresh_command,
    issue_powerdown_command, Column, Wake
<1>6. record' \in [ Rank -> SUBSET (0 .. T_FAW) ]
  <2>. DEFINE A == 0 .. T_FAW
  <2>1. 0 \in A
    BY Times
  <2>2. record \in [ Rank -> SUBSET A ]
    BY DEF TypeOK
  <2>. HIDE DEF A
  <2>3. [ record EXCEPT ![r] = @ \cup { 0 } ] \in [ Rank -> SUBSET A ]
    BY <2>1, <2>2
  <2>4. record' \in [ Rank -> SUBSET A ]
    BY <1>5, <2>2, <2>3, Zenon
  <2>. QED  BY <2>4 DEF A
<1>7. \/ UNCHANGED window
      \/ /\ UNCHANGED << left, due, forced_refresh_mode_on >>
         /\ num_issued_refreshes' = [ num_issued_refreshes EXCEPT ![r] = @ + 1 ]
  BY <1>1 DEF Activate, ColRead, ColWrite, Precharge, PowerUpForRequest, issue_autoprecharge,
    issue_powerup_command, issue_all_bank_precharge_command, issue_refresh_command,
    issue_powerdown_command, Column, Wake
<1>8. num_issued_refreshes \in [ Rank -> Nat ]
  BY DEF TypeOK
<1>9. CASE UNCHANGED window
  BY <1>4, <1>6, <1>8, <1>9 DEF window
<1>10. CASE /\ UNCHANGED << left, due, forced_refresh_mode_on >>
            /\ num_issued_refreshes' = [ num_issued_refreshes EXCEPT ![r] = @ + 1 ]
  <2>1. /\ num_issued_refreshes' \in [ Rank -> Nat ]
        /\ \A i \in Rank : num_issued_refreshes'[i] =
             IF i = r THEN num_issued_refreshes[i] + 1 ELSE num_issued_refreshes[i]
    BY <1>8, <1>10
  <2>. QED  BY <1>4, <1>6, <1>10, <2>1
<1>. QED  BY <1>7, <1>9, <1>10

(* A column access is of an open bank, and leaves it open.                 *)
LEMMA ScheduleColumn ==
  ASSUME TypeOK, Schedule
  PROVE  ColumnOpen'
<1>. SUFFICES ASSUME command'.op \in { "RD", "WR" }
     PROVE  /\ command'.r \in Rank /\ command'.b \in Bank
            /\ state'[command'.r][command'.b] = "ROW_ACTIVE"
  BY DEF ColumnOpen
<1>1. PICK r \in Rank :
        \/ \E b \in Bank :
             \/ Activate(r, b) \/ ColRead(r, b) \/ ColWrite(r, b) \/ Precharge(r, b)
             \/ PowerUpForRequest(r, b) \/ issue_autoprecharge(r, b)
        \/ issue_powerup_command(r) \/ issue_all_bank_precharge_command(r)
        \/ issue_refresh_command(r)
        \/ \E op \in { "PDF", "PDS" } : issue_powerdown_command(r, op)
  BY DEF Schedule
<1>2. PICK b \in Bank : ColRead(r, b) \/ ColWrite(r, b)
  <2>1. \A op, j : command' = [ op |-> op, r |-> r, b |-> j ] => op \in { "RD", "WR" }
    OBVIOUS
  <2>2. ASSUME NEW j \in Bank, \/ Activate(r, j) \/ Precharge(r, j) \/ PowerUpForRequest(r, j)
                                \/ issue_autoprecharge(r, j)
        PROVE  FALSE
    <3>1. \E op \in { "ACT", "PRE", "PUP", "AUTO" } : command' = [ op |-> op, r |-> r, b |-> j ]
      BY <2>2 DEF Activate, Precharge, PowerUpForRequest, issue_autoprecharge, Issue
    <3>. QED  BY <2>1, <3>1
  <2>3. ASSUME NEW o \in { "PDF", "PDS" },
               \/ issue_powerup_command(r) \/ issue_all_bank_precharge_command(r)
               \/ issue_refresh_command(r) \/ issue_powerdown_command(r, o)
        PROVE  FALSE
    <3>1. \E op \in { "PUPR", "PREA", "REF", "PDF", "PDS" } : command' = [ op |-> op, r |-> r, b |-> 0 ]
      BY <2>3 DEF issue_powerup_command, issue_all_bank_precharge_command, issue_refresh_command,
           issue_powerdown_command, Issue
    <3>. QED  BY <2>1, <3>1
  <2>. QED  BY <1>1, <2>2, <2>3
<1>3. command'.r = r /\ command'.b = b /\ state[r][b] = "ROW_ACTIVE" /\ state' = state
  BY <1>2 DEF ColRead, ColWrite, ReadIssuable, WriteIssuable, Ready, Issue, Column
<1>. QED  BY <1>3

(* A cycle that goes by: the times come nearer but stay at 0, or the rank  *)
(* is refreshed by force until the deadline.                               *)
LEMMA CycleStates ==
  ASSUME TypeOK, StateInv, update_memory
  PROVE  StateType' /\ StateInv' /\ NextType'
<1>1. /\ state \in [ Rank -> [ Bank -> bankstate_t ] ]
      /\ next \in [ Rank -> [ Bank -> [ Kind -> Nat ] ] ]
      /\ left \in Nat \ {0}
  BY Times, WindowRoom DEF TypeOK
<1>2. \A r \in Rank : \/ state'[r] = state[r]
                      \/ state'[r] = [ b \in Bank |-> "REFRESHING" ]
  BY <1>1 DEF update_memory
<1>3. "REFRESHING" \in bankstate_t /\ "REFRESHING" \notin Asleep
  BY DEF bankstate_t, Powered, Closed, Asleep, PrechargeDown
<1>4. StateType'
  <2>1. state' = [ r \in Rank |-> state'[r] ]
    BY <1>1 DEF update_memory
  <2>2. \A r \in Rank : state'[r] \in [ Bank -> bankstate_t ]
    <3>. TAKE r \in Rank
    <3>1. state[r] \in [ Bank -> bankstate_t ]
      BY <1>1
    <3>2. [ b \in Bank |-> "REFRESHING" ] \in [ Bank -> bankstate_t ]
      BY <1>3
    <3>. QED  BY <1>2, <3>1, <3>2, Zenon
  <2>. QED  BY <2>1, <2>2 DEF StateType
<1>5. StateInv'
  <2>1. \A r \in Rank : \/ \A b \in Bank : state'[r][b] = state[r][b]
                        \/ \A b \in Bank : state'[r][b] = "REFRESHING"
    BY <1>2
  <2>2. SleepTogether'
    BY <1>3, <2>1 DEF StateInv, SleepTogether
  <2>3. SlowTogether'
    BY <2>1 DEF StateInv, SlowTogether
  <2>4. FastIssued'
    BY <2>1 DEF StateInv, FastIssued
  <2>. QED  BY <2>2, <2>3, <2>4 DEF StateInv
<1>6. \A r \in Rank : Elapsed(r) \in [ Bank -> [ Kind -> Nat ] ]
  <2>1. \A n \in Nat : Later(n - 1, 0) \in Nat
    BY DEF Later
  <2>. QED  BY <1>1, <2>1 DEF Elapsed
<1>7. \A n \in [ Kind -> Nat ] : left > 1 => UntilDeadline(n) \in [ Kind -> Nat ]
  BY <1>1 DEF UntilDeadline
<1>8. NextType'
  <2>1. next' = [ r \in Rank |-> next'[r] ]
    BY DEF update_memory
  <2>2. ASSUME NEW r \in Rank PROVE next'[r] \in [ Bank -> [ Kind -> Nat ] ]
    <3>1. \/ next'[r] = Elapsed(r)
          \/ left # 1 /\ next'[r] = [ b \in Bank |-> UntilDeadline(Elapsed(r)[b]) ]
      BY DEF update_memory
    <3>2. left # 1 => left > 1
      BY <1>1
    <3>. QED  BY <1>6, <1>7, <3>1, <3>2
  <2>. QED  BY <2>1, <2>2 DEF NextType
<1>. QED  BY <1>4, <1>5, <1>8

(* A cycle that goes by: the rest.                                         *)
LEMMA CycleRest ==
  ASSUME TypeOK, DueInv, update_memory
  PROVE  /\ command' = NONE /\ ColumnOpen' /\ RecordFresh'
         /\ record' \in [ Rank -> SUBSET (0 .. T_FAW) ]
         /\ left' \in 1 .. Window
         /\ num_issued_refreshes' \in [ Rank -> Nat ]
         /\ forced_refresh_mode_on' \in [ Rank -> BOOLEAN ]
<1>1. command' = NONE
  BY DEF update_memory
<1>2. ColumnOpen'
  BY <1>1 DEF ColumnOpen, NONE
<1>3. record' = [ r \in Rank |-> { a + 1 : a \in record[r] } \cap 1 .. T_FAW ]
  BY DEF update_memory
<1>4. RecordFresh'
  BY <1>3 DEF RecordFresh
<1>5. record' \in [ Rank -> SUBSET (0 .. T_FAW) ]
  <2>1. \A S : S \cap 1 .. T_FAW \in SUBSET (0 .. T_FAW)
    BY Times
  <2>. QED  BY <1>3, <2>1
<1>6. left' \in 1 .. Window
  BY WindowRoom DEF update_memory, TypeOK
<1>7. num_issued_refreshes' \in [ Rank -> Nat ]
  BY DEF update_memory, TypeOK
<1>8. forced_refresh_mode_on' \in [ Rank -> BOOLEAN ]
  BY DEF update_memory, TypeOK
<1>. QED  BY <1>1, <1>2, <1>4, <1>5, <1>6, <1>7, <1>8

LEMMA CycleDue ==
  ASSUME TypeOK, DueInv, update_memory
  PROVE  due' \in [ Rank -> Int ] /\ DueInv'
<1>1. /\ left \in Nat \ {0} /\ due \in [ Rank -> Int ]
      /\ num_issued_refreshes \in [ Rank -> Nat ]
      /\ forced_refresh_mode_on \in [ Rank -> BOOLEAN ]
  BY WindowRoom DEF TypeOK
<1>2. CASE left = 1
  <2>1. /\ left' = Window /\ due' = [ r \in Rank |-> IssueDeadline(Window, 0) ]
        /\ num_issued_refreshes' = [ r \in Rank |-> 0 ]
        /\ forced_refresh_mode_on' = [ r \in Rank |-> FALSE ]
    BY <1>2 DEF update_memory
  <2>2. \A r \in Rank : IssueDeadline(left', num_issued_refreshes'[r]) = IssueDeadline(Window, 0)
    BY <2>1
  <2>3. IssueDeadline(Window, 0) > 0 /\ IssueDeadline(Window, 0) \in Int
    BY WindowRoom, Times
  <2>4. \A r \in Rank : due'[r] = IssueDeadline(Window, 0) /\ forced_refresh_mode_on'[r] = FALSE
    BY <2>1
  <2>5. DueInv'
    BY <2>2, <2>3, <2>4 DEF DueInv
  <2>. QED  BY <2>1, <2>3, <2>5
<1>3. CASE left # 1
  <2>1. /\ left' = left - 1 /\ num_issued_refreshes' = num_issued_refreshes
        /\ due' = [ r \in Rank |->
             IF due[r] > 1 THEN IssueDeadline(left - 1, num_issued_refreshes[r]) ELSE due[r] - 1 ]
        /\ forced_refresh_mode_on' = [ r \in Rank |-> forced_refresh_mode_on[r] \/ Forced(r) ]
    BY <1>3 DEF update_memory
  <2>2. ASSUME NEW r \in Rank
        PROVE  /\ IssueDeadline(left', num_issued_refreshes'[r]) =
                    IssueDeadline(left, num_issued_refreshes[r]) - 1
               /\ IssueDeadline(left, num_issued_refreshes[r]) \in Int
    <3>1. left \in Int /\ num_issued_refreshes[r] \in Int
      BY <1>1
    <3>2. /\ IssueDeadline(left, num_issued_refreshes[r]) \in Int
          /\ IssueDeadline(left - 1, num_issued_refreshes[r])
               = IssueDeadline(left, num_issued_refreshes[r]) - 1
      BY <3>1, Deadlines
    <3>. QED  BY <2>1, <3>2
  <2>3. due' \in [ Rank -> Int ]
    BY <1>1, <2>1, <2>2
  <2>4. ASSUME NEW r \in Rank
        PROVE  /\ due'[r] <= IssueDeadline(left', num_issued_refreshes'[r])
               /\ due'[r] <= 0 => due[r] <= 1
               /\ due[r] <= 1 => due'[r] <= 0
    BY <1>1, <2>1, <2>2 DEF DueInv
  <2>5. ASSUME NEW r \in Rank
        PROVE  /\ due[r] <= 1 => num_issued_refreshes[r] >= REFRESHES \/ forced_refresh_mode_on'[r]
               /\ forced_refresh_mode_on'[r] => due[r] <= 1
    <3>1. forced_refresh_mode_on'[r] <=> forced_refresh_mode_on[r] \/ Forced(r)
      BY <2>1, Zenon
    <3>3. due[r] \in Int /\ num_issued_refreshes[r] \in Nat
      BY <1>1
    <3>4. due[r] <= 1 => due[r] <= 0 \/ due[r] = 1
      BY <3>3
    <3>5. num_issued_refreshes[r] >= REFRESHES \/ num_issued_refreshes[r] < REFRESHES
      BY <3>3, Times
    <3>6. /\ Forced(r) <=> due[r] = 1 /\ num_issued_refreshes[r] < REFRESHES
          /\ due[r] = 1 => due[r] <= 1
          /\ due[r] <= 0 => due[r] <= 1
      BY <3>3 DEF Forced
    <3>2. /\ due[r] <= 0 => num_issued_refreshes[r] >= REFRESHES \/ forced_refresh_mode_on[r]
          /\ forced_refresh_mode_on[r] => due[r] <= 0
      BY DEF DueInv
    <3>. QED  BY <3>1, <3>2, <3>4, <3>5, <3>6, Zenon
  <2>. QED  BY <2>1, <2>3, <2>4, <2>5 DEF DueInv
<1>. QED  BY <1>2, <1>3

-------------------------------------------------------------------------------
LEMMA InvInit == Init => Inv
<1>. SUFFICES ASSUME Init PROVE Inv
  OBVIOUS
<1>1. /\ state = [ r \in Rank |-> [ b \in Bank |-> "IDLE" ] ]
      /\ record = [ r \in Rank |-> {} ] /\ command = NONE /\ left = Window
      /\ due = [ r \in Rank |-> IssueDeadline(Window, 0) ]
      /\ num_issued_refreshes = [ r \in Rank |-> 0 ]
      /\ forced_refresh_mode_on = [ r \in Rank |-> FALSE ]
  BY DEF Init
<1>2. next \in [ Rank -> [ Bank -> [ Kind -> Nat ] ] ]
  BY DEF Init, Kind
<1>3. "IDLE" \in bankstate_t /\ "IDLE" \notin Asleep
  BY DEF bankstate_t, Powered, Closed, Asleep, PrechargeDown
<1>4. TypeOK
  BY <1>1, <1>2, <1>3, WindowRoom DEF TypeOK, Command
<1>5. StateInv
  BY <1>1, <1>3 DEF StateInv, SleepTogether, SlowTogether, FastIssued
<1>6. ColumnOpen /\ RecordFresh
  BY <1>1 DEF ColumnOpen, RecordFresh, NONE
<1>7. DueInv
  <2>1. IssueDeadline(Window, 0) > 0 /\ IssueDeadline(Window, 0) \in Int
    BY WindowRoom, Times
  <2>. QED  BY <1>1, <2>1 DEF DueInv
<1>. QED  BY <1>4, <1>5, <1>6, <1>7 DEF Inv

LEMMA InvNext == Inv /\ [Next]_vars => Inv'
<1>. SUFFICES ASSUME Inv, [Next]_vars PROVE Inv'
  OBVIOUS
<1>1. TypeOK /\ StateInv /\ ColumnOpen /\ RecordFresh /\ DueInv
  BY DEF Inv
<1>2. CASE Schedule
  <2>1. StateType' /\ StateInv' /\ NextType'
    BY <1>1, <1>2, ScheduleStates DEF Grown
  <2>2. /\ command' \in Command /\ command' # NONE
        /\ record' \in [ Rank -> SUBSET (0 .. T_FAW) ]
        /\ left' = left /\ due' = due /\ forced_refresh_mode_on' = forced_refresh_mode_on
        /\ num_issued_refreshes' \in [ Rank -> Nat ]
        /\ \A i \in Rank : \/ num_issued_refreshes'[i] = num_issued_refreshes[i]
                           \/ num_issued_refreshes'[i] = num_issued_refreshes[i] + 1
    BY <1>1, <1>2, ScheduleRest
  <2>3. TypeOK'
    BY <1>1, <2>1, <2>2, Zenon DEF TypeOK, StateType, NextType
  <2>4. ColumnOpen' /\ RecordFresh'
    BY <1>1, <1>2, <2>2, ScheduleColumn DEF RecordFresh
  <2>5. DueInv'
    <3>1. ASSUME NEW r \in Rank
          PROVE  /\ due'[r] <= IssueDeadline(left', num_issued_refreshes'[r])
                 /\ due'[r] <= 0 => num_issued_refreshes'[r] >= REFRESHES \/ forced_refresh_mode_on'[r]
                 /\ forced_refresh_mode_on'[r] => due'[r] <= 0
      <4>1. left \in Int /\ num_issued_refreshes[r] \in Nat /\ due[r] \in Int
        BY <1>1 DEF TypeOK
      <4>2. /\ IssueDeadline(left, num_issued_refreshes[r]) \in Int
            /\ IssueDeadline(left, num_issued_refreshes[r] + 1)
                 = IssueDeadline(left, num_issued_refreshes[r]) + T_RFC
        BY <4>1, Deadlines
      <4>3. /\ due[r] <= IssueDeadline(left, num_issued_refreshes[r])
            /\ due[r] <= 0 => num_issued_refreshes[r] >= REFRESHES \/ forced_refresh_mode_on[r]
            /\ forced_refresh_mode_on[r] => due[r] <= 0
        BY <1>1 DEF DueInv
      <4>4. CASE num_issued_refreshes'[r] = num_issued_refreshes[r]
        BY <2>2, <4>3, <4>4
      <4>5. CASE num_issued_refreshes'[r] = num_issued_refreshes[r] + 1
        BY <2>2, <4>1, <4>2, <4>3, <4>5, Times
      <4>. QED  BY <2>2, <4>4, <4>5
    <3>. QED  BY <3>1 DEF DueInv
  <2>. QED  BY <2>1, <2>3, <2>4, <2>5 DEF Inv
<1>3. CASE update_memory
  <2>1. StateType' /\ StateInv' /\ NextType'
    BY <1>1, <1>3, CycleStates
  <2>2. /\ command' = NONE /\ ColumnOpen' /\ RecordFresh'
        /\ record' \in [ Rank -> SUBSET (0 .. T_FAW) ]
        /\ left' \in 1 .. Window
        /\ num_issued_refreshes' \in [ Rank -> Nat ]
        /\ forced_refresh_mode_on' \in [ Rank -> BOOLEAN ]
    BY <1>1, <1>3, CycleRest
  <2>3. due' \in [ Rank -> Int ] /\ DueInv'
    BY <1>1, <1>3, CycleDue
  <2>4. command' \in Command
    BY <2>2 DEF Command
  <2>5. TypeOK'
    BY <2>1, <2>2, <2>3, <2>4, Zenon DEF TypeOK, StateType, NextType
  <2>. QED  BY <2>1, <2>2, <2>3, <2>5 DEF Inv
<1>4. CASE UNCHANGED vars
  BY <1>1, <1>4 DEF Inv, TypeOK, StateInv, SleepTogether, SlowTogether, FastIssued, ColumnOpen,
    RecordFresh, DueInv, vars, window
<1>. QED  BY <1>2, <1>3, <1>4 DEF Next

(* The types, the agreement of the banks of a rank and the refresh deadline *)
(* are kept by every command that is_..._allowed allows and by every cycle. *)
THEOREM Inductive == Spec => []Inv
<1>. QED  BY InvInit, InvNext, PTL DEF Spec

(* The variables of the memory controller keep their types: no earliest    *)
(* time of a command falls below now, and the activation window and the    *)
(* command of the cycle hold what the code puts there.                     *)
THEOREM TypeCorrect == Spec => []TypeOK
<1>1. Inv => TypeOK
  BY DEF Inv
<1>. QED  BY <1>1, Inductive, PTL

(* The banks of a rank sleep together, whatever commands for single banks  *)
(* come between power-down and power-up: looking at bank 0 is enough.      *)
THEOREM SleepKept == Spec => []SleepTogether
<1>1. Inv => SleepTogether
  BY DEF Inv, StateInv
<1>. QED  BY <1>1, Inductive, PTL

-------------------------------------------------------------------------------
(* The memory controller implements DramProtocol: whatever a scheduler     *)
(* issues of what is_..._allowed allows is legal for the DRAM, for every   *)
(* value of the timing parameters.                                         *)

(* issue_refresh_command with bank 0 asleep behind a closed row leaves time *)
(* for the wake-up, but not for the precharge of another bank of the rank  *)
(* that sleeps with an open row.                                           *)
RefreshCovers == "PDF" \in Issued => T_RP <= T_XP

(* The history, by what the controller keeps.                              *)
Age == [ ACT : Nat, RD : Nat, WR : Nat, PRE : Int ]

HistoryType ==
  /\ open \in [ Rank -> [ Bank -> BOOLEAN ] ]
  /\ age \in [ Rank -> [ Bank -> Age ] ]
  /\ busy \in [ Rank -> Nat ]

Rows ==
  /\ \A r \in Rank, b \in Bank :
       open[r][b] <=> state[r][b] \in { "ROW_ACTIVE", "ACTIVE_POWER_DOWN" }
  /\ acts = record
  /\ refreshed = [ r \in Rank |->
       IF forced_refresh_mode_on[r] THEN REFRESHES ELSE num_issued_refreshes[r] ]

(* The earliest times n of a bank and the ages a of the past commands of a *)
(* bank leave the time between commands that is demanded: of one bank, of  *)
(* one rank, and of two users of the data bus, gap apart.                  *)
BankSpaced(n, a) ==
  /\ n.act + a.ACT >= T_RC /\ n.act + a.PRE >= T_RP
  /\ n.read + a.ACT >= T_RCD /\ n.write + a.ACT >= T_RCD
  /\ n.pre + a.ACT >= T_RAS /\ n.pre + a.RD >= T_RTP /\ n.pre + a.WR >= WriteToPre
  /\ n.refresh + a.ACT >= T_RAS /\ n.refresh + a.RD >= T_RTP
  /\ n.refresh + a.WR >= WriteToPre /\ n.refresh + a.PRE >= T_RP

RankSpaced(n, a) ==
  /\ n.act + a.ACT >= T_RRD
  /\ n.read + a.RD >= T_CCD /\ n.write + a.WR >= T_CCD
  /\ n.read + a.WR >= T_CWD + T_DATA_TRANS + T_WTR

BusSpaced(n, a, gap) ==
  /\ n.read + a.RD >= T_DATA_TRANS + gap
  /\ n.write + a.RD >= T_CAS + T_DATA_TRANS + T_RTRS - T_CWD
  /\ n.write + a.WR >= T_DATA_TRANS + gap
  /\ n.read + a.WR >= T_CWD + T_DATA_TRANS + gap - T_CAS

Gap(i, r) == IF i = r THEN 0 ELSE T_RTRS

Spaced ==
  \A r, i \in Rank, b, j \in Bank :
    /\ BusSpaced(next[r][b], age[i][j], Gap(i, r))
    /\ i = r => RankSpaced(next[r][b], age[i][j])
    /\ i = r /\ j = b => BankSpaced(next[r][b], age[i][j])

(* A rank that is refreshed has its rows closed, and accepts nothing.      *)
BusySpaced ==
  \A r \in Rank, b \in Bank :
    /\ next[r][b].act >= busy[r] /\ next[r][b].pre >= busy[r] /\ next[r][b].refresh >= busy[r]
    /\ open[r][b] => busy[r] = 0

(* Time until the bank may be precharged, by its ages, is at most t.       *)
WithinTime(a, t) == T_RAS - a.ACT <= t /\ T_RTP - a.RD <= t /\ WriteToPre - a.WR <= t

(* Everything that keeps a rank from its missing refreshes is over when    *)
(* they have to begin: a past of the ages a in a bank, and a refresh.      *)
BankRoom(r, a) ==
  /\ WithinTime(a, Later(due[r], 0))
  /\ - a.PRE <= IssueDeadline(Window, 0)
  /\ due[r] >= 1 => - a.PRE <= IssueDeadline(left, num_issued_refreshes[r])

RankRoom(r, t) ==
  /\ due[r] >= 1 => t <= T_RP + IssueDeadline(left, num_issued_refreshes[r])
  /\ IF forced_refresh_mode_on[r] THEN t = left ELSE t <= T_RP + T_RFC

RoomForRefreshes ==
  \A r \in Rank : RankRoom(r, busy[r]) /\ \A b \in Bank : BankRoom(r, age[r][b])

HistoryInv == HistoryType /\ Rows /\ Spaced /\ BusySpaced /\ RoomForRefreshes
HInv == Inv /\ HistoryInv

-------------------------------------------------------------------------------
(* Biggest and LONG of DramProtocol.                                       *)
LEMMA BiggestIs ==
  ASSUME NEW S \in SUBSET Int, NEW m \in S, \A n \in S : n <= m
  PROVE  Protocol!Biggest(S) = m
<1>1. \A k \in S : (\A n \in S : n <= k) => k = m
  OBVIOUS
<1>. QED  BY <1>1 DEF Protocol!Biggest

LEMMA BiggestOfThree ==
  ASSUME NEW a \in Int, NEW b \in Int, NEW c \in Int
  PROVE  /\ Protocol!Biggest({ a, b, c }) \in { a, b, c }
         /\ Protocol!Biggest({ a, b, c }) >= a
         /\ Protocol!Biggest({ a, b, c }) >= b
         /\ Protocol!Biggest({ a, b, c }) >= c
<1>1. PICK m \in { a, b, c } : \A n \in { a, b, c } : n <= m
  <2>1. CASE a >= b /\ a >= c
    BY <2>1
  <2>2. CASE b >= a /\ b >= c
    BY <2>2
  <2>3. CASE c >= a /\ c >= b
    BY <2>3
  <2>. QED  BY <2>1, <2>2, <2>3
<1>2. Protocol!Biggest({ a, b, c }) = m
  BY <1>1, BiggestIs
<1>. QED  BY <1>1, <1>2

LEMMA BiggestOfTwo ==
  ASSUME NEW a \in Int, NEW b \in Int
  PROVE  /\ Protocol!Biggest({ a, b }) \in { a, b }
         /\ Protocol!Biggest({ a, b }) >= a
         /\ Protocol!Biggest({ a, b }) >= b
<1>1. { a, b } = { a, b, b }
  OBVIOUS
<1>. QED  BY <1>1, BiggestOfThree

LEMMA BiggestOfFour ==
  ASSUME NEW a \in Int, NEW b \in Int, NEW c \in Int, NEW d \in Int
  PROVE  /\ Protocol!Biggest({ a, b, c, d }) \in { a, b, c, d }
         /\ Protocol!Biggest({ a, b, c, d }) >= a
         /\ Protocol!Biggest({ a, b, c, d }) >= b
         /\ Protocol!Biggest({ a, b, c, d }) >= c
         /\ Protocol!Biggest({ a, b, c, d }) >= d
<1>1. PICK k \in { a, b, c } : k >= a /\ k >= b /\ k >= c
  BY BiggestOfThree
<1>2. PICK m \in { a, b, c, d } : \A n \in { a, b, c, d } : n <= m
  <2>1. CASE k >= d
    BY <1>1, <2>1
  <2>2. CASE d >= k
    BY <1>1, <2>2
  <2>. QED  BY <1>1, <2>1, <2>2
<1>3. Protocol!Biggest({ a, b, c, d }) = m
  BY <1>2, BiggestIs
<1>. QED  BY <1>2, <1>3

LEMMA LongAges ==
  /\ Protocol!LONG \in Age
  /\ Protocol!LONG.ACT = T_RC /\ Protocol!LONG.PRE = T_RP
  /\ Protocol!LONG.RD >= T_RTP /\ Protocol!LONG.RD >= T_CCD
  /\ Protocol!LONG.RD >= T_CAS + T_DATA_TRANS + T_RTRS - T_CWD
  /\ Protocol!LONG.RD >= T_DATA_TRANS + T_RTRS
  /\ Protocol!LONG.WR >= T_CCD /\ Protocol!LONG.WR >= WriteToPre
  /\ Protocol!LONG.WR >= T_CWD + T_DATA_TRANS + T_WTR
  /\ Protocol!LONG.WR >= T_CWD + T_DATA_TRANS + T_RTRS
<1>. DEFINE x == Protocol!Biggest({ T_RTP, T_CCD, T_CAS + T_DATA_TRANS + T_RTRS - T_CWD,
                                    T_DATA_TRANS + T_RTRS })
            y == Protocol!Biggest({ T_WR, T_WTR, T_RTRS })
            z == Protocol!Biggest({ T_CCD, T_CWD + T_DATA_TRANS + y })
<1>1. /\ x \in Int /\ x >= T_RTP /\ x >= T_CCD
      /\ x >= T_CAS + T_DATA_TRANS + T_RTRS - T_CWD /\ x >= T_DATA_TRANS + T_RTRS
  <2>1. T_RTP \in Int /\ T_CCD \in Int /\ T_CAS + T_DATA_TRANS + T_RTRS - T_CWD \in Int
        /\ T_DATA_TRANS + T_RTRS \in Int
    BY Times
  <2>2. /\ x \in { T_RTP, T_CCD, T_CAS + T_DATA_TRANS + T_RTRS - T_CWD, T_DATA_TRANS + T_RTRS }
        /\ x >= T_RTP /\ x >= T_CCD
        /\ x >= T_CAS + T_DATA_TRANS + T_RTRS - T_CWD /\ x >= T_DATA_TRANS + T_RTRS
    BY <2>1, BiggestOfFour, Zenon
  <2>. HIDE DEF x
  <2>. QED  BY <2>1, <2>2
<1>2. y \in Nat /\ y >= T_WR /\ y >= T_WTR /\ y >= T_RTRS
  <2>1. T_WR \in Int /\ T_WTR \in Int /\ T_RTRS \in Int
    BY Times
  <2>2. y \in { T_WR, T_WTR, T_RTRS } /\ y >= T_WR /\ y >= T_WTR /\ y >= T_RTRS
    BY <2>1, BiggestOfThree, Zenon
  <2>. HIDE DEF y
  <2>. QED  BY <2>2, Times
<1>. HIDE DEF y
<1>3. z \in Int /\ z >= T_CCD /\ z >= T_CWD + T_DATA_TRANS + y
  <2>1. T_CCD \in Int /\ T_CWD + T_DATA_TRANS + y \in Int
    BY <1>2, Times
  <2>2. /\ z \in { T_CCD, T_CWD + T_DATA_TRANS + y }
        /\ z >= T_CCD /\ z >= T_CWD + T_DATA_TRANS + y
    BY <2>1, BiggestOfTwo, Zenon
  <2>. HIDE DEF z
  <2>. QED  BY <2>1, <2>2
<1>4. Protocol!LONG = [ ACT |-> T_RC, RD |-> x, WR |-> z, PRE |-> T_RP ]
  BY Zenon DEF Protocol!LONG, x, y, z
<1>. HIDE DEF x, z
<1>5. x \in Nat /\ z \in Nat
  BY <1>1, <1>2, <1>3, Times
<1>6. Protocol!LONG \in Age
  BY <1>4, <1>5, Times DEF Age
<1>7. /\ Protocol!LONG.ACT = T_RC /\ Protocol!LONG.RD = x
      /\ Protocol!LONG.WR = z /\ Protocol!LONG.PRE = T_RP
  BY <1>4
<1>. QED  BY <1>1, <1>2, <1>3, <1>5, <1>6, <1>7, Times DEF WriteToPre

(* An age after a cycle: it grows, or restricts nothing any more.          *)
LEMMA OlderAges ==
  ASSUME NEW a \in Age
  PROVE  /\ Protocol!Older(a) \in Age
         /\ \/ Protocol!Older(a).ACT = a.ACT + 1
            \/ Protocol!Older(a).ACT = a.ACT /\ a.ACT >= Protocol!LONG.ACT
         /\ \/ Protocol!Older(a).RD = a.RD + 1
            \/ Protocol!Older(a).RD = a.RD /\ a.RD >= Protocol!LONG.RD
         /\ \/ Protocol!Older(a).WR = a.WR + 1
            \/ Protocol!Older(a).WR = a.WR /\ a.WR >= Protocol!LONG.WR
         /\ \/ Protocol!Older(a).PRE = a.PRE + 1
            \/ Protocol!Older(a).PRE = a.PRE /\ a.PRE >= Protocol!LONG.PRE
<1>. DEFINE L == Protocol!LONG
<1>1. L \in Age
  BY LongAges
<1>2. Protocol!Older(a) = [ c \in DOMAIN a |-> IF a[c] < L[c] THEN a[c] + 1 ELSE a[c] ]
  BY DEF Protocol!Older
<1>. HIDE DEF L
<1>3. DOMAIN a = { "ACT", "RD", "WR", "PRE" }
  BY DEF Age
<1>4. /\ a.ACT \in Nat /\ a.RD \in Nat /\ a.WR \in Nat /\ a.PRE \in Int
      /\ L.ACT \in Nat /\ L.RD \in Nat /\ L.WR \in Nat /\ L.PRE \in Int
  BY <1>1 DEF Age
<1>5. Protocol!Older(a) =
        [ ACT |-> IF a.ACT < L.ACT THEN a.ACT + 1 ELSE a.ACT,
          RD |-> IF a.RD < L.RD THEN a.RD + 1 ELSE a.RD,
          WR |-> IF a.WR < L.WR THEN a.WR + 1 ELSE a.WR,
          PRE |-> IF a.PRE < L.PRE THEN a.PRE + 1 ELSE a.PRE ]
  BY <1>2, <1>3
<1>6. Protocol!Older(a) \in Age
  BY <1>4, <1>5 DEF Age
<1>. QED  BY <1>4, <1>5, <1>6 DEF L

-------------------------------------------------------------------------------
(* Times that do not come nearer keep what is spaced, and so does a cycle:  *)
(* a time comes nearer by 1 when all ages grow by 1 or restrict nothing.   *)
LEMMA KindTimes ==
  ASSUME NEW n \in [ Kind -> Nat ]
  PROVE  n.act \in Nat /\ n.pre \in Nat /\ n.read \in Nat /\ n.write \in Nat /\ n.refresh \in Nat
BY DEF Kind

LEMMA SpacedGrows ==
  ASSUME NEW n \in [ Kind -> Nat ], NEW m \in [ Kind -> Nat ], NEW a \in Age, NEW gap \in Nat,
         \A c \in Kind : m[c] >= n[c]
  PROVE  /\ BusSpaced(n, a, gap) => BusSpaced(m, a, gap)
         /\ RankSpaced(n, a) => RankSpaced(m, a)
         /\ BankSpaced(n, a) => BankSpaced(m, a)
<1>1. /\ m.act >= n.act /\ m.pre >= n.pre /\ m.read >= n.read /\ m.write >= n.write
      /\ m.refresh >= n.refresh
  BY DEF Kind
<1>2. a.ACT \in Nat /\ a.RD \in Nat /\ a.WR \in Nat /\ a.PRE \in Int
  BY DEF Age
<1>3. /\ n.act \in Nat /\ n.pre \in Nat /\ n.read \in Nat /\ n.write \in Nat /\ n.refresh \in Nat
      /\ m.act \in Nat /\ m.pre \in Nat /\ m.read \in Nat /\ m.write \in Nat /\ m.refresh \in Nat
  BY KindTimes
<1>4. WriteToPre \in Nat
  BY Times DEF WriteToPre
<1>5. BusSpaced(n, a, gap) => BusSpaced(m, a, gap)
  BY <1>1, <1>2, <1>3, Times DEF BusSpaced
<1>6. RankSpaced(n, a) => RankSpaced(m, a)
  BY <1>1, <1>2, <1>3, Times DEF RankSpaced
<1>7. BankSpaced(n, a) => BankSpaced(m, a)
  BY <1>1, <1>2, <1>3, <1>4, Times DEF BankSpaced
<1>. QED  BY <1>5, <1>6, <1>7

LEMMA SpacedOlder ==
  ASSUME NEW n \in [ Kind -> Nat ], NEW m \in [ Kind -> Nat ], NEW a \in Age, NEW gap \in { 0, T_RTRS },
         \A c \in Kind : m[c] >= n[c] - 1
  PROVE  /\ BusSpaced(n, a, gap) => BusSpaced(m, Protocol!Older(a), gap)
         /\ RankSpaced(n, a) => RankSpaced(m, Protocol!Older(a))
         /\ BankSpaced(n, a) => BankSpaced(m, Protocol!Older(a))
<1>. DEFINE o == Protocol!Older(a)
            L == Protocol!LONG
<1>1. /\ m.act >= n.act - 1 /\ m.pre >= n.pre - 1 /\ m.read >= n.read - 1
      /\ m.write >= n.write - 1 /\ m.refresh >= n.refresh - 1
  BY DEF Kind
<1>2. /\ L \in Age /\ L.ACT = T_RC /\ L.PRE = T_RP
      /\ L.RD >= T_RTP /\ L.RD >= T_CCD /\ L.RD >= T_CAS + T_DATA_TRANS + T_RTRS - T_CWD
      /\ L.RD >= T_DATA_TRANS + T_RTRS
      /\ L.WR >= T_CCD /\ L.WR >= WriteToPre /\ L.WR >= T_CWD + T_DATA_TRANS + T_WTR
      /\ L.WR >= T_CWD + T_DATA_TRANS + T_RTRS
  BY LongAges
<1>3. /\ o \in Age
      /\ o.ACT = a.ACT + 1 \/ (o.ACT = a.ACT /\ a.ACT >= L.ACT)
      /\ o.RD = a.RD + 1 \/ (o.RD = a.RD /\ a.RD >= L.RD)
      /\ o.WR = a.WR + 1 \/ (o.WR = a.WR /\ a.WR >= L.WR)
      /\ o.PRE = a.PRE + 1 \/ (o.PRE = a.PRE /\ a.PRE >= L.PRE)
  BY OlderAges
<1>. HIDE DEF o, L
<1>4. /\ a.ACT \in Nat /\ a.RD \in Nat /\ a.WR \in Nat /\ a.PRE \in Int
      /\ o.ACT \in Nat /\ o.RD \in Nat /\ o.WR \in Nat /\ o.PRE \in Int
      /\ L.ACT \in Nat /\ L.RD \in Nat /\ L.WR \in Nat /\ L.PRE \in Int
  BY <1>2, <1>3 DEF Age
<1>5. /\ n.act \in Nat /\ n.pre \in Nat /\ n.read \in Nat /\ n.write \in Nat /\ n.refresh \in Nat
      /\ m.act \in Nat /\ m.pre \in Nat /\ m.read \in Nat /\ m.write \in Nat /\ m.refresh \in Nat
  BY KindTimes
<1>6. WriteToPre \in Nat
  BY Times DEF WriteToPre
<1>7. /\ T_RAS <= T_RC /\ T_RCD <= T_RC /\ T_RRD <= T_RC
  BY TimingAssumption, Times
<1>8. ASSUME BusSpaced(n, a, gap) PROVE BusSpaced(m, o, gap)
  <2>1. gap \in Nat /\ gap <= T_RTRS
    BY Times
  <2>2. /\ n.read + a.RD >= T_DATA_TRANS + gap
        /\ n.write + a.RD >= T_CAS + T_DATA_TRANS + T_RTRS - T_CWD
        /\ n.write + a.WR >= T_DATA_TRANS + gap
        /\ n.read + a.WR >= T_CWD + T_DATA_TRANS + gap - T_CAS
    BY <1>8 DEF BusSpaced
  <2>3. m.read + o.RD >= T_DATA_TRANS + gap
    BY <1>1, <1>2, <1>3, <1>4, <1>5, <2>1, <2>2, Times
  <2>4. m.write + o.RD >= T_CAS + T_DATA_TRANS + T_RTRS - T_CWD
    BY <1>1, <1>2, <1>3, <1>4, <1>5, <2>1, <2>2, Times
  <2>5. m.write + o.WR >= T_DATA_TRANS + gap
    BY <1>1, <1>2, <1>3, <1>4, <1>5, <2>1, <2>2, Times
  <2>6. m.read + o.WR >= T_CWD + T_DATA_TRANS + gap - T_CAS
    BY <1>1, <1>2, <1>3, <1>4, <1>5, <2>1, <2>2, Times
  <2>. QED  BY <2>3, <2>4, <2>5, <2>6 DEF BusSpaced
<1>9. ASSUME RankSpaced(n, a) PROVE RankSpaced(m, o)
  <2>1. m.act + o.ACT >= T_RRD
    BY <1>1, <1>2, <1>3, <1>4, <1>5, <1>7, <1>9, Times DEF RankSpaced
  <2>2. m.read + o.RD >= T_CCD
    BY <1>1, <1>2, <1>3, <1>4, <1>5, <1>9, Times DEF RankSpaced
  <2>3. m.write + o.WR >= T_CCD /\ m.read + o.WR >= T_CWD + T_DATA_TRANS + T_WTR
    BY <1>1, <1>2, <1>3, <1>4, <1>5, <1>9, Times DEF RankSpaced
  <2>. QED  BY <2>1, <2>2, <2>3 DEF RankSpaced
<1>10. ASSUME BankSpaced(n, a) PROVE BankSpaced(m, o)
  <2>1. m.act + o.ACT >= T_RC /\ m.act + o.PRE >= T_RP
    BY <1>1, <1>2, <1>3, <1>4, <1>5, <1>10, Times DEF BankSpaced
  <2>2. m.read + o.ACT >= T_RCD /\ m.write + o.ACT >= T_RCD
    BY <1>1, <1>2, <1>3, <1>4, <1>5, <1>7, <1>10, Times DEF BankSpaced
  <2>3. m.pre + o.ACT >= T_RAS /\ m.refresh + o.ACT >= T_RAS
    BY <1>1, <1>2, <1>3, <1>4, <1>5, <1>7, <1>10, Times DEF BankSpaced
  <2>4. m.pre + o.RD >= T_RTP /\ m.refresh + o.RD >= T_RTP
    BY <1>1, <1>2, <1>3, <1>4, <1>5, <1>10, Times DEF BankSpaced
  <2>5. m.pre + o.WR >= WriteToPre /\ m.refresh + o.WR >= WriteToPre
    BY <1>1, <1>2, <1>3, <1>4, <1>5, <1>6, <1>10 DEF BankSpaced
  <2>6. m.refresh + o.PRE >= T_RP
    BY <1>1, <1>2, <1>3, <1>4, <1>5, <1>10, Times DEF BankSpaced
  <2>. QED  BY <2>1, <2>2, <2>3, <2>4, <2>5, <2>6 DEF BankSpaced
<1>. QED  BY <1>8, <1>9, <1>10 DEF o

-------------------------------------------------------------------------------
(* A command of age 0 in the place of the last one: what is spaced is what  *)
(* the command demands of the times.                                       *)
LEMMA ActStamped ==
  ASSUME NEW n \in [ Kind -> Nat ], NEW a \in Age, NEW gap \in Nat
  PROVE  LET x == [ a EXCEPT !.ACT = 0 ]
         IN  /\ BusSpaced(n, a, gap) => BusSpaced(n, x, gap)
             /\ RankSpaced(n, a) /\ n.act >= T_RRD => RankSpaced(n, x)
             /\ /\ BankSpaced(n, a) /\ n.act >= T_RC /\ n.read >= T_RCD /\ n.write >= T_RCD
                /\ n.pre >= T_RAS /\ n.refresh >= T_RAS
                => BankSpaced(n, x)
<1>. DEFINE x == [ a EXCEPT !.ACT = 0 ]
<1>1. x.ACT = 0 /\ x.RD = a.RD /\ x.WR = a.WR /\ x.PRE = a.PRE
  BY DEF Age
<1>2. n.act \in Nat /\ n.pre \in Nat /\ n.read \in Nat /\ n.write \in Nat /\ n.refresh \in Nat
  BY KindTimes
<1>. HIDE DEF x
<1>3. BusSpaced(n, a, gap) => BusSpaced(n, x, gap)
  BY <1>1 DEF BusSpaced
<1>4. RankSpaced(n, a) /\ n.act >= T_RRD => RankSpaced(n, x)
  BY <1>1, <1>2, Times DEF RankSpaced
<1>5. /\ BankSpaced(n, a) /\ n.act >= T_RC /\ n.read >= T_RCD /\ n.write >= T_RCD
      /\ n.pre >= T_RAS /\ n.refresh >= T_RAS
      => BankSpaced(n, x)
  BY <1>1, <1>2, Times DEF BankSpaced
<1>. QED  BY <1>3, <1>4, <1>5 DEF x

LEMMA ReadStamped ==
  ASSUME NEW n \in [ Kind -> Nat ], NEW a \in Age, NEW gap \in Nat
  PROVE  LET x == [ a EXCEPT !.RD = 0 ]
         IN  /\ /\ BusSpaced(n, a, gap) /\ n.read >= T_DATA_TRANS + gap
                /\ n.write >= T_CAS + T_DATA_TRANS + T_RTRS - T_CWD
                => BusSpaced(n, x, gap)
             /\ RankSpaced(n, a) /\ n.read >= T_CCD => RankSpaced(n, x)
             /\ BankSpaced(n, a) /\ n.pre >= T_RTP /\ n.refresh >= T_RTP => BankSpaced(n, x)
<1>. DEFINE x == [ a EXCEPT !.RD = 0 ]
<1>1. x.ACT = a.ACT /\ x.RD = 0 /\ x.WR = a.WR /\ x.PRE = a.PRE
  BY DEF Age
<1>2. n.act \in Nat /\ n.pre \in Nat /\ n.read \in Nat /\ n.write \in Nat /\ n.refresh \in Nat
  BY KindTimes
<1>. HIDE DEF x
<1>3. /\ BusSpaced(n, a, gap) /\ n.read >= T_DATA_TRANS + gap
      /\ n.write >= T_CAS + T_DATA_TRANS + T_RTRS - T_CWD
      => BusSpaced(n, x, gap)
  BY <1>1, <1>2, Times DEF BusSpaced
<1>4. RankSpaced(n, a) /\ n.read >= T_CCD => RankSpaced(n, x)
  BY <1>1, <1>2, Times DEF RankSpaced
<1>5. BankSpaced(n, a) /\ n.pre >= T_RTP /\ n.refresh >= T_RTP => BankSpaced(n, x)
  BY <1>1, <1>2, Times DEF BankSpaced
<1>. QED  BY <1>3, <1>4, <1>5 DEF x

LEMMA WriteStamped ==
  ASSUME NEW n \in [ Kind -> Nat ], NEW a \in Age, NEW gap \in Nat
  PROVE  LET x == [ a EXCEPT !.WR = 0 ]
         IN  /\ /\ BusSpaced(n, a, gap) /\ n.write >= T_DATA_TRANS + gap
                /\ n.read >= T_CWD + T_DATA_TRANS + gap - T_CAS
                => BusSpaced(n, x, gap)
             /\ /\ RankSpaced(n, a) /\ n.write >= T_CCD
                /\ n.read >= T_CWD + T_DATA_TRANS + T_WTR
                => RankSpaced(n, x)
             /\ /\ BankSpaced(n, a) /\ n.pre >= WriteToPre /\ n.refresh >= WriteToPre
                => BankSpaced(n, x)
<1>. DEFINE x == [ a EXCEPT !.WR = 0 ]
<1>1. x.ACT = a.ACT /\ x.RD = a.RD /\ x.WR = 0 /\ x.PRE = a.PRE
  BY DEF Age
<1>2. n.act \in Nat /\ n.pre \in Nat /\ n.read \in Nat /\ n.write \in Nat /\ n.refresh \in Nat
  BY KindTimes
<1>. HIDE DEF x
<1>3. /\ BusSpaced(n, a, gap) /\ n.write >= T_DATA_TRANS + gap
      /\ n.read >= T_CWD + T_DATA_TRANS + gap - T_CAS
      => BusSpaced(n, x, gap)
  BY <1>1, <1>2, Times DEF BusSpaced
<1>4. /\ RankSpaced(n, a) /\ n.write >= T_CCD
      /\ n.read >= T_CWD + T_DATA_TRANS + T_WTR
      => RankSpaced(n, x)
  BY <1>1, <1>2, Times DEF RankSpaced
<1>5. /\ BankSpaced(n, a) /\ n.pre >= WriteToPre /\ n.refresh >= WriteToPre
      => BankSpaced(n, x)
  BY <1>1, <1>2, Times DEF BankSpaced, WriteToPre
<1>. QED  BY <1>3, <1>4, <1>5 DEF x

LEMMA PreStamped ==
  ASSUME NEW n \in [ Kind -> Nat ], NEW a \in Age, NEW gap \in Nat, NEW t \in Int
  PROVE  LET x == [ a EXCEPT !.PRE = t ]
         IN  /\ BusSpaced(n, a, gap) => BusSpaced(n, x, gap)
             /\ RankSpaced(n, a) => RankSpaced(n, x)
             /\ BankSpaced(n, a) /\ n.act + t >= T_RP /\ n.refresh + t >= T_RP => BankSpaced(n, x)
<1>. DEFINE x == [ a EXCEPT !.PRE = t ]
<1>1. x.ACT = a.ACT /\ x.RD = a.RD /\ x.WR = a.WR /\ x.PRE = t
  BY DEF Age
<1>. HIDE DEF x
<1>. QED  BY <1>1 DEF BusSpaced, RankSpaced, BankSpaced, x

-------------------------------------------------------------------------------
(* What DramProtocol makes of a command.                                   *)
LEMMA ActEffect ==
  ASSUME HistoryType, NEW r \in Rank, NEW b \in Bank,
         command' = [ op |-> "ACT", r |-> r, b |-> b ], Protocol!Effect(command')
  PROVE  /\ HistoryType'
         /\ \A i \in Rank, j \in Bank :
              /\ open'[i][j] <=> (i = r /\ j = b) \/ open[i][j]
              /\ age'[i][j] = IF i = r /\ j = b THEN [ age[i][j] EXCEPT !.ACT = 0 ] ELSE age[i][j]
         /\ acts' = [ acts EXCEPT ![r] = @ \cup { 0 } ]
         /\ busy' = busy /\ refreshed' = refreshed
<1>1. /\ open' = [ open EXCEPT ![r][b] = TRUE ]
      /\ acts' = [ acts EXCEPT ![r] = @ \cup { 0 } ] /\ busy' = busy /\ refreshed' = refreshed
  BY DEF Protocol!Effect
<1>2. age' = [ age EXCEPT ![r] = [ j \in Bank |->
                 IF j \in { b } THEN [ @[j] EXCEPT !["ACT"] = 0 ] ELSE @[j] ] ]
  BY DEF Protocol!Effect, Protocol!Stamp, Protocol!Bank, Bank
<1>3. \A a \in Age : [ a EXCEPT !["ACT"] = 0 ] \in Age
  BY DEF Age
<1>4. \A i \in Rank, j \in Bank :
        /\ open'[i][j] <=> (i = r /\ j = b) \/ open[i][j]
        /\ age'[i][j] = IF i = r /\ j = b THEN [ age[i][j] EXCEPT !.ACT = 0 ] ELSE age[i][j]
  BY <1>1, <1>2 DEF HistoryType
<1>5. age' \in [ Rank -> [ Bank -> Age ] ]
  BY <1>2, <1>3 DEF HistoryType
<1>6. open' \in [ Rank -> [ Bank -> BOOLEAN ] ]
  BY <1>1 DEF HistoryType
<1>. QED  BY <1>1, <1>4, <1>5, <1>6 DEF HistoryType

LEMMA ColumnEffect ==
  ASSUME HistoryType, NEW r \in Rank, NEW b \in Bank, NEW p \in { "RD", "WR" },
         command' = [ op |-> p, r |-> r, b |-> b ], Protocol!Effect(command')
  PROVE  /\ HistoryType'
         /\ \A i \in Rank, j \in Bank :
              age'[i][j] = IF i = r /\ j = b THEN [ age[i][j] EXCEPT ![p] = 0 ] ELSE age[i][j]
         /\ open' = open /\ acts' = acts /\ busy' = busy /\ refreshed' = refreshed
<1>1. open' = open /\ acts' = acts /\ busy' = busy /\ refreshed' = refreshed
  BY DEF Protocol!Effect
<1>2. age' = [ age EXCEPT ![r] = [ j \in Bank |->
                 IF j \in { b } THEN [ @[j] EXCEPT ![p] = 0 ] ELSE @[j] ] ]
  BY DEF Protocol!Effect, Protocol!Stamp, Protocol!Bank, Bank
<1>3. \A a \in Age : [ a EXCEPT ![p] = 0 ] \in Age
  BY DEF Age
<1>4. \A i \in Rank, j \in Bank :
        age'[i][j] = IF i = r /\ j = b THEN [ age[i][j] EXCEPT ![p] = 0 ] ELSE age[i][j]
  BY <1>2 DEF HistoryType
<1>5. age' \in [ Rank -> [ Bank -> Age ] ]
  BY <1>2, <1>3 DEF HistoryType
<1>. QED  BY <1>1, <1>4, <1>5 DEF HistoryType

LEMMA PrechargeEffect ==
  ASSUME HistoryType, NEW r \in Rank, NEW b \in Bank,
         command' = [ op |-> "PRE", r |-> r, b |-> b ], Protocol!Effect(command')
  PROVE  /\ HistoryType'
         /\ \A i \in Rank, j \in Bank :
              /\ open'[i][j] <=> ~(i = r /\ j = b) /\ open[i][j]
              /\ age'[i][j] = IF i = r /\ j = b THEN [ age[i][j] EXCEPT !.PRE = 0 ] ELSE age[i][j]
         /\ acts' = acts /\ busy' = busy /\ refreshed' = refreshed
<1>1. /\ open' = [ open EXCEPT ![r] = [ j \in Bank |-> j \notin { b } /\ @[j] ] ]
      /\ acts' = acts /\ busy' = busy /\ refreshed' = refreshed
  BY DEF Protocol!Effect, Protocol!CloseAll, Protocol!Bank, Bank
<1>2. age' = [ age EXCEPT ![r] = [ j \in Bank |->
                 IF j \in { b } THEN [ @[j] EXCEPT !["PRE"] = 0 ] ELSE @[j] ] ]
  BY DEF Protocol!Effect, Protocol!Stamp, Protocol!Bank, Bank
<1>3. \A a \in Age : [ a EXCEPT !["PRE"] = 0 ] \in Age
  BY DEF Age
<1>4. \A i \in Rank, j \in Bank :
        /\ open'[i][j] <=> ~(i = r /\ j = b) /\ open[i][j]
        /\ age'[i][j] = IF i = r /\ j = b THEN [ age[i][j] EXCEPT !.PRE = 0 ] ELSE age[i][j]
  BY <1>1, <1>2 DEF HistoryType
<1>5. age' \in [ Rank -> [ Bank -> Age ] ]
  BY <1>2, <1>3 DEF HistoryType
<1>6. open' \in [ Rank -> [ Bank -> BOOLEAN ] ]
  BY <1>1 DEF HistoryType
<1>. QED  BY <1>1, <1>4, <1>5, <1>6 DEF HistoryType

LEMMA UntilPreIs ==
  ASSUME HistoryType, NEW r \in Rank, NEW b \in Bank
  PROVE  /\ Protocol!UntilPre(r, b) \in Nat
         /\ \A t \in Nat : Protocol!UntilPre(r, b) <= t <=> WithinTime(age[r][b], t)
<1>. DEFINE a == age[r][b]
            S == { 0, T_RAS - a.ACT, T_RTP - a.RD, T_CWD + T_DATA_TRANS + T_WR - a.WR }
            u == Protocol!Biggest(S)
<1>1. Protocol!UntilPre(r, b) = u
  BY DEF Protocol!UntilPre
<1>2. a.ACT \in Nat /\ a.RD \in Nat /\ a.WR \in Nat
  BY DEF HistoryType, Age
<1>. HIDE DEF a
<1>3. /\ 0 \in Int /\ T_RAS - a.ACT \in Int /\ T_RTP - a.RD \in Int
      /\ T_CWD + T_DATA_TRANS + T_WR - a.WR \in Int
  BY <1>2, Times
<1>4. /\ u \in S /\ u >= 0 /\ u >= T_RAS - a.ACT /\ u >= T_RTP - a.RD
      /\ u >= T_CWD + T_DATA_TRANS + T_WR - a.WR
  BY <1>3, BiggestOfFour, Zenon
<1>. HIDE DEF u
<1>5. u \in Nat
  BY <1>3, <1>4
<1>6. \A t \in Nat : u <= t <=> WithinTime(a, t)
  BY <1>2, <1>3, <1>4, <1>5, Times DEF WithinTime, WriteToPre
<1>. QED  BY <1>1, <1>5, <1>6 DEF a

LEMMA AutoEffect ==
  ASSUME HistoryType, NEW r \in Rank, NEW b \in Bank,
         command' = [ op |-> "AUTO", r |-> r, b |-> b ], Protocol!Effect(command')
  PROVE  /\ HistoryType'
         /\ \A i \in Rank, j \in Bank :
              /\ open'[i][j] <=> ~(i = r /\ j = b) /\ open[i][j]
              /\ age'[i][j] = IF i = r /\ j = b
                              THEN [ age[i][j] EXCEPT !.PRE = - Protocol!UntilPre(r, b) ]
                              ELSE age[i][j]
         /\ acts' = acts /\ busy' = busy /\ refreshed' = refreshed
<1>1. /\ open' = [ open EXCEPT ![r] = [ j \in Bank |-> j \notin { b } /\ @[j] ] ]
      /\ acts' = acts /\ busy' = busy /\ refreshed' = refreshed
  BY DEF Protocol!Effect, Protocol!CloseAll, Protocol!Bank, Bank
<1>. DEFINE u(j) == - Protocol!UntilPre(r, j)
<1>2. age' = [ age EXCEPT ![r] = [ j \in Bank |->
                 IF j \in { b } THEN [ @[j] EXCEPT !["PRE"] = u(j) ] ELSE @[j] ] ]
  BY DEF Protocol!Effect, Protocol!Stamp, Protocol!Bank, Bank
<1>3. \A j \in Bank : u(j) \in Int
  BY UntilPreIs
<1>. HIDE DEF u
<1>4. \A a \in Age, j \in Bank : [ a EXCEPT !["PRE"] = u(j) ] \in Age
  BY <1>3 DEF Age
<1>5. \A i \in Rank, j \in Bank :
        /\ open'[i][j] <=> ~(i = r /\ j = b) /\ open[i][j]
        /\ age'[i][j] = IF i = r /\ j = b THEN [ age[i][j] EXCEPT !.PRE = u(b) ] ELSE age[i][j]
  BY <1>1, <1>2 DEF HistoryType
<1>6. age' \in [ Rank -> [ Bank -> Age ] ]
  BY <1>2, <1>4 DEF HistoryType
<1>7. open' \in [ Rank -> [ Bank -> BOOLEAN ] ]
  BY <1>1 DEF HistoryType
<1>. QED  BY <1>1, <1>5, <1>6, <1>7 DEF HistoryType, u

LEMMA PrechargeAllEffect ==
  ASSUME HistoryType, NEW r \in Rank, NEW b \in Bank,
         command' = [ op |-> "PREA", r |-> r, b |-> b ], Protocol!Effect(command')
  PROVE  /\ HistoryType'
         /\ \A i \in Rank, j \in Bank :
              /\ open'[i][j] <=> i # r /\ open[i][j]
              /\ age'[i][j] = IF i = r THEN [ age[i][j] EXCEPT !.PRE = 0 ] ELSE age[i][j]
         /\ acts' = acts /\ busy' = busy /\ refreshed' = refreshed
<1>1. /\ open' = [ open EXCEPT ![r] = [ j \in Bank |-> j \notin Bank /\ @[j] ] ]
      /\ acts' = acts /\ busy' = busy /\ refreshed' = refreshed
  BY DEF Protocol!Effect, Protocol!CloseAll, Protocol!Bank, Bank
<1>2. age' = [ age EXCEPT ![r] = [ j \in Bank |->
                 IF j \in Bank THEN [ @[j] EXCEPT !["PRE"] = 0 ] ELSE @[j] ] ]
  BY DEF Protocol!Effect, Protocol!Stamp, Protocol!Bank, Bank
<1>3. \A a \in Age : [ a EXCEPT !["PRE"] = 0 ] \in Age
  BY DEF Age
<1>4. \A i \in Rank, j \in Bank :
        /\ open'[i][j] <=> i # r /\ open[i][j]
        /\ age'[i][j] = IF i = r THEN [ age[i][j] EXCEPT !.PRE = 0 ] ELSE age[i][j]
  BY <1>1, <1>2 DEF HistoryType
<1>5. age' \in [ Rank -> [ Bank -> Age ] ]
  BY <1>2, <1>3 DEF HistoryType
<1>6. open' \in [ Rank -> [ Bank -> BOOLEAN ] ]
  BY <1>1 DEF HistoryType
<1>. QED  BY <1>1, <1>4, <1>5, <1>6 DEF HistoryType

LEMMA RefreshEffect ==
  ASSUME HistoryType, NEW r \in Rank, NEW b \in Bank,
         command' = [ op |-> "REF", r |-> r, b |-> b ], Protocol!Effect(command')
  PROVE  /\ HistoryType'
         /\ \A i \in Rank, j \in Bank : open'[i][j] <=> i # r /\ open[i][j]
         /\ \A i \in Rank :
              busy'[i] = IF i = r THEN (IF \E j \in Bank : open[r][j] THEN T_RP ELSE 0) + T_RFC
                                  ELSE busy[i]
         /\ age' = age /\ acts' = acts /\ refreshed' = [ refreshed EXCEPT ![r] = @ + 1 ]
<1>1. /\ open' = [ open EXCEPT ![r] = [ j \in Bank |-> j \notin Bank /\ @[j] ] ]
      /\ acts' = acts /\ age' = age /\ refreshed' = [ refreshed EXCEPT ![r] = @ + 1 ]
      /\ busy' = [ busy EXCEPT ![r] = (IF \E j \in Bank : open[r][j] THEN T_RP ELSE 0) + T_RFC ]
  BY DEF Protocol!Effect, Protocol!CloseAll, Protocol!Bank, Bank
<1>2. (IF \E j \in Bank : open[r][j] THEN T_RP ELSE 0) + T_RFC \in Nat
  BY Times
<1>3. busy' \in [ Rank -> Nat ]
  BY <1>1, <1>2 DEF HistoryType
<1>4. open' \in [ Rank -> [ Bank -> BOOLEAN ] ]
  BY <1>1 DEF HistoryType
<1>5. \A i \in Rank, j \in Bank : open'[i][j] <=> i # r /\ open[i][j]
  BY <1>1 DEF HistoryType
<1>6. \A i \in Rank :
        busy'[i] = IF i = r THEN (IF \E j \in Bank : open[r][j] THEN T_RP ELSE 0) + T_RFC
                            ELSE busy[i]
  BY <1>1 DEF HistoryType
<1>. QED  BY <1>1, <1>3, <1>4, <1>5, <1>6 DEF HistoryType

LEMMA SleepEffect ==
  ASSUME NEW r \in Rank, NEW b \in Bank, NEW op \in { "PUP", "PUPR", "PDF", "PDS" },
         command' = [ op |-> op, r |-> r, b |-> b ], Protocol!Effect(command')
  PROVE  UNCHANGED history
BY DEF Protocol!Effect, history

-------------------------------------------------------------------------------
(* What every command keeps of the spacing.                                *)
LEMMA SpacedKept ==
  ASSUME NextType, HistoryType, Spaced, Grown, NEW r \in Rank, NEW b \in Bank,
         NEW i \in Rank, NEW j \in Bank
  PROVE  /\ next'[r][b] \in [ Kind -> Nat ] /\ age[i][j] \in Age /\ Gap(i, r) \in Nat
         /\ BusSpaced(next'[r][b], age[i][j], Gap(i, r))
         /\ i = r => RankSpaced(next'[r][b], age[i][j])
         /\ i = r /\ j = b => BankSpaced(next'[r][b], age[i][j])
<1>1. next'[r][b] \in [ Kind -> Nat ] /\ next[r][b] \in [ Kind -> Nat ]
      /\ age[i][j] \in Age /\ Gap(i, r) \in Nat
  BY Times DEF NextType, Grown, HistoryType, Gap
<1>2. \A c \in Kind : next'[r][b][c] >= next[r][b][c]
  BY DEF Grown
<1>3. /\ BusSpaced(next[r][b], age[i][j], Gap(i, r))
      /\ i = r => RankSpaced(next[r][b], age[i][j])
      /\ i = r /\ j = b => BankSpaced(next[r][b], age[i][j])
  BY DEF Spaced
<1>. QED  BY <1>1, <1>2, <1>3, SpacedGrows

LEMMA BusyKept ==
  ASSUME NextType, HistoryType, BusySpaced, Grown, busy' = busy,
         \A r \in Rank, b \in Bank : open'[r][b] => open[r][b] \/ busy[r] = 0
  PROVE  BusySpaced'
<1>. SUFFICES ASSUME NEW r \in Rank, NEW b \in Bank
     PROVE  /\ next'[r][b].act >= busy[r] /\ next'[r][b].pre >= busy[r]
            /\ next'[r][b].refresh >= busy[r]
            /\ open'[r][b] => busy[r] = 0
  BY DEF BusySpaced
<1>1. /\ next'[r][b].act >= next[r][b].act /\ next'[r][b].pre >= next[r][b].pre
      /\ next'[r][b].refresh >= next[r][b].refresh
  BY DEF Grown, Kind
<1>2. /\ next[r][b].act \in Nat /\ next[r][b].pre \in Nat /\ next[r][b].refresh \in Nat
      /\ next'[r][b].act \in Nat /\ next'[r][b].pre \in Nat /\ next'[r][b].refresh \in Nat
      /\ busy[r] \in Nat
  BY DEF Grown, NextType, Kind, HistoryType
<1>3. /\ next[r][b].act >= busy[r] /\ next[r][b].pre >= busy[r]
      /\ next[r][b].refresh >= busy[r]
      /\ open[r][b] => busy[r] = 0
  BY DEF BusySpaced
<1>. QED  BY <1>1, <1>2, <1>3

LEMMA RoomKept ==
  ASSUME RoomForRefreshes, UNCHANGED window, busy' = busy,
         \A r \in Rank, b \in Bank : BankRoom(r, age'[r][b])
  PROVE  RoomForRefreshes'
<1>1. \A r \in Rank : RankRoom(r, busy[r])
  BY DEF RoomForRefreshes
<1>2. \A r \in Rank : \A a : BankRoom(r, a) => BankRoom(r, a)'
  BY DEF window, BankRoom
<1>. QED  BY <1>1, <1>2, Zenon DEF window, RankRoom, BankRoom, RoomForRefreshes

LEMMA DueTimes ==
  ASSUME Inv, NEW r \in Rank
  PROVE  /\ due[r] \in Int /\ IssueDeadline(left, num_issued_refreshes[r]) \in Int
         /\ due[r] <= IssueDeadline(left, num_issued_refreshes[r])
         /\ due[r] >= 1 => - 0 <= IssueDeadline(left, num_issued_refreshes[r])
<1>1. left \in Int /\ num_issued_refreshes[r] \in Int /\ due[r] \in Int
  BY DEF Inv, TypeOK
<1>2. IssueDeadline(left, num_issued_refreshes[r]) \in Int
  BY <1>1, Deadlines
<1>3. due[r] <= IssueDeadline(left, num_issued_refreshes[r])
  BY DEF Inv, DueInv
<1>. QED  BY <1>1, <1>2, <1>3

(* The commands of a bank leave room for the refreshes.                    *)
LEMMA RoomStamped ==
  ASSUME Inv, NEW r \in Rank, NEW a \in Age, BankRoom(r, a)
  PROVE  /\ T_RAS <= due[r] => BankRoom(r, [ a EXCEPT !.ACT = 0 ])
         /\ T_RTP <= due[r] => BankRoom(r, [ a EXCEPT !["RD"] = 0 ])
         /\ WriteToPre <= due[r] => BankRoom(r, [ a EXCEPT !["WR"] = 0 ])
         /\ \A t \in Int :
              /\ - t <= IssueDeadline(Window, 0)
              /\ due[r] >= 1 => - t <= IssueDeadline(left, num_issued_refreshes[r])
              => BankRoom(r, [ a EXCEPT !.PRE = t ])
         /\ BankRoom(r, [ a EXCEPT !.PRE = 0 ])
<1>1. due[r] \in Int /\ WriteToPre \in Nat
  BY Times DEF Inv, TypeOK, WriteToPre
<1>2. ASSUME T_RAS <= due[r] PROVE BankRoom(r, [ a EXCEPT !.ACT = 0 ])
  <2>. DEFINE x == [ a EXCEPT !.ACT = 0 ]
  <2>1. x.ACT = 0 /\ x.RD = a.RD /\ x.WR = a.WR /\ x.PRE = a.PRE
    BY DEF Age
  <2>2. T_RAS - 0 <= Later(due[r], 0)
    BY <1>1, <1>2, Times DEF Later
  <2>. HIDE DEF x
  <2>3. BankRoom(r, x)
    BY <2>1, <2>2 DEF BankRoom, WithinTime
  <2>. QED  BY <2>3 DEF x
<1>3. ASSUME T_RTP <= due[r] PROVE BankRoom(r, [ a EXCEPT !["RD"] = 0 ])
  <2>. DEFINE x == [ a EXCEPT !["RD"] = 0 ]
  <2>1. x.ACT = a.ACT /\ x.RD = 0 /\ x.WR = a.WR /\ x.PRE = a.PRE
    BY DEF Age
  <2>2. T_RTP - 0 <= Later(due[r], 0)
    BY <1>1, <1>3, Times DEF Later
  <2>. HIDE DEF x
  <2>3. BankRoom(r, x)
    BY <2>1, <2>2 DEF BankRoom, WithinTime
  <2>. QED  BY <2>3 DEF x
<1>4. ASSUME WriteToPre <= due[r] PROVE BankRoom(r, [ a EXCEPT !["WR"] = 0 ])
  <2>. DEFINE x == [ a EXCEPT !["WR"] = 0 ]
  <2>1. x.ACT = a.ACT /\ x.RD = a.RD /\ x.WR = 0 /\ x.PRE = a.PRE
    BY DEF Age
  <2>2. WriteToPre - 0 <= Later(due[r], 0)
    BY <1>1, <1>4 DEF Later
  <2>. HIDE DEF x
  <2>3. BankRoom(r, x)
    BY <2>1, <2>2 DEF BankRoom, WithinTime
  <2>. QED  BY <2>3 DEF x
<1>5. ASSUME NEW t \in Int, - t <= IssueDeadline(Window, 0),
             due[r] >= 1 => - t <= IssueDeadline(left, num_issued_refreshes[r])
      PROVE  BankRoom(r, [ a EXCEPT !.PRE = t ])
  <2>. DEFINE x == [ a EXCEPT !.PRE = t ]
  <2>1. x.ACT = a.ACT /\ x.RD = a.RD /\ x.WR = a.WR /\ x.PRE = t
    BY DEF Age
  <2>. HIDE DEF x
  <2>2. BankRoom(r, x)
    BY <1>5, <2>1 DEF BankRoom, WithinTime
  <2>. QED  BY <2>2 DEF x
<1>6. BankRoom(r, [ a EXCEPT !.PRE = 0 ])
  <2>1. due[r] >= 1 => - 0 <= IssueDeadline(left, num_issued_refreshes[r])
    BY DueTimes
  <2>2. - 0 <= IssueDeadline(Window, 0)
    BY WindowRoom
  <2>. QED  BY <1>5, <2>1, <2>2
<1>. QED  BY <1>2, <1>3, <1>4, <1>5, <1>6

(* A command of this bank changes the state of the bank and of no other.   *)
LEMMA ActivateKeeps ==
  ASSUME Inv, HistoryInv, NEW r \in Rank, NEW b \in Bank, Activate(r, b), Protocol!Effect(command')
  PROVE  HistoryInv' /\ Protocol!LegalActivate(r, b)
<1>1. /\ HistoryType /\ Rows /\ Spaced /\ BusySpaced /\ RoomForRefreshes
      /\ NextType /\ StateType /\ TypeOK /\ StateInv
  BY DEF HistoryInv, Inv, TypeOK, NextType, StateType
<1>2. /\ HistoryType'
      /\ \A i \in Rank, j \in Bank :
           /\ open'[i][j] <=> (i = r /\ j = b) \/ open[i][j]
           /\ age'[i][j] = IF i = r /\ j = b THEN [ age[i][j] EXCEPT !.ACT = 0 ] ELSE age[i][j]
      /\ acts' = [ acts EXCEPT ![r] = @ \cup { 0 } ]
      /\ busy' = busy /\ refreshed' = refreshed
  <2>1. command' = [ op |-> "ACT", r |-> r, b |-> b ]
    BY DEF Activate, Issue
  <2>. QED  BY <1>1, <2>1, ActEffect
<1>3. /\ Grown
      /\ next'[r][b].act >= T_RC
      /\ next'[r][b].read >= T_RCD /\ next'[r][b].write >= T_RCD
      /\ next'[r][b].pre >= T_RAS /\ next'[r][b].refresh >= T_RAS
      /\ \A j \in Bank : next'[r][j].act >= T_RRD
  BY <1>1, ActivateTimes
<1>4. /\ state' = [ state EXCEPT ![r][b] = "ROW_ACTIVE" ]
      /\ record' = [ record EXCEPT ![r] = @ \cup { 0 } ] /\ UNCHANGED window
      /\ command = NONE /\ state[r][b] \in Closed /\ next[r][b].act = 0 /\ is_T_FAW_met(r)
      /\ T_RAS <= due[r]
  BY DEF Activate, ActivateIssuable, Ready, Free
<1>5. Rows'
  <2>1. \A i \in Rank, j \in Bank :
          state'[i][j] = IF i = r /\ j = b THEN "ROW_ACTIVE" ELSE state[i][j]
    BY <1>1, <1>4 DEF StateType
  <2>2. ASSUME NEW i \in Rank, NEW j \in Bank
        PROVE  open'[i][j] <=> state'[i][j] \in { "ROW_ACTIVE", "ACTIVE_POWER_DOWN" }
    <3>1. open'[i][j] <=> (i = r /\ j = b) \/ open[i][j]
      BY <1>2
    <3>2. open[i][j] <=> state[i][j] \in { "ROW_ACTIVE", "ACTIVE_POWER_DOWN" }
      BY <1>1 DEF Rows
    <3>3. state'[i][j] = IF i = r /\ j = b THEN "ROW_ACTIVE" ELSE state[i][j]
      BY <2>1
    <3>. QED  BY <3>1, <3>2, <3>3
  <2>3. acts' = record'
    BY <1>1, <1>2, <1>4 DEF Rows
  <2>4. refreshed' = [ i \in Rank |->
          IF forced_refresh_mode_on'[i] THEN REFRESHES ELSE num_issued_refreshes'[i] ]
    BY <1>1, <1>2, <1>4 DEF Rows, window
  <2>. QED  BY <2>2, <2>3, <2>4 DEF Rows
<1>6. Spaced'
  <2>. SUFFICES ASSUME NEW s \in Rank, NEW i \in Rank, NEW k \in Bank, NEW j \in Bank
       PROVE  /\ BusSpaced(next'[s][k], age'[i][j], Gap(i, s))
              /\ i = s => RankSpaced(next'[s][k], age'[i][j])
              /\ i = s /\ j = k => BankSpaced(next'[s][k], age'[i][j])
    BY DEF Spaced, Gap
  <2>1. /\ next'[s][k] \in [ Kind -> Nat ] /\ age[i][j] \in Age /\ Gap(i, s) \in Nat
        /\ BusSpaced(next'[s][k], age[i][j], Gap(i, s))
        /\ i = s => RankSpaced(next'[s][k], age[i][j])
        /\ i = s /\ j = k => BankSpaced(next'[s][k], age[i][j])
    BY <1>1, <1>3, SpacedKept
  <2>2. CASE i = r /\ j = b
    <3>1. age'[i][j] = [ age[i][j] EXCEPT !.ACT = 0 ]
      BY <1>2, <2>2
    <3>2. BusSpaced(next'[s][k], age'[i][j], Gap(i, s))
      BY <2>1, <3>1, ActStamped
    <3>3. i = s => RankSpaced(next'[s][k], age'[i][j])
      BY <1>3, <2>1, <2>2, <3>1, ActStamped
    <3>4. i = s /\ j = k => BankSpaced(next'[s][k], age'[i][j])
      BY <1>3, <2>1, <2>2, <3>1, ActStamped
    <3>. QED  BY <3>2, <3>3, <3>4
  <2>3. CASE ~(i = r /\ j = b)
    BY <1>2, <2>1, <2>3
  <2>. QED  BY <2>2, <2>3
<1>7. /\ ~open[r][b] /\ busy[r] = 0
  <2>1. next[r][b].act >= busy[r] /\ busy[r] \in Nat
    BY <1>1 DEF BusySpaced, HistoryType
  <2>. QED  BY <1>1, <1>4, <2>1 DEF Closed, Rows
<1>8. BusySpaced'
  BY <1>1, <1>2, <1>3, <1>7, BusyKept
<1>9. RoomForRefreshes'
  <2>1. \A a \in Age : BankRoom(r, a) => BankRoom(r, [ a EXCEPT !.ACT = 0 ])
    BY <1>4, RoomStamped
  <2>2. ASSUME NEW i \in Rank, NEW j \in Bank PROVE BankRoom(i, age'[i][j])
    <3>1. age[i][j] \in Age /\ BankRoom(i, age[i][j])
      BY <1>1 DEF RoomForRefreshes, HistoryType
    <3>2. CASE i = r /\ j = b
      <4>1. age'[i][j] = [ age[i][j] EXCEPT !.ACT = 0 ]
        BY <1>2, <3>2
      <4>. QED  BY <2>1, <3>1, <3>2, <4>1
    <3>3. CASE ~(i = r /\ j = b)
      BY <1>2, <3>1, <3>3
    <3>. QED  BY <3>2, <3>3
  <2>. QED  BY <1>1, <1>2, <1>4, <2>2, RoomKept
<1>10. Protocol!LegalActivate(r, b)
  <2>1. age[r][b].ACT >= T_RC /\ age[r][b].PRE >= T_RP
    <3>1. BankSpaced(next[r][b], age[r][b])
      BY <1>1 DEF Spaced
    <3>2. age[r][b].ACT \in Nat /\ age[r][b].PRE \in Int
      BY <1>1 DEF HistoryType, Age
    <3>. QED  BY <1>4, <3>1, <3>2, Times DEF BankSpaced
  <2>2. \A i \in Bank : age[r][i].ACT >= T_RRD
    <3>. TAKE i \in Bank
    <3>1. RankSpaced(next[r][b], age[r][i])
      BY <1>1 DEF Spaced
    <3>2. age[r][i].ACT \in Nat
      BY <1>1 DEF HistoryType, Age
    <3>. QED  BY <1>4, <3>1, <3>2, Times DEF RankSpaced
  <2>3. Cardinality(acts[r]) < ACTIVATES
    <3>1. 0 \notin record[r] /\ record[r] \subseteq 0 .. T_FAW
      BY <1>1, <1>4 DEF Inv, RecordFresh, TypeOK
    <3>2. record[r] \cap 1 .. T_FAW = record[r]
      BY <3>1, Times
    <3>. QED  BY <1>1, <1>4, <3>2 DEF Rows, is_T_FAW_met
  <2>4. Protocol!Bank = Bank
    BY DEF Protocol!Bank, Bank
  <2>5. Protocol!Cardinality(acts[r]) = Cardinality(acts[r])
    BY DEF Protocol!Cardinality, Cardinality
  <2>. QED  BY <1>7, <2>1, <2>2, <2>3, <2>4, <2>5, Zenon DEF Protocol!LegalActivate
<1>. QED  BY <1>2, <1>5, <1>6, <1>8, <1>9, <1>10 DEF HistoryInv

(* What the earliest times promise when they have come.                    *)
LEMMA NowSpaced ==
  ASSUME Inv, HistoryInv, NEW r \in Rank, NEW b \in Bank
  PROVE  /\ /\ next[r][b].pre = 0 \/ next[r][b].refresh = 0
            => WithinTime(age[r][b], 0) /\ busy[r] = 0
         /\ next[r][b].refresh = 0 => age[r][b].PRE >= T_RP
         /\ WithinTime(age[r][b], next[r][b].pre)
<1>1. BankSpaced(next[r][b], age[r][b])
  BY DEF HistoryInv, Spaced
<1>2. /\ next[r][b].pre >= busy[r] /\ next[r][b].refresh >= busy[r] /\ busy[r] \in Nat
  BY DEF HistoryInv, BusySpaced, HistoryType
<1>3. age[r][b].ACT \in Nat /\ age[r][b].RD \in Nat /\ age[r][b].WR \in Nat /\ age[r][b].PRE \in Int
  BY DEF HistoryInv, HistoryType, Age
<1>4. next[r][b].pre \in Nat /\ next[r][b].refresh \in Nat
  BY KindTimes DEF Inv, TypeOK
<1>5. WriteToPre \in Nat
  BY Times DEF WriteToPre
<1>. QED  BY <1>1, <1>2, <1>3, <1>4, <1>5, Times DEF BankSpaced, WithinTime

(* A column access finds the data bus free, and its bank ready.            *)
LEMMA ColumnLegal ==
  ASSUME Inv, HistoryInv, NEW r \in Rank, NEW b \in Bank, NEW p \in { "RD", "WR" },
         state[r][b] = "ROW_ACTIVE", (IF p = "RD" THEN next[r][b].read ELSE next[r][b].write) = 0
  PROVE  Protocol!LegalColumn(p, r, b)
<1>1. /\ HistoryType /\ Rows /\ Spaced /\ BusySpaced /\ TypeOK
  BY DEF HistoryInv, Inv
<1>2. next[r][b].read \in Nat /\ next[r][b].write \in Nat
  BY <1>1, KindTimes DEF TypeOK
<1>3. open[r][b] /\ busy[r] = 0
  BY <1>1 DEF Rows, BusySpaced
<1>4. age[r][b].ACT >= T_RCD
  <2>1. BankSpaced(next[r][b], age[r][b]) /\ age[r][b].ACT \in Nat
    BY <1>1 DEF Spaced, HistoryType, Age
  <2>. QED  BY <1>2, <2>1, Times DEF BankSpaced
<1>5. ASSUME NEW j \in Bank
      PROVE  /\ age[r][j][p] >= T_CCD
             /\ p = "RD" => age[r][j].WR >= T_CWD + T_DATA_TRANS + T_WTR
  <2>1. RankSpaced(next[r][b], age[r][j]) /\ age[r][j].RD \in Nat /\ age[r][j].WR \in Nat
    BY <1>1 DEF Spaced, HistoryType, Age
  <2>2. CASE p = "RD"
    BY <1>2, <2>1, <2>2, Times DEF RankSpaced
  <2>3. CASE p = "WR"
    BY <1>2, <2>1, <2>3, Times DEF RankSpaced
  <2>. QED  BY <2>2, <2>3
<1>6. ASSUME NEW i \in Rank, NEW j \in Bank, NEW q \in { "RD", "WR" }
      PROVE  Protocol!Burst(q, age[i][j][q])[2]
               + (IF i # r \/ (q = "RD" /\ p = "WR") THEN T_RTRS ELSE 0) <= Protocol!Burst(p, 0)[1]
  <2>1. /\ BusSpaced(next[r][b], age[i][j], Gap(i, r))
        /\ age[i][j].RD \in Nat /\ age[i][j].WR \in Nat
    BY <1>1 DEF Spaced, HistoryType, Age
  <2>2. /\ Protocol!Burst(p, 0)[1] = IF p = "RD" THEN T_CAS ELSE T_CWD
        /\ Protocol!Burst("RD", age[i][j].RD)[2] = T_CAS - age[i][j].RD + T_DATA_TRANS
        /\ Protocol!Burst("WR", age[i][j].WR)[2] = T_CWD - age[i][j].WR + T_DATA_TRANS
    BY <2>1, Times DEF Protocol!Burst
  <2>3. CASE p = "RD" /\ q = "RD"
    BY <1>2, <2>1, <2>2, <2>3, Times DEF BusSpaced, Gap
  <2>4. CASE p = "RD" /\ q = "WR"
    BY <1>2, <2>1, <2>2, <2>4, Times DEF BusSpaced, Gap
  <2>5. CASE p = "WR" /\ q = "RD"
    BY <1>2, <2>1, <2>2, <2>5, Times DEF BusSpaced, Gap
  <2>6. CASE p = "WR" /\ q = "WR"
    BY <1>2, <2>1, <2>2, <2>6, Times DEF BusSpaced, Gap
  <2>. QED  BY <2>3, <2>4, <2>5, <2>6
<1>7. Protocol!BusFree(p, r)
  BY <1>6, Zenon DEF Protocol!BusFree, Protocol!Rank, Protocol!Bank, Rank, Bank
<1>8. Protocol!Bank = Bank
  BY DEF Protocol!Bank, Bank
<1>. QED  BY <1>3, <1>4, <1>5, <1>7, <1>8, Zenon DEF Protocol!LegalColumn

LEMMA ReadKeeps ==
  ASSUME Inv, HistoryInv, NEW r \in Rank, NEW b \in Bank, ColRead(r, b), Protocol!Effect(command')
  PROVE  HistoryInv' /\ Protocol!LegalColumn("RD", r, b)
<1>1. /\ HistoryType /\ Rows /\ Spaced /\ BusySpaced /\ RoomForRefreshes
      /\ NextType /\ StateType /\ TypeOK
  BY DEF HistoryInv, Inv, TypeOK, NextType, StateType
<1>2. /\ HistoryType'
      /\ \A i \in Rank, j \in Bank :
           age'[i][j] = IF i = r /\ j = b THEN [ age[i][j] EXCEPT !["RD"] = 0 ] ELSE age[i][j]
      /\ open' = open /\ acts' = acts /\ busy' = busy /\ refreshed' = refreshed
  <2>1. command' = [ op |-> "RD", r |-> r, b |-> b ] /\ "RD" \in { "RD", "WR" }
    BY DEF ColRead, Issue
  <2>. QED  BY <1>1, <2>1, ColumnEffect
<1>3. /\ Grown
      /\ \A j \in Bank : next'[r][j].read >= T_CCD
      /\ \A i \in Rank, j \in Bank :
           /\ i # r => next'[i][j].read >= T_DATA_TRANS + T_RTRS
           /\ next'[i][j].read >= T_DATA_TRANS
           /\ next'[i][j].write >= T_CAS + T_DATA_TRANS + T_RTRS - T_CWD
      /\ next'[r][b].pre >= T_RTP /\ next'[r][b].refresh >= T_RTP
  BY <1>1, ReadTimes
<1>4. /\ UNCHANGED << state, record, window >>
      /\ state[r][b] = "ROW_ACTIVE" /\ next[r][b].read = 0 /\ T_RTP <= due[r]
  BY DEF ColRead, Column, ReadIssuable, Ready, Free
<1>5. Rows'
  BY <1>1, <1>2, <1>4 DEF Rows, window
<1>6. Spaced'
  <2>. SUFFICES ASSUME NEW s \in Rank, NEW i \in Rank, NEW k \in Bank, NEW j \in Bank
       PROVE  /\ BusSpaced(next'[s][k], age'[i][j], Gap(i, s))
              /\ i = s => RankSpaced(next'[s][k], age'[i][j])
              /\ i = s /\ j = k => BankSpaced(next'[s][k], age'[i][j])
    BY DEF Spaced, Gap
  <2>1. /\ next'[s][k] \in [ Kind -> Nat ] /\ age[i][j] \in Age /\ Gap(i, s) \in Nat
        /\ BusSpaced(next'[s][k], age[i][j], Gap(i, s))
        /\ i = s => RankSpaced(next'[s][k], age[i][j])
        /\ i = s /\ j = k => BankSpaced(next'[s][k], age[i][j])
    BY <1>1, <1>3, SpacedKept
  <2>2. CASE i = r /\ j = b
    <3>1. age'[i][j] = [ age[i][j] EXCEPT !.RD = 0 ]
      BY <1>2, <2>2
    <3>2. BusSpaced(next'[s][k], age'[i][j], Gap(i, s))
      <4>1. next'[s][k].read >= T_DATA_TRANS + Gap(i, s)
        BY <1>3, <2>2, Times DEF Gap
      <4>2. next'[s][k].write >= T_CAS + T_DATA_TRANS + T_RTRS - T_CWD
        BY <1>3
      <4>. QED  BY <2>1, <3>1, <4>1, <4>2, ReadStamped
    <3>3. i = s => RankSpaced(next'[s][k], age'[i][j])
      BY <1>3, <2>1, <2>2, <3>1, ReadStamped
    <3>4. i = s /\ j = k => BankSpaced(next'[s][k], age'[i][j])
      BY <1>3, <2>1, <2>2, <3>1, ReadStamped
    <3>. QED  BY <3>2, <3>3, <3>4
  <2>3. CASE ~(i = r /\ j = b)
    BY <1>2, <2>1, <2>3
  <2>. QED  BY <2>2, <2>3
<1>7. BusySpaced'
  BY <1>1, <1>2, <1>3, BusyKept
<1>8. RoomForRefreshes'
  <2>1. ASSUME NEW i \in Rank, NEW j \in Bank PROVE BankRoom(i, age'[i][j])
    <3>1. age[i][j] \in Age /\ BankRoom(i, age[i][j])
      BY <1>1 DEF RoomForRefreshes, HistoryType
    <3>2. CASE i = r /\ j = b
      <4>1. age'[i][j] = [ age[i][j] EXCEPT !["RD"] = 0 ]
        BY <1>2, <3>2
      <4>2. BankRoom(r, age[i][j])
        BY <3>1, <3>2
      <4>3. BankRoom(r, [ age[i][j] EXCEPT !["RD"] = 0 ])
        BY <1>4, <3>1, <4>2, RoomStamped, Zenon
      <4>. QED  BY <3>2, <4>1, <4>3
    <3>3. CASE ~(i = r /\ j = b)
      BY <1>2, <3>1, <3>3
    <3>. QED  BY <3>2, <3>3
  <2>. QED  BY <1>1, <1>2, <1>4, <2>1, RoomKept
<1>9. Protocol!LegalColumn("RD", r, b)
  BY <1>4, ColumnLegal
<1>. QED  BY <1>2, <1>5, <1>6, <1>7, <1>8, <1>9 DEF HistoryInv

LEMMA WriteKeeps ==
  ASSUME Inv, HistoryInv, NEW r \in Rank, NEW b \in Bank, ColWrite(r, b), Protocol!Effect(command')
  PROVE  HistoryInv' /\ Protocol!LegalColumn("WR", r, b)
<1>1. /\ HistoryType /\ Rows /\ Spaced /\ BusySpaced /\ RoomForRefreshes
      /\ NextType /\ StateType /\ TypeOK
  BY DEF HistoryInv, Inv, TypeOK, NextType, StateType
<1>2. /\ HistoryType'
      /\ \A i \in Rank, j \in Bank :
           age'[i][j] = IF i = r /\ j = b THEN [ age[i][j] EXCEPT !["WR"] = 0 ] ELSE age[i][j]
      /\ open' = open /\ acts' = acts /\ busy' = busy /\ refreshed' = refreshed
  <2>1. command' = [ op |-> "WR", r |-> r, b |-> b ] /\ "WR" \in { "RD", "WR" }
    BY DEF ColWrite, Issue
  <2>. QED  BY <1>1, <2>1, ColumnEffect
<1>3. /\ Grown
      /\ \A j \in Bank : /\ next'[r][j].write >= T_CCD
                         /\ next'[r][j].read >= T_CWD + T_DATA_TRANS + T_WTR
      /\ \A i \in Rank, j \in Bank :
           /\ next'[i][j].write >= T_DATA_TRANS
           /\ i # r => /\ next'[i][j].write >= T_DATA_TRANS + T_RTRS
                       /\ next'[i][j].read >= T_CWD + T_DATA_TRANS + T_RTRS - T_CAS
      /\ next'[r][b].pre >= WriteToPre /\ next'[r][b].refresh >= WriteToPre
  BY <1>1, WriteTimes
<1>4. /\ UNCHANGED << state, record, window >>
      /\ state[r][b] = "ROW_ACTIVE" /\ next[r][b].write = 0 /\ WriteToPre <= due[r]
  BY DEF ColWrite, Column, WriteIssuable, Ready, Free
<1>5. Rows'
  BY <1>1, <1>2, <1>4 DEF Rows, window
<1>6. Spaced'
  <2>. SUFFICES ASSUME NEW s \in Rank, NEW i \in Rank, NEW k \in Bank, NEW j \in Bank
       PROVE  /\ BusSpaced(next'[s][k], age'[i][j], Gap(i, s))
              /\ i = s => RankSpaced(next'[s][k], age'[i][j])
              /\ i = s /\ j = k => BankSpaced(next'[s][k], age'[i][j])
    BY DEF Spaced, Gap
  <2>1. /\ next'[s][k] \in [ Kind -> Nat ] /\ age[i][j] \in Age /\ Gap(i, s) \in Nat
        /\ BusSpaced(next'[s][k], age[i][j], Gap(i, s))
        /\ i = s => RankSpaced(next'[s][k], age[i][j])
        /\ i = s /\ j = k => BankSpaced(next'[s][k], age[i][j])
    BY <1>1, <1>3, SpacedKept
  <2>2. CASE i = r /\ j = b
    <3>1. age'[i][j] = [ age[i][j] EXCEPT !.WR = 0 ]
      BY <1>2, <2>2
    <3>2. BusSpaced(next'[s][k], age'[i][j], Gap(i, s))
      <4>1. next'[s][k].write >= T_DATA_TRANS + Gap(i, s)
        BY <1>3, <2>2, Times DEF Gap
      <4>2. next'[s][k].read \in Nat
        BY <2>1, KindTimes
      <4>3. next'[s][k].read >= T_CWD + T_DATA_TRANS + Gap(i, s) - T_CAS
        BY <1>3, <2>2, <4>2, Times DEF Gap
      <4>. QED  BY <2>1, <3>1, <4>1, <4>3, WriteStamped
    <3>3. i = s => RankSpaced(next'[s][k], age'[i][j])
      BY <1>3, <2>1, <2>2, <3>1, WriteStamped
    <3>4. i = s /\ j = k => BankSpaced(next'[s][k], age'[i][j])
      BY <1>3, <2>1, <2>2, <3>1, WriteStamped
    <3>. QED  BY <3>2, <3>3, <3>4
  <2>3. CASE ~(i = r /\ j = b)
    BY <1>2, <2>1, <2>3
  <2>. QED  BY <2>2, <2>3
<1>7. BusySpaced'
  BY <1>1, <1>2, <1>3, BusyKept
<1>8. RoomForRefreshes'
  <2>1. ASSUME NEW i \in Rank, NEW j \in Bank PROVE BankRoom(i, age'[i][j])
    <3>1. age[i][j] \in Age /\ BankRoom(i, age[i][j])
      BY <1>1 DEF RoomForRefreshes, HistoryType
    <3>2. CASE i = r /\ j = b
      <4>1. age'[i][j] = [ age[i][j] EXCEPT !["WR"] = 0 ]
        BY <1>2, <3>2
      <4>2. BankRoom(r, age[i][j])
        BY <3>1, <3>2
      <4>3. BankRoom(r, [ age[i][j] EXCEPT !["WR"] = 0 ])
        BY <1>4, <3>1, <4>2, RoomStamped, Zenon
      <4>. QED  BY <3>2, <4>1, <4>3
    <3>3. CASE ~(i = r /\ j = b)
      BY <1>2, <3>1, <3>3
    <3>. QED  BY <3>2, <3>3
  <2>. QED  BY <1>1, <1>2, <1>4, <2>1, RoomKept
<1>9. Protocol!LegalColumn("WR", r, b)
  BY <1>4, ColumnLegal
<1>. QED  BY <1>2, <1>5, <1>6, <1>7, <1>8, <1>9 DEF HistoryInv

(* Banks S of a rank are closed, by precharges of the ages t.              *)
LEMMA ClosedKeeps ==
  ASSUME Inv, HistoryInv, HistoryType', StateType', Grown, UNCHANGED << record, window >>,
         NEW r \in Rank, NEW S \in SUBSET Bank, NEW t \in [ Bank -> Int ],
         \A i \in Rank, j \in Bank :
           /\ state'[i][j] = IF i = r /\ j \in S THEN "PRECHARGING" ELSE state[i][j]
           /\ open'[i][j] <=> ~(i = r /\ j \in S) /\ open[i][j]
           /\ age'[i][j] = IF i = r /\ j \in S THEN [ age[i][j] EXCEPT !.PRE = t[j] ] ELSE age[i][j],
         acts' = acts, busy' = busy, refreshed' = refreshed,
         \A j \in S : /\ next'[r][j].act + t[j] >= T_RP /\ next'[r][j].refresh + t[j] >= T_RP
                      /\ - t[j] <= IssueDeadline(Window, 0)
                      /\ due[r] >= 1 => - t[j] <= IssueDeadline(left, num_issued_refreshes[r])
  PROVE  HistoryInv'
<1>1. /\ HistoryType /\ Rows /\ Spaced /\ BusySpaced /\ RoomForRefreshes /\ NextType
  BY DEF HistoryInv, Inv, TypeOK, NextType
<1>2. Rows'
  <2>1. ASSUME NEW i \in Rank, NEW j \in Bank
        PROVE  open'[i][j] <=> state'[i][j] \in { "ROW_ACTIVE", "ACTIVE_POWER_DOWN" }
    <3>1. open[i][j] <=> state[i][j] \in { "ROW_ACTIVE", "ACTIVE_POWER_DOWN" }
      BY <1>1 DEF Rows
    <3>2. /\ open'[i][j] <=> ~(i = r /\ j \in S) /\ open[i][j]
          /\ state'[i][j] = IF i = r /\ j \in S THEN "PRECHARGING" ELSE state[i][j]
      OBVIOUS
    <3>. QED  BY <3>1, <3>2
  <2>2. acts' = record' /\ refreshed' = [ i \in Rank |->
          IF forced_refresh_mode_on'[i] THEN REFRESHES ELSE num_issued_refreshes'[i] ]
    BY <1>1 DEF Rows, window
  <2>. QED  BY <2>1, <2>2 DEF Rows
<1>3. Spaced'
  <2>. SUFFICES ASSUME NEW s \in Rank, NEW i \in Rank, NEW k \in Bank, NEW j \in Bank
       PROVE  /\ BusSpaced(next'[s][k], age'[i][j], Gap(i, s))
              /\ i = s => RankSpaced(next'[s][k], age'[i][j])
              /\ i = s /\ j = k => BankSpaced(next'[s][k], age'[i][j])
    BY DEF Spaced, Gap
  <2>1. /\ next'[s][k] \in [ Kind -> Nat ] /\ age[i][j] \in Age /\ Gap(i, s) \in Nat
        /\ BusSpaced(next'[s][k], age[i][j], Gap(i, s))
        /\ i = s => RankSpaced(next'[s][k], age[i][j])
        /\ i = s /\ j = k => BankSpaced(next'[s][k], age[i][j])
    BY <1>1, SpacedKept
  <2>2. CASE i = r /\ j \in S
    <3>1. age'[i][j] = [ age[i][j] EXCEPT !.PRE = t[j] ] /\ t[j] \in Int
      BY <2>2
    <3>2. BusSpaced(next'[s][k], age'[i][j], Gap(i, s))
      BY <2>1, <3>1, PreStamped
    <3>3. i = s => RankSpaced(next'[s][k], age'[i][j])
      BY <2>1, <3>1, PreStamped
    <3>4. i = s /\ j = k => BankSpaced(next'[s][k], age'[i][j])
      BY <2>1, <2>2, <3>1, PreStamped
    <3>. QED  BY <3>2, <3>3, <3>4
  <2>3. CASE ~(i = r /\ j \in S)
    BY <2>1, <2>3
  <2>. QED  BY <2>2, <2>3
<1>4. BusySpaced'
  BY <1>1, BusyKept
<1>5. RoomForRefreshes'
  <2>1. ASSUME NEW i \in Rank, NEW j \in Bank PROVE BankRoom(i, age'[i][j])
    <3>1. age[i][j] \in Age /\ BankRoom(i, age[i][j])
      BY <1>1 DEF RoomForRefreshes, HistoryType
    <3>2. CASE i = r /\ j \in S
      <4>1. age'[i][j] = [ age[i][j] EXCEPT !.PRE = t[j] ] /\ t[j] \in Int
        BY <3>2
      <4>2. /\ - t[j] <= IssueDeadline(Window, 0)
            /\ due[r] >= 1 => - t[j] <= IssueDeadline(left, num_issued_refreshes[r])
        BY <3>2
      <4>3. BankRoom(r, [ age[i][j] EXCEPT !.PRE = t[j] ])
        BY <3>1, <3>2, <4>1, <4>2, RoomStamped
      <4>. QED  BY <3>2, <4>1, <4>3
    <3>3. CASE ~(i = r /\ j \in S)
      BY <3>1, <3>3
    <3>. QED  BY <3>2, <3>3
  <2>. QED  BY <1>1, <2>1, RoomKept
<1>. QED  BY <1>2, <1>3, <1>4, <1>5 DEF HistoryInv

LEMMA PrechargeKeeps ==
  ASSUME Inv, HistoryInv, NEW r \in Rank, NEW b \in Bank, Precharge(r, b), Protocol!Effect(command')
  PROVE  HistoryInv' /\ Protocol!LegalPrecharge(r, b)
<1>1. /\ HistoryType /\ NextType /\ StateType /\ TypeOK /\ StateInv
  BY DEF HistoryInv, Inv, TypeOK, NextType, StateType
<1>2. /\ HistoryType'
      /\ \A i \in Rank, j \in Bank :
           /\ open'[i][j] <=> ~(i = r /\ j = b) /\ open[i][j]
           /\ age'[i][j] = IF i = r /\ j = b THEN [ age[i][j] EXCEPT !.PRE = 0 ] ELSE age[i][j]
      /\ acts' = acts /\ busy' = busy /\ refreshed' = refreshed
  <2>1. command' = [ op |-> "PRE", r |-> r, b |-> b ]
    BY DEF Precharge, Issue
  <2>. QED  BY <1>1, <2>1, PrechargeEffect
<1>3. Grown /\ next'[r][b].act >= T_RP /\ next'[r][b].refresh >= T_RP
  BY <1>1, PrechargeTimes DEF Shut
<1>4. /\ state' = [ state EXCEPT ![r][b] = "PRECHARGING" ] /\ UNCHANGED << record, window >>
      /\ state[r][b] \in Powered /\ next[r][b].pre = 0
  BY DEF Precharge, is_precharge_allowed, Ready
<1>5. StateType'
  <2>1. "PRECHARGING" \in Powered
    BY DEF Powered, Closed
  <2>. QED  BY <1>1, <1>4, <2>1, BankAgrees
<1>6. HistoryInv'
  <2>. DEFINE t == [ j \in Bank |-> 0 ]
              S == { b }
  <2>1. S \in SUBSET Bank /\ t \in [ Bank -> Int ] /\ \A j \in Bank : t[j] = 0
    OBVIOUS
  <2>2. ASSUME NEW i \in Rank, NEW j \in Bank
        PROVE  /\ state'[i][j] = IF i = r /\ j \in S THEN "PRECHARGING" ELSE state[i][j]
               /\ open'[i][j] <=> ~(i = r /\ j \in S) /\ open[i][j]
               /\ age'[i][j] = IF i = r /\ j \in S THEN [ age[i][j] EXCEPT !.PRE = t[j] ] ELSE age[i][j]
    <3>1. state'[i][j] = IF i = r /\ j = b THEN "PRECHARGING" ELSE state[i][j]
      BY <1>1, <1>4 DEF StateType
    <3>2. j \in S <=> j = b
      OBVIOUS
    <3>. QED  BY <1>2, <2>1, <3>1, <3>2
  <2>3. ASSUME NEW j \in S
        PROVE  /\ next'[r][j].act + t[j] >= T_RP /\ next'[r][j].refresh + t[j] >= T_RP
               /\ - t[j] <= IssueDeadline(Window, 0)
               /\ due[r] >= 1 => - t[j] <= IssueDeadline(left, num_issued_refreshes[r])
    <3>1. j = b /\ t[j] = 0
      BY <2>1
    <3>2. next'[r][b].act \in Nat /\ next'[r][b].refresh \in Nat
      BY <1>3, KindTimes DEF Grown, NextType
    <3>3. next'[r][b].act + 0 >= T_RP /\ next'[r][b].refresh + 0 >= T_RP
      BY <1>3, <3>2, Times
    <3>4. - 0 <= IssueDeadline(Window, 0)
      BY WindowRoom
    <3>5. due[r] >= 1 => - 0 <= IssueDeadline(left, num_issued_refreshes[r])
      BY DueTimes
    <3>. QED  BY <3>1, <3>3, <3>4, <3>5
  <2>. HIDE DEF S, t
  <2>. QED  BY <1>2, <1>3, <1>4, <1>5, <2>1, <2>2, <2>3, ClosedKeeps
<1>7. Protocol!LegalPrecharge(r, b)
  <2>1. WithinTime(age[r][b], 0) /\ busy[r] = 0
    BY <1>4, NowSpaced
  <2>2. Protocol!UntilPre(r, b) \in Nat /\ Protocol!UntilPre(r, b) <= 0
    BY <1>1, <2>1, UntilPreIs
  <2>. QED  BY <2>1, <2>2 DEF Protocol!LegalPrecharge
<1>. QED  BY <1>6, <1>7

LEMMA PrechargeAllKeeps ==
  ASSUME Inv, HistoryInv, NEW r \in Rank, issue_all_bank_precharge_command(r),
         Protocol!Effect(command')
  PROVE  HistoryInv' /\ \A b \in Bank : Protocol!LegalPrecharge(r, b)
<1>1. /\ HistoryType /\ NextType /\ StateType /\ TypeOK /\ StateInv
  BY DEF HistoryInv, Inv, TypeOK, NextType, StateType
<1>2. /\ HistoryType'
      /\ \A i \in Rank, j \in Bank :
           /\ open'[i][j] <=> i # r /\ open[i][j]
           /\ age'[i][j] = IF i = r THEN [ age[i][j] EXCEPT !.PRE = 0 ] ELSE age[i][j]
      /\ acts' = acts /\ busy' = busy /\ refreshed' = refreshed
  <2>1. command' = [ op |-> "PREA", r |-> r, b |-> 0 ] /\ 0 \in Bank
    <3>1. 0 \in Bank
      BY Times DEF Bank
    <3>. QED  BY <3>1 DEF issue_all_bank_precharge_command, Issue
  <2>. QED  BY <1>1, <2>1, PrechargeAllEffect
<1>3. Grown /\ \A j \in Bank : next'[r][j].act >= T_RP /\ next'[r][j].refresh >= T_RP
  BY <1>1, PrechargeAllTimes DEF Shut
<1>4. /\ state' = [ state EXCEPT ![r] = [ j \in Bank |-> "PRECHARGING" ] ]
      /\ UNCHANGED << record, window >>
      /\ \A b \in Bank : next[r][b].pre = 0
  BY DEF issue_all_bank_precharge_command, SetState, is_all_bank_precharge_allowed,
    is_precharge_allowed, Ready
<1>5. /\ StateType'
      /\ \A i \in Rank, j \in Bank : state'[i][j] = IF i = r THEN "PRECHARGING" ELSE state[i][j]
  <2>1. "PRECHARGING" \in bankstate_t
    BY DEF bankstate_t, Powered, Closed
  <2>. QED  BY <1>1, <1>4, <2>1 DEF StateType
<1>6. HistoryInv'
  <2>. DEFINE t == [ j \in Bank |-> 0 ]
  <2>1. Bank \in SUBSET Bank /\ t \in [ Bank -> Int ] /\ \A j \in Bank : t[j] = 0
    OBVIOUS
  <2>2. ASSUME NEW i \in Rank, NEW j \in Bank
        PROVE  /\ state'[i][j] = IF i = r /\ j \in Bank THEN "PRECHARGING" ELSE state[i][j]
               /\ open'[i][j] <=> ~(i = r /\ j \in Bank) /\ open[i][j]
               /\ age'[i][j] = IF i = r /\ j \in Bank THEN [ age[i][j] EXCEPT !.PRE = t[j] ]
                                                     ELSE age[i][j]
    BY <1>2, <1>5, <2>1
  <2>3. ASSUME NEW j \in Bank
        PROVE  /\ next'[r][j].act + t[j] >= T_RP /\ next'[r][j].refresh + t[j] >= T_RP
               /\ - t[j] <= IssueDeadline(Window, 0)
               /\ due[r] >= 1 => - t[j] <= IssueDeadline(left, num_issued_refreshes[r])
    <3>1. t[j] = 0
      BY <2>1
    <3>2. next'[r][j].act \in Nat /\ next'[r][j].refresh \in Nat
      BY <1>3, KindTimes DEF Grown, NextType
    <3>3. next'[r][j].act + 0 >= T_RP /\ next'[r][j].refresh + 0 >= T_RP
      BY <1>3, <3>2, Times
    <3>4. - 0 <= IssueDeadline(Window, 0)
      BY WindowRoom
    <3>5. due[r] >= 1 => - 0 <= IssueDeadline(left, num_issued_refreshes[r])
      BY DueTimes
    <3>. QED  BY <3>1, <3>3, <3>4, <3>5
  <2>. HIDE DEF t
  <2>. QED  BY <1>2, <1>3, <1>4, <1>5, <2>1, <2>2, <2>3, ClosedKeeps
<1>7. ASSUME NEW b \in Bank PROVE Protocol!LegalPrecharge(r, b)
  <2>1. WithinTime(age[r][b], 0) /\ busy[r] = 0
    BY <1>4, NowSpaced
  <2>2. Protocol!UntilPre(r, b) \in Nat /\ Protocol!UntilPre(r, b) <= 0
    BY <1>1, <2>1, UntilPreIs
  <2>. QED  BY <2>1, <2>2 DEF Protocol!LegalPrecharge
<1>. QED  BY <1>6, <1>7

(* The precharge begins when the row may be closed, not before.            *)
LEMMA AutoKeeps ==
  ASSUME Inv, HistoryInv, NEW r \in Rank, NEW b \in Bank, issue_autoprecharge(r, b),
         Protocol!Effect(command')
  PROVE  HistoryInv' /\ open[r][b]
<1>1. /\ HistoryType /\ Rows /\ NextType /\ StateType /\ TypeOK /\ StateInv
  BY DEF HistoryInv, Inv, TypeOK, NextType, StateType
<1>. DEFINE u == Protocol!UntilPre(r, b)
<1>2. /\ HistoryType'
      /\ \A i \in Rank, j \in Bank :
           /\ open'[i][j] <=> ~(i = r /\ j = b) /\ open[i][j]
           /\ age'[i][j] = IF i = r /\ j = b THEN [ age[i][j] EXCEPT !.PRE = - u ] ELSE age[i][j]
      /\ acts' = acts /\ busy' = busy /\ refreshed' = refreshed
  <2>1. command' = [ op |-> "AUTO", r |-> r, b |-> b ]
    BY DEF issue_autoprecharge
  <2>. QED  BY <1>1, <2>1, AutoEffect
<1>3. /\ Grown /\ AutoStart(r, b) \in Nat
      /\ next'[r][b].act >= AutoStart(r, b) + T_RP /\ next'[r][b].refresh >= AutoStart(r, b) + T_RP
  BY <1>1, AutoTimes DEF Shut
<1>4. /\ state' = [ state EXCEPT ![r][b] = "PRECHARGING" ] /\ UNCHANGED << record, window >>
      /\ state[r][b] = "ROW_ACTIVE" /\ AutoStart(r, b) + T_RP <= due[r]
  BY DEF issue_autoprecharge, is_autoprecharge_allowed, Inv, ColumnOpen
<1>5. StateType'
  <2>1. "PRECHARGING" \in Powered /\ state[r][b] \in Powered
    BY <1>4 DEF Powered, Closed
  <2>. QED  BY <1>1, <1>4, <2>1, BankAgrees
<1>6. u \in Nat /\ u <= AutoStart(r, b)
  <2>1. next[r][b].pre \in Nat
    BY <1>1, KindTimes DEF NextType
  <2>2. u \in Nat /\ u <= next[r][b].pre
    BY <1>1, <2>1, NowSpaced, UntilPreIs
  <2>3. next[r][b].pre <= AutoStart(r, b)
    <3>1. PICK t \in Nat : AutoStart(r, b) = Later(t, next[r][b].pre)
      BY Times DEF AutoStart, WriteToPre
    <3>. QED  BY <2>1, <3>1 DEF Later
  <2>. HIDE DEF u
  <2>. QED  BY <1>3, <2>1, <2>2, <2>3
<1>. HIDE DEF u
<1>7. HistoryInv'
  <2>. DEFINE t == [ j \in Bank |-> - u ]
              S == { b }
  <2>1. S \in SUBSET Bank /\ t \in [ Bank -> Int ] /\ \A j \in Bank : t[j] = - u
    BY <1>6
  <2>2. ASSUME NEW i \in Rank, NEW j \in Bank
        PROVE  /\ state'[i][j] = IF i = r /\ j \in S THEN "PRECHARGING" ELSE state[i][j]
               /\ open'[i][j] <=> ~(i = r /\ j \in S) /\ open[i][j]
               /\ age'[i][j] = IF i = r /\ j \in S THEN [ age[i][j] EXCEPT !.PRE = t[j] ] ELSE age[i][j]
    <3>1. state'[i][j] = IF i = r /\ j = b THEN "PRECHARGING" ELSE state[i][j]
      BY <1>1, <1>4 DEF StateType
    <3>2. j \in S <=> j = b
      OBVIOUS
    <3>. QED  BY <1>2, <2>1, <3>1, <3>2
  <2>3. ASSUME NEW j \in S
        PROVE  /\ next'[r][j].act + t[j] >= T_RP /\ next'[r][j].refresh + t[j] >= T_RP
               /\ - t[j] <= IssueDeadline(Window, 0)
               /\ due[r] >= 1 => - t[j] <= IssueDeadline(left, num_issued_refreshes[r])
    <3>1. j = b /\ t[j] = - u
      BY <2>1
    <3>2. next'[r][b].act \in Nat /\ next'[r][b].refresh \in Nat
      BY <1>3, KindTimes DEF Grown, NextType
    <3>3. next'[r][b].act + (- u) >= T_RP /\ next'[r][b].refresh + (- u) >= T_RP
      BY <1>3, <1>6, <3>2, Times
    <3>4. - (- u) <= IssueDeadline(left, num_issued_refreshes[r])
      <4>1. /\ due[r] \in Int /\ due[r] <= IssueDeadline(left, num_issued_refreshes[r])
            /\ IssueDeadline(left, num_issued_refreshes[r]) \in Int
        BY DueTimes
      <4>. QED  BY <1>3, <1>4, <1>6, <4>1, Times
    <3>5. - (- u) <= IssueDeadline(Window, 0)
      <4>1. /\ WithinTime(age[r][b], IssueDeadline(Window, 0))
        <5>1. age[r][b].ACT \in Nat /\ age[r][b].RD \in Nat /\ age[r][b].WR \in Nat
          BY <1>1 DEF HistoryType, Age
        <5>2. WriteToPre \in Nat
          BY Times DEF WriteToPre
        <5>. QED  BY <5>1, <5>2, WindowRoom, Times DEF WithinTime
      <4>2. u <= IssueDeadline(Window, 0)
        BY <1>1, <4>1, UntilPreIs, WindowRoom DEF u
      <4>. QED  BY <1>6, <4>2, WindowRoom
    <3>. QED  BY <3>1, <3>3, <3>4, <3>5
  <2>. HIDE DEF S, t
  <2>. QED  BY <1>2, <1>3, <1>4, <1>5, <2>1, <2>2, <2>3, ClosedKeeps
<1>. QED  BY <1>1, <1>4, <1>7 DEF Rows

(* The time of a refresh covers the precharge of the rows that are open,   *)
(* although only bank 0 tells whether the rank sleeps.                     *)
LEMMA RefreshCoversRows ==
  ASSUME RefreshCovers, Inv, HistoryInv, NEW r \in Rank
  PROVE  RefreshTime(r) >= (IF \E j \in Bank : open[r][j] THEN T_RP ELSE 0) + T_RFC
<1>1. 0 \in Bank
  BY Times DEF Bank
<1>2. \A j \in Bank : open[r][j] <=> state[r][j] \in { "ROW_ACTIVE", "ACTIVE_POWER_DOWN" }
  BY DEF HistoryInv, Rows
<1>3. \A j \in Bank : state[r][j] \in bankstate_t
  BY DEF Inv, TypeOK
<1>4. CASE state[r][0] = "PRECHARGE_POWER_DOWN_SLOW"
  <2>1. \A j \in Bank : ~open[r][j]
    BY <1>1, <1>2, <1>4 DEF Inv, StateInv, SlowTogether
  <2>2. RefreshTime(r) = T_XP_DLL + T_RFC
    BY <1>4 DEF RefreshTime
  <2>. QED  BY <2>1, <2>2, Times
<1>5. CASE state[r][0] = "PRECHARGE_POWER_DOWN_FAST"
  <2>1. "PDF" \in Issued
    BY <1>1, <1>5 DEF Inv, StateInv, FastIssued
  <2>2. RefreshTime(r) = T_XP + T_RFC
    BY <1>5 DEF RefreshTime
  <2>. QED  BY <2>1, <2>2, Times DEF RefreshCovers
<1>6. CASE state[r][0] = "ACTIVE_POWER_DOWN"
  <2>1. RefreshTime(r) = T_XP + T_RP + T_RFC
    BY <1>6 DEF RefreshTime
  <2>. QED  BY <2>1, Times
<1>7. CASE state[r][0] \notin Asleep
  <2>1. \A j \in Bank : state[r][j] \notin Asleep
    BY <1>1, <1>7 DEF Inv, StateInv, SleepTogether
  <2>2. \A j \in Bank : open[r][j] <=> state[r][j] = "ROW_ACTIVE"
    BY <1>2, <2>1 DEF Asleep
  <2>3. RefreshTime(r) = IF \E b \in Bank : state[r][b] = "ROW_ACTIVE" THEN T_RP + T_RFC ELSE T_RFC
    BY <1>7 DEF RefreshTime, Asleep, PrechargeDown
  <2>. QED  BY <2>2, <2>3, Times
<1>8. state[r][0] \in Asleep => state[r][0] \in { "PRECHARGE_POWER_DOWN_SLOW",
                                    "PRECHARGE_POWER_DOWN_FAST", "ACTIVE_POWER_DOWN" }
  BY DEF Asleep, PrechargeDown
<1>. QED  BY <1>4, <1>5, <1>6, <1>7, <1>8

LEMMA RefreshKeeps ==
  ASSUME RefreshCovers, Inv, HistoryInv, NEW r \in Rank, issue_refresh_command(r),
         Protocol!Effect(command')
  PROVE  HistoryInv' /\ Protocol!LegalRefresh(r)
<1>1. /\ HistoryType /\ Rows /\ Spaced /\ BusySpaced /\ RoomForRefreshes
      /\ NextType /\ StateType /\ TypeOK
  BY DEF HistoryInv, Inv, TypeOK, NextType, StateType
<1>. DEFINE t == (IF \E j \in Bank : open[r][j] THEN T_RP ELSE 0) + T_RFC
<1>2. /\ HistoryType'
      /\ \A i \in Rank, j \in Bank : open'[i][j] <=> i # r /\ open[i][j]
      /\ \A i \in Rank : busy'[i] = IF i = r THEN t ELSE busy[i]
      /\ age' = age /\ acts' = acts /\ refreshed' = [ refreshed EXCEPT ![r] = @ + 1 ]
  <2>1. command' = [ op |-> "REF", r |-> r, b |-> 0 ] /\ 0 \in Bank
    <3>1. 0 \in Bank
      BY Times DEF Bank
    <3>. QED  BY <3>1 DEF issue_refresh_command, Issue
  <2>. QED  BY <1>1, <2>1, RefreshEffect
<1>3. /\ RefreshTime(r) \in Nat
      /\ Grown /\ \A j \in Bank, c \in Shut : next'[r][j][c] >= RefreshTime(r)
  BY <1>1, RefreshTimes
<1>4. /\ state' = [ state EXCEPT ![r] = [ j \in Bank |-> "REFRESHING" ] ]
      /\ num_issued_refreshes' = [ num_issued_refreshes EXCEPT ![r] = @ + 1 ]
      /\ UNCHANGED << record, left, due, forced_refresh_mode_on >>
      /\ ~forced_refresh_mode_on[r] /\ \A b \in Bank : next[r][b].refresh = 0
  BY DEF issue_refresh_command, SetState, is_refresh_allowed
<1>5. t \in Nat /\ t <= T_RP + T_RFC /\ RefreshTime(r) >= t
  BY RefreshCoversRows, Times
<1>. HIDE DEF t
<1>6. Rows'
  <2>1. \A i \in Rank, j \in Bank : state'[i][j] = IF i = r THEN "REFRESHING" ELSE state[i][j]
    BY <1>1, <1>4 DEF StateType
  <2>2. ASSUME NEW i \in Rank, NEW j \in Bank
        PROVE  open'[i][j] <=> state'[i][j] \in { "ROW_ACTIVE", "ACTIVE_POWER_DOWN" }
    <3>1. open[i][j] <=> state[i][j] \in { "ROW_ACTIVE", "ACTIVE_POWER_DOWN" }
      BY <1>1 DEF Rows
    <3>2. open'[i][j] <=> i # r /\ open[i][j]
      BY <1>2
    <3>. QED  BY <2>1, <3>1, <3>2
  <2>3. refreshed' = [ i \in Rank |->
          IF forced_refresh_mode_on'[i] THEN REFRESHES ELSE num_issued_refreshes'[i] ]
    <3>1. /\ refreshed = [ i \in Rank |->
                 IF forced_refresh_mode_on[i] THEN REFRESHES ELSE num_issued_refreshes[i] ]
          /\ DOMAIN num_issued_refreshes = Rank
      BY <1>1 DEF Rows, TypeOK
    <3>2. \A i \in Rank :
            /\ forced_refresh_mode_on'[i] = forced_refresh_mode_on[i]
            /\ num_issued_refreshes'[i] =
                 IF i = r THEN num_issued_refreshes[i] + 1 ELSE num_issued_refreshes[i]
      BY <1>4, <3>1
    <3>. QED  BY <1>2, <1>4, <3>1, <3>2
  <2>4. acts' = record'
    BY <1>1, <1>2, <1>4 DEF Rows
  <2>. QED  BY <2>2, <2>3, <2>4 DEF Rows
<1>7. Spaced'
  BY <1>1, <1>2, <1>3, SpacedKept DEF Spaced, Gap
<1>8. BusySpaced'
  <2>. SUFFICES ASSUME NEW i \in Rank, NEW j \in Bank
       PROVE  /\ next'[i][j].act >= busy'[i] /\ next'[i][j].pre >= busy'[i]
              /\ next'[i][j].refresh >= busy'[i]
              /\ open'[i][j] => busy'[i] = 0
    BY DEF BusySpaced
  <2>1. /\ next'[i][j].act >= next[i][j].act /\ next'[i][j].pre >= next[i][j].pre
        /\ next'[i][j].refresh >= next[i][j].refresh
    BY <1>3 DEF Grown, Kind
  <2>2. /\ next[i][j].act \in Nat /\ next[i][j].pre \in Nat /\ next[i][j].refresh \in Nat
        /\ next'[i][j].act \in Nat /\ next'[i][j].pre \in Nat /\ next'[i][j].refresh \in Nat
        /\ busy[i] \in Nat
    BY <1>1, <1>3 DEF Grown, NextType, Kind, HistoryType
  <2>3. /\ next[i][j].act >= busy[i] /\ next[i][j].pre >= busy[i]
        /\ next[i][j].refresh >= busy[i]
        /\ open[i][j] => busy[i] = 0
    BY <1>1 DEF BusySpaced
  <2>4. CASE i = r
    <3>1. /\ next'[i][j].act >= RefreshTime(r) /\ next'[i][j].pre >= RefreshTime(r)
          /\ next'[i][j].refresh >= RefreshTime(r)
      BY <1>3, <2>4 DEF Shut
    <3>2. busy'[i] = t /\ ~open'[i][j]
      BY <1>2, <2>4
    <3>. QED  BY <1>3, <1>5, <2>2, <3>1, <3>2
  <2>5. CASE i # r
    <3>1. busy'[i] = busy[i] /\ (open'[i][j] <=> open[i][j])
      BY <1>2, <2>5
    <3>. QED  BY <2>1, <2>2, <2>3, <3>1
  <2>. QED  BY <2>4, <2>5
<1>9. RoomForRefreshes'
  <2>. SUFFICES ASSUME NEW i \in Rank
       PROVE  RankRoom(i, busy[i])' /\ \A j \in Bank : BankRoom(i, age[i][j])'
    BY <1>2 DEF RoomForRefreshes
  <2>. DEFINE d == IssueDeadline(left, num_issued_refreshes[i])
              e == IssueDeadline(left', num_issued_refreshes'[i])
  <2>1. /\ due[i] \in Int /\ d \in Int /\ due[i] <= d
    BY DueTimes
  <2>2. e = IF i = r THEN d + T_RFC ELSE d
    <3>1. left \in Int /\ num_issued_refreshes[i] \in Int
      BY <1>1 DEF TypeOK
    <3>2. num_issued_refreshes'[i] =
            IF i = r THEN num_issued_refreshes[i] + 1 ELSE num_issued_refreshes[i]
      BY <1>1, <1>4 DEF TypeOK
    <3>3. left' = left
      BY <1>4
    <3>4. IssueDeadline(left, num_issued_refreshes[i] + 1) = d + T_RFC
      BY <3>1, Deadlines, Zenon
    <3>5. i = r => e = IssueDeadline(left, num_issued_refreshes[i] + 1)
      BY <3>2, <3>3, Zenon
    <3>6. i # r => e = IssueDeadline(left, num_issued_refreshes[i])
      BY <3>2, <3>3, Zenon
    <3>. QED  BY <3>4, <3>5, <3>6, Zenon
  <2>. HIDE DEF d, e
  <2>3. e \in Int /\ e >= d
    BY <2>1, <2>2, Times
  <2>4. due'[i] = due[i] /\ left' = left /\ forced_refresh_mode_on'[i] = forced_refresh_mode_on[i]
    BY <1>4
  <2>5. /\ due[i] >= 1 => busy[i] <= T_RP + d
        /\ IF forced_refresh_mode_on[i] THEN busy[i] = left ELSE busy[i] <= T_RP + T_RFC
        /\ \A j \in Bank : /\ WithinTime(age[i][j], Later(due[i], 0))
                           /\ - age[i][j].PRE <= IssueDeadline(Window, 0)
                           /\ due[i] >= 1 => - age[i][j].PRE <= d
    BY <1>1 DEF RoomForRefreshes, RankRoom, BankRoom, d
  <2>6. due[i] >= 1 => busy'[i] <= T_RP + e
    <3>1. CASE i = r
      BY <1>2, <1>5, <2>1, <2>2, <3>1, Times
    <3>2. CASE i # r
      BY <1>2, <2>1, <2>2, <2>5, <3>2
    <3>. QED  BY <3>1, <3>2
  <2>7. IF forced_refresh_mode_on[i] THEN busy'[i] = left ELSE busy'[i] <= T_RP + T_RFC
    BY <1>2, <1>4, <1>5, <2>5
  <2>8. RankRoom(i, busy[i])'
    BY <2>4, <2>6, <2>7 DEF RankRoom, e
  <2>9. ASSUME NEW j \in Bank PROVE BankRoom(i, age[i][j])'
    <3>1. age[i][j].PRE \in Int
      BY <1>1 DEF HistoryType, Age
    <3>2. due[i] >= 1 => - age[i][j].PRE <= e
      BY <2>1, <2>3, <2>5, <3>1
    <3>. QED  BY <1>2, <2>4, <2>5, <3>2 DEF BankRoom, e
  <2>. QED  BY <2>8, <2>9
<1>10. Protocol!LegalRefresh(r)
  <2>1. ASSUME NEW b \in Bank
        PROVE  busy[r] = 0 /\ Protocol!UntilPre(r, b) = 0 /\ age[r][b].PRE >= T_RP
    <3>1. WithinTime(age[r][b], 0) /\ busy[r] = 0 /\ age[r][b].PRE >= T_RP
      BY <1>4, NowSpaced
    <3>2. Protocol!UntilPre(r, b) \in Nat /\ Protocol!UntilPre(r, b) <= 0
      BY <1>1, <3>1, UntilPreIs
    <3>. QED  BY <3>1, <3>2
  <2>2. 0 \in Bank
    BY Times DEF Bank
  <2>3. Protocol!Bank = Bank
    BY DEF Protocol!Bank, Bank
  <2>. QED  BY <2>1, <2>2, <2>3 DEF Protocol!LegalRefresh
<1>. QED  BY <1>2, <1>6, <1>7, <1>8, <1>9, <1>10 DEF HistoryInv

(* Power-down and power-up are not part of the protocol: rows stay open or  *)
(* closed.                                                                 *)
LEMMA SleepKeeps ==
  ASSUME Inv, HistoryInv, StateType', Grown, UNCHANGED << record, window, history >>,
         \A i \in Rank, j \in Bank :
           state'[i][j] \in { "ROW_ACTIVE", "ACTIVE_POWER_DOWN" }
             <=> state[i][j] \in { "ROW_ACTIVE", "ACTIVE_POWER_DOWN" }
  PROVE  HistoryInv'
<1>1. /\ HistoryType /\ Rows /\ Spaced /\ BusySpaced /\ RoomForRefreshes /\ NextType
  BY DEF HistoryInv, Inv, TypeOK, NextType
<1>2. open' = open /\ age' = age /\ acts' = acts /\ busy' = busy /\ refreshed' = refreshed
      /\ UNCHANGED window
  BY DEF history
<1>3. HistoryType'
  BY <1>1, <1>2 DEF HistoryType
<1>4. Rows'
  <2>1. ASSUME NEW i \in Rank, NEW j \in Bank
        PROVE  open'[i][j] <=> state'[i][j] \in { "ROW_ACTIVE", "ACTIVE_POWER_DOWN" }
    BY <1>1, <1>2 DEF Rows
  <2>. QED  BY <1>1, <1>2, <2>1 DEF Rows, window
<1>5. Spaced'
  BY <1>1, <1>2, SpacedKept DEF Spaced, Gap
<1>6. BusySpaced'
  BY <1>1, <1>2, BusyKept
<1>7. RoomForRefreshes'
  <2>1. \A r \in Rank, b \in Bank : BankRoom(r, age'[r][b])
    BY <1>1, <1>2 DEF RoomForRefreshes
  <2>. QED  BY <1>1, <1>2, <2>1, RoomKept
<1>. QED  BY <1>3, <1>4, <1>5, <1>6, <1>7 DEF HistoryInv

LEMMA ScheduleKeeps ==
  ASSUME RefreshCovers, HInv, HSchedule
  PROVE  HistoryInv' /\ [Protocol!Next]_(Protocol!vars)
<1>1. /\ Inv /\ HistoryInv /\ Schedule /\ Protocol!Effect(command')
      /\ TypeOK /\ StateInv /\ ColumnOpen /\ StateType
  BY DEF HInv, HSchedule, Inv, TypeOK, StateType
<1>2. PICK r \in Rank :
        \/ \E b \in Bank :
             \/ Activate(r, b) \/ ColRead(r, b) \/ ColWrite(r, b) \/ Precharge(r, b)
             \/ PowerUpForRequest(r, b) \/ issue_autoprecharge(r, b)
        \/ issue_powerup_command(r) \/ issue_all_bank_precharge_command(r)
        \/ issue_refresh_command(r)
        \/ \E op \in { "PDF", "PDS" } : issue_powerdown_command(r, op)
  BY <1>1 DEF Schedule
<1>3. 0 \in Bank /\ Protocol!Rank = Rank /\ Protocol!Bank = Bank
  BY Times DEF Bank, Rank, Protocol!Rank, Protocol!Bank
<1>4. StateType' /\ StateInv' /\ Grown
  BY <1>1, ScheduleStates
<1>5. ASSUME NEW op \in { "ACT", "RD", "WR", "PRE", "PREA", "AUTO", "REF" }, NEW b \in Bank,
             command' = [ op |-> op, r |-> r, b |-> b ], Protocol!Legal(command')
      PROVE  Protocol!Next
  <2>1. command' \in [ op : { "ACT", "RD", "WR", "PRE", "PREA", "AUTO", "REF" },
                       r : Protocol!Rank, b : Protocol!Bank ]
    BY <1>3, <1>5
  <2>. QED  BY <1>1, <1>5, <2>1, Zenon DEF Protocol!Next
<1>6. ASSUME NEW b \in Bank, Activate(r, b)
      PROVE  HistoryInv' /\ Protocol!Next
  <2>1. HistoryInv' /\ Protocol!LegalActivate(r, b)
    BY <1>1, <1>6, ActivateKeeps
  <2>2. command' = [ op |-> "ACT", r |-> r, b |-> b ]
    BY <1>6 DEF Activate, Issue
  <2>3. Protocol!Legal(command')
    BY <2>1, <2>2 DEF Protocol!Legal
  <2>. QED  BY <1>5, <2>1, <2>2, <2>3
<1>7. ASSUME NEW b \in Bank, ColRead(r, b)
      PROVE  HistoryInv' /\ Protocol!Next
  <2>1. HistoryInv' /\ Protocol!LegalColumn("RD", r, b)
    BY <1>1, <1>7, ReadKeeps
  <2>2. command' = [ op |-> "RD", r |-> r, b |-> b ]
    BY <1>7 DEF ColRead, Issue
  <2>3. Protocol!Legal(command')
    BY <2>1, <2>2 DEF Protocol!Legal
  <2>. QED  BY <1>5, <2>1, <2>2, <2>3
<1>8. ASSUME NEW b \in Bank, ColWrite(r, b)
      PROVE  HistoryInv' /\ Protocol!Next
  <2>1. HistoryInv' /\ Protocol!LegalColumn("WR", r, b)
    BY <1>1, <1>8, WriteKeeps
  <2>2. command' = [ op |-> "WR", r |-> r, b |-> b ]
    BY <1>8 DEF ColWrite, Issue
  <2>3. Protocol!Legal(command')
    BY <2>1, <2>2 DEF Protocol!Legal
  <2>. QED  BY <1>5, <2>1, <2>2, <2>3
<1>9. ASSUME NEW b \in Bank, Precharge(r, b)
      PROVE  HistoryInv' /\ Protocol!Next
  <2>1. HistoryInv' /\ Protocol!LegalPrecharge(r, b)
    BY <1>1, <1>9, PrechargeKeeps
  <2>2. command' = [ op |-> "PRE", r |-> r, b |-> b ]
    BY <1>9 DEF Precharge, Issue
  <2>3. Protocol!Legal(command')
    BY <2>1, <2>2 DEF Protocol!Legal
  <2>. QED  BY <1>5, <2>1, <2>2, <2>3
<1>10. ASSUME NEW b \in Bank, issue_autoprecharge(r, b)
       PROVE  HistoryInv' /\ Protocol!Next
  <2>1. HistoryInv' /\ open[r][b]
    BY <1>1, <1>10, AutoKeeps
  <2>2. command' = [ op |-> "AUTO", r |-> r, b |-> b ]
    BY <1>10 DEF issue_autoprecharge
  <2>3. Protocol!Legal(command')
    BY <2>1, <2>2 DEF Protocol!Legal
  <2>. QED  BY <1>5, <2>1, <2>2, <2>3
<1>11. ASSUME issue_all_bank_precharge_command(r)
       PROVE  HistoryInv' /\ Protocol!Next
  <2>1. HistoryInv' /\ \A b \in Bank : Protocol!LegalPrecharge(r, b)
    BY <1>1, <1>11, PrechargeAllKeeps
  <2>2. command' = [ op |-> "PREA", r |-> r, b |-> 0 ]
    BY <1>11 DEF issue_all_bank_precharge_command, Issue
  <2>3. Protocol!Legal(command')
    BY <1>3, <2>1, <2>2 DEF Protocol!Legal
  <2>. QED  BY <1>3, <1>5, <2>1, <2>2, <2>3
<1>12. ASSUME issue_refresh_command(r)
       PROVE  HistoryInv' /\ Protocol!Next
  <2>1. HistoryInv' /\ Protocol!LegalRefresh(r)
    BY <1>1, <1>12, RefreshKeeps
  <2>2. command' = [ op |-> "REF", r |-> r, b |-> 0 ]
    BY <1>12 DEF issue_refresh_command, Issue
  <2>3. Protocol!Legal(command')
    BY <2>1, <2>2 DEF Protocol!Legal
  <2>. QED  BY <1>3, <1>5, <2>1, <2>2, <2>3
<1>13. ASSUME NEW op \in { "PUP", "PUPR", "PDF", "PDS" }, NEW b \in Bank, NEW f,
              command' = [ op |-> op, r |-> r, b |-> b ], UNCHANGED << record, window >>,
              state' = [ state EXCEPT ![r] = [ j \in Bank |-> f[j] ] ],
              \A j \in Bank : f[j] \in { "ROW_ACTIVE", "ACTIVE_POWER_DOWN" }
                                <=> state[r][j] \in { "ROW_ACTIVE", "ACTIVE_POWER_DOWN" }
       PROVE  HistoryInv' /\ UNCHANGED Protocol!vars
  <2>1. UNCHANGED history
    BY <1>1, <1>13, SleepEffect
  <2>2. \A i \in Rank, j \in Bank : state'[i][j] = IF i = r THEN f[j] ELSE state[i][j]
    BY <1>1, <1>13 DEF StateType
  <2>3. \A i \in Rank, j \in Bank :
           state'[i][j] \in { "ROW_ACTIVE", "ACTIVE_POWER_DOWN" }
             <=> state[i][j] \in { "ROW_ACTIVE", "ACTIVE_POWER_DOWN" }
    BY <1>13, <2>2
  <2>4. UNCHANGED << record, window, history >>
    BY <1>13, <2>1
  <2>5. HistoryInv'
    BY <1>1, <1>4, <2>3, <2>4, SleepKeeps
  <2>. QED  BY <2>4, <2>5 DEF Protocol!vars, history, window
<1>14. ASSUME NEW b \in Bank, PowerUpForRequest(r, b) \/ issue_powerup_command(r)
       PROVE  HistoryInv' /\ UNCHANGED Protocol!vars
  <2>. DEFINE f == [ j \in Bank |-> IF state[r][j] \in PrechargeDown THEN "IDLE" ELSE "ROW_ACTIVE" ]
  <2>1. Wake(r) /\ (state[r][b] \in Asleep \/ state[r][0] \in Asleep)
    BY <1>14 DEF PowerUpForRequest, issue_powerup_command, PowerUpIssuable, is_powerup_allowed
  <2>2. state' = [ state EXCEPT ![r] = [ j \in Bank |-> f[j] ] ] /\ UNCHANGED << record, window >>
    BY <1>1, <2>1 DEF Wake, SetState, StateType
  <2>3. \A j \in Bank : state[r][j] \in Asleep
    BY <1>1, <1>3, <2>1 DEF StateInv, SleepTogether
  <2>4. \A j \in Bank : f[j] \in { "ROW_ACTIVE", "ACTIVE_POWER_DOWN" }
                          <=> state[r][j] \in { "ROW_ACTIVE", "ACTIVE_POWER_DOWN" }
    BY <2>3 DEF Asleep, PrechargeDown
  <2>5. \E op \in { "PUP", "PUPR", "PDF", "PDS" }, k \in Bank :
           command' = [ op |-> op, r |-> r, b |-> k ]
    BY <1>3, <1>14 DEF PowerUpForRequest, issue_powerup_command, Issue
  <2>. HIDE DEF f
  <2>. QED  BY <1>13, <2>2, <2>4, <2>5
<1>15. ASSUME NEW op \in { "PDF", "PDS" }, issue_powerdown_command(r, op)
       PROVE  HistoryInv' /\ UNCHANGED Protocol!vars
  <2>. DEFINE f == [ j \in Bank |->
                CASE state[r][j] = "ROW_ACTIVE" -> "ACTIVE_POWER_DOWN"
                  [] OTHER -> IF op = "PDS" THEN "PRECHARGE_POWER_DOWN_SLOW"
                              ELSE "PRECHARGE_POWER_DOWN_FAST" ]
  <2>1. state' = [ state EXCEPT ![r] = [ j \in Bank |-> f[j] ] ] /\ UNCHANGED << record, window >>
    BY <1>1, <1>15 DEF issue_powerdown_command, SetState, StateType
  <2>2. \A j \in Bank : state[r][j] \in Powered
    BY <1>15 DEF issue_powerdown_command, is_powerdown_allowed, Powered
  <2>3. \A j \in Bank : f[j] \in { "ROW_ACTIVE", "ACTIVE_POWER_DOWN" }
                          <=> state[r][j] \in { "ROW_ACTIVE", "ACTIVE_POWER_DOWN" }
    <3>1. \A j \in Bank : state[r][j] # "ACTIVE_POWER_DOWN"
      BY <2>2 DEF Powered, Closed
    <3>2. \A j \in Bank : IF state[r][j] = "ROW_ACTIVE" THEN f[j] = "ACTIVE_POWER_DOWN"
                          ELSE f[j] \in { "PRECHARGE_POWER_DOWN_SLOW", "PRECHARGE_POWER_DOWN_FAST" }
      OBVIOUS
    <3>. HIDE DEF f
    <3>. QED  BY <3>1, <3>2
  <2>4. command' = [ op |-> op, r |-> r, b |-> 0 ] /\ op \in { "PUP", "PUPR", "PDF", "PDS" }
    BY <1>15 DEF issue_powerdown_command, Issue
  <2>. HIDE DEF f
  <2>. QED  BY <1>3, <1>13, <2>1, <2>3, <2>4
<1>. QED  BY <1>2, <1>3, <1>6, <1>7, <1>8, <1>9, <1>10, <1>11, <1>12, <1>14, <1>15

-------------------------------------------------------------------------------
(* A cycle that goes by.                                                   *)
LEMMA CycleTimes ==
  ASSUME TypeOK, update_memory, NEW r \in Rank, NEW b \in Bank, NEW c \in Kind
  PROVE  next'[r][b][c] =
           IF left # 1 /\ Forced(r) /\ c \in Shut THEN left - 1 ELSE Later(next[r][b][c] - 1, 0)
<1>1. next \in [ Rank -> [ Bank -> [ Kind -> Nat ] ] ]
  BY DEF TypeOK
<1>2. DOMAIN next[r][b] = Kind /\ DOMAIN AfterPre = Shut
  BY <1>1, ShutKinds
<1>3. Elapsed(r)[b] = [ k \in Kind |-> Later(next[r][b][k] - 1, 0) ]
  BY <1>2 DEF Elapsed
<1>4. UntilDeadline(Elapsed(r)[b])[c] = IF c \in Shut THEN left - 1 ELSE Elapsed(r)[b][c]
  BY <1>2, <1>3 DEF UntilDeadline
<1>5. next'[r] = IF left # 1 /\ Forced(r) THEN [ j \in Bank |-> UntilDeadline(Elapsed(r)[j]) ]
                                          ELSE Elapsed(r)
  BY DEF update_memory
<1>. QED  BY <1>3, <1>4, <1>5

LEMMA CycleWindow ==
  ASSUME Inv, update_memory, NEW r \in Rank
  PROVE  /\ left = 1 =>
              /\ left' = Window /\ num_issued_refreshes'[r] = 0
              /\ due'[r] = IssueDeadline(Window, 0) /\ forced_refresh_mode_on'[r] = FALSE
         /\ left # 1 =>
              /\ left' = left - 1 /\ num_issued_refreshes'[r] = num_issued_refreshes[r]
              /\ IssueDeadline(left', num_issued_refreshes'[r])
                   = IssueDeadline(left, num_issued_refreshes[r]) - 1
              /\ due'[r] >= due[r] - 1 /\ (due'[r] >= 1 => due[r] > 1)
              /\ forced_refresh_mode_on'[r] <=> forced_refresh_mode_on[r] \/ Forced(r)
         /\ due'[r] \in Int /\ IssueDeadline(left', num_issued_refreshes'[r]) \in Int
         /\ due'[r] <= IssueDeadline(left', num_issued_refreshes'[r])
<1>1. /\ left \in Int /\ due \in [ Rank -> Int ] /\ num_issued_refreshes \in [ Rank -> Nat ]
      /\ forced_refresh_mode_on \in [ Rank -> BOOLEAN ]
  BY DEF Inv, TypeOK
<1>2. due' \in [ Rank -> Int ] /\ due'[r] <= IssueDeadline(left', num_issued_refreshes'[r])
  BY CycleDue DEF Inv, DueInv
<1>3. /\ IssueDeadline(left, num_issued_refreshes[r]) \in Int
      /\ IssueDeadline(left - 1, num_issued_refreshes[r])
           = IssueDeadline(left, num_issued_refreshes[r]) - 1
  <2>1. num_issued_refreshes[r] \in Int
    BY <1>1
  <2>. QED  BY <1>1, <2>1, Deadlines
<1>4. CASE left = 1
  <2>1. /\ left' = Window /\ num_issued_refreshes'[r] = 0
        /\ due'[r] = IssueDeadline(Window, 0) /\ forced_refresh_mode_on'[r] = FALSE
    BY <1>4 DEF update_memory
  <2>2. IssueDeadline(left', num_issued_refreshes'[r]) \in Int
    BY <2>1, WindowRoom
  <2>. QED  BY <1>2, <1>4, <2>1, <2>2
<1>5. CASE left # 1
  <2>1. /\ left' = left - 1 /\ num_issued_refreshes'[r] = num_issued_refreshes[r]
        /\ due'[r] = IF due[r] > 1 THEN IssueDeadline(left - 1, num_issued_refreshes[r])
                                   ELSE due[r] - 1
    BY <1>5 DEF update_memory
  <2>2. forced_refresh_mode_on'[r] <=> forced_refresh_mode_on[r] \/ Forced(r)
    <3>1. forced_refresh_mode_on' = [ i \in Rank |-> forced_refresh_mode_on[i] \/ Forced(i) ]
      BY <1>5 DEF update_memory
    <3>. QED  BY <3>1, Zenon
  <2>3. IssueDeadline(left', num_issued_refreshes'[r])
          = IssueDeadline(left, num_issued_refreshes[r]) - 1
    BY <1>3, <2>1
  <2>4. due'[r] >= due[r] - 1 /\ (due'[r] >= 1 => due[r] > 1)
    <3>1. due[r] \in Int /\ due[r] <= IssueDeadline(left, num_issued_refreshes[r])
      BY DueTimes
    <3>. QED  BY <1>3, <2>1, <3>1
  <2>. QED  BY <1>2, <1>3, <1>5, <2>1, <2>2, <2>3, <2>4
<1>. QED  BY <1>4, <1>5

(* When a rank is refreshed by force, what is left of the window is enough. *)
LEMMA ForcedWindow ==
  ASSUME Inv, NEW r \in Rank, left # 1, Forced(r)
  PROVE  /\ due[r] = 1 /\ ~forced_refresh_mode_on[r]
         /\ left - 1 \in Nat /\ left - 1 >= T_RP + T_RFC
         /\ IssueDeadline(left, num_issued_refreshes[r]) \in Int
         /\ IssueDeadline(left, num_issued_refreshes[r]) >= 1
         /\ IssueDeadline(left, num_issued_refreshes[r]) <= left - T_RP - T_RFC
<1>1. left \in Nat \ {0} /\ num_issued_refreshes[r] \in Nat
  BY WindowRoom DEF Inv, TypeOK
<1>2. due[r] = 1 /\ num_issued_refreshes[r] < REFRESHES
  BY DEF Forced
<1>3. ~forced_refresh_mode_on[r]
  BY <1>2 DEF Inv, DueInv
<1>4. /\ IssueDeadline(left, num_issued_refreshes[r]) \in Int
      /\ due[r] <= IssueDeadline(left, num_issued_refreshes[r])
  BY DueTimes
<1>5. IssueDeadline(left, num_issued_refreshes[r]) <= left - T_RP - T_RFC
  BY <1>1, <1>2, Deadlines
<1>. QED  BY <1>1, <1>2, <1>3, <1>4, <1>5, Times

LEMMA OlderWithin ==
  ASSUME NEW a \in Age, NEW t \in Nat, WithinTime(a, t)
  PROVE  WithinTime(Protocol!Older(a), Later(t - 1, 0))
<1>. DEFINE o == Protocol!Older(a)
            L == Protocol!LONG
<1>1. L \in Age /\ L.ACT = T_RC /\ L.RD >= T_RTP /\ L.WR >= WriteToPre
  BY LongAges
<1>2. /\ o \in Age
      /\ o.ACT = a.ACT + 1 \/ (o.ACT = a.ACT /\ a.ACT >= L.ACT)
      /\ o.RD = a.RD + 1 \/ (o.RD = a.RD /\ a.RD >= L.RD)
      /\ o.WR = a.WR + 1 \/ (o.WR = a.WR /\ a.WR >= L.WR)
  BY OlderAges
<1>. HIDE DEF o, L
<1>3. /\ a.ACT \in Nat /\ a.RD \in Nat /\ a.WR \in Nat
      /\ o.ACT \in Nat /\ o.RD \in Nat /\ o.WR \in Nat
      /\ L.ACT \in Nat /\ L.RD \in Nat /\ L.WR \in Nat
  BY <1>1, <1>2 DEF Age
<1>4. T_RAS <= T_RC /\ WriteToPre \in Nat
  BY TimingAssumption, Times DEF WriteToPre
<1>5. T_RAS - o.ACT <= Later(t - 1, 0)
  BY <1>1, <1>2, <1>3, <1>4, Times DEF WithinTime, Later
<1>6. T_RTP - o.RD <= Later(t - 1, 0)
  BY <1>1, <1>2, <1>3, Times DEF WithinTime, Later
<1>7. WriteToPre - o.WR <= Later(t - 1, 0)
  BY <1>1, <1>2, <1>3, <1>4 DEF WithinTime, Later
<1>. QED  BY <1>5, <1>6, <1>7 DEF WithinTime, o

(* What DramProtocol makes of a cycle.                                     *)
LEMMA TickEffect ==
  ASSUME TypeOK, HistoryType, Rows, Hupdate
  PROVE  /\ update_memory /\ HistoryType'
         /\ \A r \in Rank, b \in Bank :
              /\ open'[r][b] <=> ~(left > 1 /\ Forced(r)) /\ open[r][b]
              /\ age'[r][b] = Protocol!Older(age[r][b])
         /\ \A r \in Rank :
              busy'[r] = IF left > 1 /\ Forced(r) THEN left - 1
                         ELSE IF busy[r] > 0 THEN busy[r] - 1 ELSE 0
         /\ refreshed' = [ r \in Rank |-> IF left = 1 THEN 0
                             ELSE IF left > 1 /\ Forced(r) THEN REFRESHES ELSE refreshed[r] ]
         /\ acts' = record'
<1>. DEFINE F == { r \in Rank : left > 1 /\ Forced(r) }
<1>1. update_memory /\ Protocol!Tick(F)
  BY DEF Hupdate
<1>2. Protocol!Rank = Rank /\ Protocol!Bank = Bank
  BY DEF Protocol!Rank, Protocol!Bank, Rank, Bank
<1>3. /\ age' = [ r \in Rank |-> [ b \in Bank |-> Protocol!Older(age[r][b]) ] ]
      /\ acts' = [ r \in Rank |-> { a + 1 : a \in acts[r] } \cap 0 .. T_FAW ]
      /\ busy' = [ r \in Rank |-> IF r \in F THEN left - 1
                                  ELSE IF busy[r] > 0 THEN busy[r] - 1 ELSE 0 ]
      /\ refreshed' = [ r \in Rank |->
           IF left = 1 THEN 0 ELSE IF r \in F THEN REFRESHES ELSE refreshed[r] ]
      /\ open' = [ r \in Rank |-> [ b \in Bank |-> r \notin F /\ open[r][b] ] ]
  BY <1>1, <1>2, Zenon DEF Protocol!Tick
<1>4. \A r \in Rank : r \in F <=> left > 1 /\ Forced(r)
  OBVIOUS
<1>. HIDE DEF F
<1>5. left \in Nat \ {0}
  BY WindowRoom DEF TypeOK
<1>6. age' \in [ Rank -> [ Bank -> Age ] ]
  BY <1>3, OlderAges DEF HistoryType
<1>7. busy' \in [ Rank -> Nat ]
  BY <1>3, <1>4, <1>5 DEF HistoryType
<1>8. open' \in [ Rank -> [ Bank -> BOOLEAN ] ]
  BY <1>3
<1>9. \A r \in Rank, b \in Bank : open'[r][b] <=> ~(left > 1 /\ Forced(r)) /\ open[r][b]
  BY <1>3, <1>4, Zenon
<1>10. \A r \in Rank, b \in Bank : age'[r][b] = Protocol!Older(age[r][b])
  BY <1>3
<1>11. \A r \in Rank : busy'[r] = IF left > 1 /\ Forced(r) THEN left - 1
                                  ELSE IF busy[r] > 0 THEN busy[r] - 1 ELSE 0
  BY <1>3, <1>4
<1>12. refreshed' = [ r \in Rank |-> IF left = 1 THEN 0
                        ELSE IF left > 1 /\ Forced(r) THEN REFRESHES ELSE refreshed[r] ]
  BY <1>3, <1>4
<1>13. acts' = record'
  <2>1. record' = [ r \in Rank |-> { a + 1 : a \in record[r] } \cap 1 .. T_FAW ]
    BY <1>1 DEF update_memory
  <2>2. ASSUME NEW r \in Rank
        PROVE  { a + 1 : a \in record[r] } \cap 1 .. T_FAW = { a + 1 : a \in record[r] } \cap 0 .. T_FAW
    <3>1. \A a \in record[r] : a \in Nat
      BY Times DEF TypeOK
    <3>2. \A x \in { a + 1 : a \in record[r] } : x \in Nat /\ x >= 1
      BY <3>1
    <3>. QED  BY <3>2, Times
  <2>3. acts = record
    BY DEF Rows
  <2>. QED  BY <1>3, <2>1, <2>2, <2>3
<1>. QED  BY <1>1, <1>6, <1>7, <1>8, <1>9, <1>10, <1>11, <1>12, <1>13 DEF HistoryType

(* The ages of a rank that is refreshed by force: its banks may be closed  *)
(* when it begins.                                                         *)
LEMMA ForcedAges ==
  ASSUME Inv, HistoryInv, NEW r \in Rank, NEW b \in Bank, left # 1, Forced(r)
  PROVE  LET o == Protocol!Older(age[r][b])
         IN  /\ o \in Age
             /\ o.ACT >= T_RAS /\ o.RD >= T_RTP /\ o.WR >= WriteToPre
             /\ left - 1 + o.PRE >= T_RP
<1>. DEFINE a == age[r][b]
            o == Protocol!Older(a)
            d == IssueDeadline(left, num_issued_refreshes[r])
<1>1. a \in Age /\ BankRoom(r, a)
  BY DEF HistoryInv, HistoryType, RoomForRefreshes
<1>2. due[r] = 1 /\ left - 1 \in Nat /\ left \in Int /\ d \in Int /\ d <= left - T_RP - T_RFC
  BY ForcedWindow DEF Inv, TypeOK
<1>3. WithinTime(a, 1) /\ - a.PRE <= d
  BY <1>1, <1>2 DEF BankRoom, Later
<1>4. WithinTime(o, 0)
  <2>1. Later(1 - 1, 0) = 0
    BY DEF Later
  <2>. QED  BY <1>1, <1>3, <2>1, OlderWithin
<1>5. /\ o \in Age
      /\ o.PRE = a.PRE + 1 \/ (o.PRE = a.PRE /\ a.PRE >= T_RP)
  BY <1>1, OlderAges, LongAges
<1>. HIDE DEF a, o, d
<1>6. o.ACT \in Nat /\ o.RD \in Nat /\ o.WR \in Nat /\ o.PRE \in Int /\ a.PRE \in Int
  BY <1>1, <1>5 DEF Age
<1>7. WriteToPre \in Nat
  BY Times DEF WriteToPre
<1>8. o.ACT >= T_RAS /\ o.RD >= T_RTP /\ o.WR >= WriteToPre
  BY <1>4, <1>6, <1>7, Times DEF WithinTime
<1>9. left - 1 + o.PRE >= T_RP
  BY <1>2, <1>3, <1>5, <1>6, Times
<1>. QED  BY <1>5, <1>8, <1>9 DEF o, a

LEMMA TickSpaced ==
  ASSUME Inv, HistoryInv, Hupdate
  PROVE  Spaced'
<1>1. TypeOK /\ NextType /\ HistoryType /\ Rows /\ Spaced
  BY DEF Inv, TypeOK, NextType, HistoryInv
<1>2. /\ update_memory /\ HistoryType'
      /\ \A i \in Rank, j \in Bank : age'[i][j] = Protocol!Older(age[i][j])
  BY <1>1, TickEffect
<1>. SUFFICES ASSUME NEW r \in Rank, NEW i \in Rank, NEW b \in Bank, NEW j \in Bank
     PROVE  /\ BusSpaced(next'[r][b], age'[i][j], Gap(i, r))
            /\ i = r => RankSpaced(next'[r][b], age'[i][j])
            /\ i = r /\ j = b => BankSpaced(next'[r][b], age'[i][j])
  BY DEF Spaced, Gap
<1>. DEFINE n == next[r][b]
            m == next'[r][b]
            k == [ c \in Kind |-> Later(n[c] - 1, 0) ]
            a == age[i][j]
            o == Protocol!Older(a)
<1>3. n \in [ Kind -> Nat ] /\ a \in Age /\ Gap(i, r) \in { 0, T_RTRS } /\ age'[i][j] = o
  BY <1>1, <1>2 DEF NextType, HistoryType, Gap
<1>4. m \in [ Kind -> Nat ]
  BY <1>1, <1>2, CycleStates DEF Inv, NextType
<1>5. /\ BusSpaced(n, a, Gap(i, r))
      /\ i = r => RankSpaced(n, a)
      /\ i = r /\ j = b => BankSpaced(n, a)
  BY <1>1 DEF Spaced
<1>6. \A c \in Kind :
        m[c] = IF left # 1 /\ Forced(r) /\ c \in Shut THEN left - 1 ELSE Later(n[c] - 1, 0)
  BY <1>1, <1>2, CycleTimes
<1>. HIDE DEF n, m, a, o
<1>7. /\ k \in [ Kind -> Nat ]
      /\ \A c \in Kind : k[c] = Later(n[c] - 1, 0) /\ k[c] >= n[c] - 1
  BY <1>3 DEF Later
<1>. HIDE DEF k
<1>8. /\ BusSpaced(k, o, Gap(i, r))
      /\ i = r => RankSpaced(k, o)
      /\ i = r /\ j = b => BankSpaced(k, o)
  BY <1>3, <1>5, <1>7, SpacedOlder DEF o
<1>9. CASE ~(left # 1 /\ Forced(r))
  <2>1. \A c \in Kind : m[c] = k[c]
    BY <1>6, <1>7, <1>9
  <2>2. m = k
    BY <1>4, <1>7, <2>1
  <2>. QED  BY <1>3, <1>8, <2>2 DEF m
<1>10. CASE left # 1 /\ Forced(r)
  <2>1. m.read = k.read /\ m.write = k.write
    BY <1>6, <1>7 DEF Kind, Shut
  <2>2. m.act = left - 1 /\ m.pre = left - 1 /\ m.refresh = left - 1
    BY <1>6, <1>10 DEF Kind, Shut
  <2>3. BusSpaced(m, o, Gap(i, r))
    BY <1>8, <2>1 DEF BusSpaced
  <2>4. left - 1 \in Nat /\ left - 1 >= T_RP + T_RFC
    BY <1>10, ForcedWindow
  <2>5. i = r => /\ o \in Age /\ o.ACT >= T_RAS /\ o.RD >= T_RTP /\ o.WR >= WriteToPre
                 /\ left - 1 + o.PRE >= T_RP
    BY <1>10, ForcedAges DEF o, a
  <2>6. i = r => o.ACT \in Nat /\ o.RD \in Nat /\ o.WR \in Nat /\ o.PRE \in Int
    BY <2>5 DEF Age
  <2>7. T_RC <= T_RAS + T_RP + T_RFC /\ T_RRD <= T_RC /\ WriteToPre \in Nat
    BY TimingAssumption, Times DEF WriteToPre
  <2>8. i = r => left - 1 + o.ACT >= T_RC /\ left - 1 + o.ACT >= T_RRD
    BY <2>4, <2>5, <2>6, <2>7, Times
  <2>9. i = r => RankSpaced(m, o)
    BY <1>8, <2>1, <2>2, <2>8 DEF RankSpaced
  <2>10. i = r => /\ left - 1 + o.ACT >= T_RAS /\ left - 1 + o.RD >= T_RTP
                  /\ left - 1 + o.WR >= WriteToPre
    BY <2>4, <2>5, <2>6, <2>7, Times
  <2>11. i = r /\ j = b => BankSpaced(m, o)
    BY <1>8, <2>1, <2>2, <2>5, <2>8, <2>10 DEF BankSpaced
  <2>. QED  BY <1>3, <2>3, <2>9, <2>11 DEF m
<1>. QED  BY <1>9, <1>10

LEMMA TickBusy ==
  ASSUME Inv, HistoryInv, Hupdate
  PROVE  BusySpaced'
<1>1. TypeOK /\ NextType /\ HistoryType /\ Rows /\ BusySpaced
  BY DEF Inv, TypeOK, NextType, HistoryInv
<1>2. /\ update_memory
      /\ \A r \in Rank, b \in Bank : open'[r][b] <=> ~(left > 1 /\ Forced(r)) /\ open[r][b]
      /\ \A r \in Rank :
           busy'[r] = IF left > 1 /\ Forced(r) THEN left - 1
                      ELSE IF busy[r] > 0 THEN busy[r] - 1 ELSE 0
  BY <1>1, TickEffect
<1>. SUFFICES ASSUME NEW r \in Rank, NEW b \in Bank
     PROVE  /\ next'[r][b].act >= busy'[r] /\ next'[r][b].pre >= busy'[r]
            /\ next'[r][b].refresh >= busy'[r]
            /\ open'[r][b] => busy'[r] = 0
  BY DEF BusySpaced
<1>3. left \in Nat \ {0} /\ busy[r] \in Nat
  BY <1>1, WindowRoom DEF TypeOK, HistoryType
<1>4. /\ next[r][b].act \in Nat /\ next[r][b].pre \in Nat /\ next[r][b].refresh \in Nat
  BY <1>1, KindTimes DEF NextType
<1>5. /\ next[r][b].act >= busy[r] /\ next[r][b].pre >= busy[r]
      /\ next[r][b].refresh >= busy[r]
      /\ open[r][b] => busy[r] = 0
  BY <1>1 DEF BusySpaced
<1>6. { "act", "pre", "refresh" } \subseteq Kind /\ { "act", "pre", "refresh" } \subseteq Shut
  BY DEF Kind, Shut
<1>7. CASE left # 1 /\ Forced(r)
  <2>1. /\ next'[r][b].act = left - 1 /\ next'[r][b].pre = left - 1
        /\ next'[r][b].refresh = left - 1
    BY <1>1, <1>2, <1>6, <1>7, CycleTimes
  <2>2. left > 1
    BY <1>3, <1>7
  <2>3. busy'[r] = left - 1 /\ ~open'[r][b]
    BY <1>2, <1>7, <2>2
  <2>. QED  BY <1>3, <2>1, <2>3
<1>8. CASE ~(left # 1 /\ Forced(r))
  <2>1. /\ next'[r][b].act = Later(next[r][b].act - 1, 0)
        /\ next'[r][b].pre = Later(next[r][b].pre - 1, 0)
        /\ next'[r][b].refresh = Later(next[r][b].refresh - 1, 0)
    BY <1>1, <1>2, <1>6, <1>8, CycleTimes
  <2>2. ~(left > 1 /\ Forced(r))
    BY <1>3, <1>8
  <2>3. /\ busy'[r] = IF busy[r] > 0 THEN busy[r] - 1 ELSE 0
        /\ open'[r][b] => open[r][b]
    BY <1>2, <2>2
  <2>. QED  BY <1>3, <1>4, <1>5, <2>1, <2>3 DEF Later
<1>. QED  BY <1>7, <1>8

LEMMA TickRows ==
  ASSUME Inv, HistoryInv, Hupdate
  PROVE  Rows'
<1>1. TypeOK /\ HistoryType /\ Rows /\ left \in Nat \ {0}
  BY WindowRoom DEF Inv, TypeOK, HistoryInv
<1>2. /\ update_memory
      /\ \A r \in Rank, b \in Bank : open'[r][b] <=> ~(left > 1 /\ Forced(r)) /\ open[r][b]
      /\ refreshed' = [ r \in Rank |-> IF left = 1 THEN 0
                          ELSE IF left > 1 /\ Forced(r) THEN REFRESHES ELSE refreshed[r] ]
      /\ acts' = record'
  BY <1>1, TickEffect
<1>3. left > 1 <=> left # 1
  BY <1>1
<1>4. ASSUME NEW r \in Rank, NEW b \in Bank
      PROVE  open'[r][b] <=> state'[r][b] \in { "ROW_ACTIVE", "ACTIVE_POWER_DOWN" }
  <2>1. open[r][b] <=> state[r][b] \in { "ROW_ACTIVE", "ACTIVE_POWER_DOWN" }
    BY <1>1 DEF Rows
  <2>2. state'[r][b] = IF left # 1 /\ Forced(r) THEN "REFRESHING" ELSE state[r][b]
    BY <1>2 DEF update_memory
  <2>3. open'[r][b] <=> ~(left # 1 /\ Forced(r)) /\ open[r][b]
    BY <1>2, <1>3
  <2>. QED  BY <2>1, <2>2, <2>3
<1>5. refreshed' = [ r \in Rank |->
        IF forced_refresh_mode_on'[r] THEN REFRESHES ELSE num_issued_refreshes'[r] ]
  <2>1. \A r \in Rank :
          refreshed[r] = IF forced_refresh_mode_on[r] THEN REFRESHES ELSE num_issued_refreshes[r]
    BY <1>1 DEF Rows
  <2>2. CASE left = 1
    <3>1. /\ num_issued_refreshes' = [ r \in Rank |-> 0 ]
          /\ forced_refresh_mode_on' = [ r \in Rank |-> FALSE ]
      BY <1>2, <2>2 DEF update_memory
    <3>. QED  BY <1>2, <2>2, <3>1
  <2>3. CASE left # 1
    <3>1. num_issued_refreshes' = num_issued_refreshes
      BY <1>2, <2>3 DEF update_memory
    <3>2. ASSUME NEW r \in Rank
          PROVE  forced_refresh_mode_on'[r] <=> forced_refresh_mode_on[r] \/ Forced(r)
      BY <1>2, <2>3, CycleWindow DEF Inv
    <3>3. ASSUME NEW r \in Rank
          PROVE  (IF left > 1 /\ Forced(r) THEN REFRESHES ELSE refreshed[r])
                   = IF forced_refresh_mode_on'[r] THEN REFRESHES ELSE num_issued_refreshes'[r]
      BY <1>3, <2>1, <2>3, <3>1, <3>2
    <3>. QED  BY <1>2, <2>3, <3>3
  <2>. QED  BY <2>2, <2>3
<1>. QED  BY <1>2, <1>4, <1>5 DEF Rows

LEMMA TickRoom ==
  ASSUME Inv, HistoryInv, Hupdate
  PROVE  RoomForRefreshes'
<1>1. TypeOK /\ HistoryType /\ Rows /\ RoomForRefreshes
  BY DEF Inv, HistoryInv
<1>2. /\ update_memory /\ HistoryType'
      /\ \A i \in Rank, j \in Bank : age'[i][j] = Protocol!Older(age[i][j])
      /\ \A r \in Rank :
           busy'[r] = IF left > 1 /\ Forced(r) THEN left - 1
                      ELSE IF busy[r] > 0 THEN busy[r] - 1 ELSE 0
  BY <1>1, TickEffect
<1>. SUFFICES ASSUME NEW r \in Rank
     PROVE  RankRoom(r, busy[r])' /\ \A b \in Bank : BankRoom(r, age[r][b])'
  BY DEF RoomForRefreshes
<1>. DEFINE d == IssueDeadline(left, num_issued_refreshes[r])
            e == IssueDeadline(left', num_issued_refreshes'[r])
            w == IssueDeadline(Window, 0)
<1>3. /\ due[r] \in Int /\ d \in Int /\ due[r] <= d
  BY DueTimes
<1>4. /\ due'[r] \in Int /\ e \in Int /\ due'[r] <= e
      /\ left = 1 => /\ e = w /\ due'[r] = w /\ ~forced_refresh_mode_on'[r]
      /\ left # 1 => /\ left' = left - 1 /\ e = d - 1
                     /\ due'[r] >= due[r] - 1 /\ (due'[r] >= 1 => due[r] > 1)
                     /\ forced_refresh_mode_on'[r] <=> forced_refresh_mode_on[r] \/ Forced(r)
  BY <1>2, CycleWindow
<1>5. w \in Nat /\ T_RFC <= w
  BY WindowRoom
<1>6. left \in Nat \ {0} /\ busy[r] \in Nat
  BY <1>1, WindowRoom DEF TypeOK, HistoryType
<1>7. /\ due[r] >= 1 => busy[r] <= T_RP + d
      /\ IF forced_refresh_mode_on[r] THEN busy[r] = left ELSE busy[r] <= T_RP + T_RFC
  BY <1>1 DEF RoomForRefreshes, RankRoom
<1>8. forced_refresh_mode_on[r] => due[r] <= 0
  BY DEF Inv, DueInv
<1>9. ASSUME NEW b \in Bank PROVE BankRoom(r, age[r][b])'
  <2>. DEFINE a == age[r][b]
              o == Protocol!Older(a)
  <2>1. /\ a \in Age /\ WithinTime(a, Later(due[r], 0)) /\ - a.PRE <= w
        /\ due[r] >= 1 => - a.PRE <= d
    BY <1>1 DEF HistoryType, RoomForRefreshes, BankRoom
  <2>2. /\ o \in Age /\ age'[r][b] = o
        /\ o.PRE = a.PRE + 1 \/ (o.PRE = a.PRE /\ a.PRE >= T_RP)
    BY <1>2, <2>1, OlderAges, LongAges
  <2>. HIDE DEF a, o, d, e, w
  <2>3. o.ACT \in Nat /\ o.RD \in Nat /\ o.WR \in Nat /\ o.PRE \in Int /\ a.PRE \in Int
    BY <2>1, <2>2 DEF Age
  <2>4. - o.PRE <= w
    BY <1>5, <2>1, <2>2, <2>3
  <2>5. due'[r] >= 1 => - o.PRE <= e
    <3>1. CASE left = 1
      BY <1>4, <2>4, <3>1
    <3>2. CASE left # 1
      BY <1>3, <1>4, <2>1, <2>2, <2>3, <3>2, Times
    <3>. QED  BY <3>1, <3>2
  <2>6. WithinTime(o, Later(due'[r], 0))
    <3>1. WriteToPre \in Nat
      BY Times DEF WriteToPre
    <3>2. CASE left = 1
      <4>1. /\ T_RAS <= w /\ T_RTP <= w /\ WriteToPre <= w
        BY WindowRoom DEF w
      <4>2. Later(due'[r], 0) = w
        BY <1>4, <1>5, <3>2 DEF Later
      <4>. QED  BY <1>5, <2>3, <3>1, <4>1, <4>2, Times DEF WithinTime
    <3>3. CASE left # 1
      <4>1. Later(due[r], 0) \in Nat
        BY <1>3 DEF Later
      <4>2. WithinTime(o, Later(Later(due[r], 0) - 1, 0))
        BY <2>1, <4>1, OlderWithin DEF o
      <4>3. /\ Later(Later(due[r], 0) - 1, 0) \in Nat /\ Later(due'[r], 0) \in Nat
            /\ Later(Later(due[r], 0) - 1, 0) <= Later(due'[r], 0)
        BY <1>3, <1>4, <3>3 DEF Later
      <4>. QED  BY <2>3, <3>1, <4>2, <4>3, Times DEF WithinTime
    <3>. QED  BY <3>2, <3>3
  <2>. QED  BY <2>2, <2>4, <2>5, <2>6 DEF BankRoom, e, w
<1>10. RankRoom(r, busy[r])'
  <2>. HIDE DEF d, e, w
  <2>1. (due'[r] >= 1 => busy'[r] <= T_RP + e)
        /\ IF forced_refresh_mode_on'[r] THEN busy'[r] = left' ELSE busy'[r] <= T_RP + T_RFC
    <3>1. CASE left = 1
      <4>1. busy'[r] = IF busy[r] > 0 THEN busy[r] - 1 ELSE 0
        BY <1>2, <3>1
      <4>2. busy'[r] <= T_RP + T_RFC /\ busy'[r] \in Nat
        BY <1>6, <1>7, <3>1, <4>1, Times
      <4>. QED  BY <1>4, <1>5, <3>1, <4>2, Times
    <3>2. CASE left # 1 /\ Forced(r)
      <4>1. left > 1 /\ due[r] = 1
        BY <1>6, <3>2 DEF Forced
      <4>2. busy'[r] = left - 1
        BY <1>2, <3>2, <4>1
      <4>3. forced_refresh_mode_on'[r] /\ left' = left - 1 /\ ~(due'[r] >= 1)
        BY <1>4, <3>2, <4>1
      <4>. QED  BY <4>2, <4>3
    <3>3. CASE left # 1 /\ ~Forced(r)
      <4>1. /\ busy'[r] = IF busy[r] > 0 THEN busy[r] - 1 ELSE 0
            /\ left' = left - 1 /\ e = d - 1
            /\ forced_refresh_mode_on'[r] <=> forced_refresh_mode_on[r]
        BY <1>2, <1>4, <3>3
      <4>2. due'[r] >= 1 => busy'[r] <= T_RP + e
        BY <1>3, <1>4, <1>6, <1>7, <3>3, <4>1, Times
      <4>3. CASE forced_refresh_mode_on[r]
        BY <1>6, <1>7, <4>1, <4>2, <4>3
      <4>4. CASE ~forced_refresh_mode_on[r]
        <5>1. busy'[r] <= T_RP + T_RFC
          BY <1>6, <1>7, <4>1, <4>4, Times
        <5>. QED  BY <4>1, <4>2, <4>4, <5>1
      <4>. QED  BY <4>3, <4>4
    <3>. QED  BY <3>1, <3>2, <3>3
  <2>. QED  BY <2>1 DEF RankRoom, e
<1>. QED  BY <1>9, <1>10

(* At the end of a window every rank has its refreshes, and those that are  *)
(* refreshed by force have the time for what is missing.                   *)
LEMMA TickLegal ==
  ASSUME Inv, HistoryInv, Hupdate
  PROVE  Protocol!Next
<1>1. TypeOK /\ HistoryType /\ Rows /\ RoomForRefreshes /\ left \in Nat \ {0}
  BY WindowRoom DEF Inv, TypeOK, HistoryInv
<1>2. \A r \in Rank : /\ num_issued_refreshes[r] \in Nat
                      /\ refreshed[r] = IF forced_refresh_mode_on[r] THEN REFRESHES
                                        ELSE num_issued_refreshes[r]
  BY <1>1 DEF TypeOK, Rows
<1>3. ASSUME left = 1, NEW r \in Rank PROVE refreshed[r] >= REFRESHES
  <2>1. CASE forced_refresh_mode_on[r]
    BY <1>2, <2>1, Times
  <2>2. CASE ~forced_refresh_mode_on[r]
    <3>1. ASSUME num_issued_refreshes[r] < REFRESHES PROVE FALSE
      <4>1. IssueDeadline(left, num_issued_refreshes[r]) <= left - T_RP - T_RFC
        <5>1. left \in Int /\ num_issued_refreshes[r] \in Int
          BY <1>1, <1>2
        <5>. QED  BY <3>1, <5>1, Deadlines
      <4>2. /\ due[r] \in Int /\ IssueDeadline(left, num_issued_refreshes[r]) \in Int
            /\ due[r] <= IssueDeadline(left, num_issued_refreshes[r])
        BY DueTimes
      <4>3. due[r] <= 0
        BY <1>3, <4>1, <4>2, Times
      <4>4. num_issued_refreshes[r] >= REFRESHES
        BY <2>2, <4>3 DEF Inv, DueInv
      <4>. QED  BY <1>2, <3>1, <4>4, Times
    <3>. QED  BY <1>2, <2>2, <3>1, Times
  <2>. QED  BY <2>1, <2>2
<1>. DEFINE F == { r \in Rank : left > 1 /\ Forced(r) }
<1>4. ASSUME NEW r \in Rank, left > 1, Forced(r) PROVE Protocol!LegalForced(r)
  <2>. DEFINE d == IssueDeadline(left, num_issued_refreshes[r])
  <2>1. /\ due[r] = 1 /\ ~forced_refresh_mode_on[r] /\ d \in Int /\ d >= 1
    BY <1>1, <1>4, ForcedWindow
  <2>2. (REFRESHES - refreshed[r]) * T_RFC = left - T_RP - d
    <3>1. refreshed[r] = num_issued_refreshes[r] /\ num_issued_refreshes[r] \in Int
      BY <1>2, <2>1
    <3>2. left \in Int
      BY <1>1
    <3>3. (REFRESHES - num_issued_refreshes[r]) * T_RFC
            = left - T_RP - IssueDeadline(left, num_issued_refreshes[r])
      BY <3>1, <3>2, Deadlines
    <3>. QED  BY <3>1, <3>3, Zenon DEF d
  <2>3. busy[r] \in Nat /\ busy[r] <= T_RP + d
    BY <1>1, <2>1 DEF HistoryType, RoomForRefreshes, RankRoom
  <2>. HIDE DEF d
  <2>4. ASSUME NEW b \in Bank
        PROVE  /\ open[r][b] => Protocol!UntilPre(r, b) <= 1
               /\ LET closed == IF open[r][b] THEN 1 + T_RP ELSE Protocol!UntilClosed(r, b)
                  IN  Protocol!Biggest({ 1, busy[r], closed }) + (REFRESHES - refreshed[r]) * T_RFC <= left
    <3>. DEFINE closed == IF open[r][b] THEN 1 + T_RP ELSE Protocol!UntilClosed(r, b)
    <3>1. age[r][b].PRE \in Int /\ BankRoom(r, age[r][b])
      BY <1>1 DEF HistoryType, Age, RoomForRefreshes
    <3>2. WithinTime(age[r][b], 1) /\ - age[r][b].PRE <= d
      BY <2>1, <3>1 DEF BankRoom, Later, d
    <3>3. Protocol!UntilPre(r, b) <= 1
      BY <1>1, <3>2, UntilPreIs
    <3>4. closed \in Int /\ closed <= T_RP + d
      <4>1. CASE open[r][b]
        BY <2>1, <4>1, Times
      <4>2. CASE ~open[r][b]
        <5>1. closed = Protocol!Biggest({ 0, T_RP - age[r][b].PRE })
          BY <4>2 DEF Protocol!UntilClosed
        <5>2. T_RP - age[r][b].PRE \in Int
          BY <3>1, Times
        <5>3. closed \in { 0, T_RP - age[r][b].PRE }
          <6>1. 0 \in Int
            OBVIOUS
          <6>2. Protocol!Biggest({ 0, T_RP - age[r][b].PRE }) \in { 0, T_RP - age[r][b].PRE }
            BY <5>2, <6>1, BiggestOfTwo, Zenon
          <6>. HIDE DEF closed
          <6>. QED  BY <5>1, <6>2, Zenon
        <5>. HIDE DEF closed
        <5>. QED  BY <2>1, <3>1, <3>2, <5>2, <5>3, Times
      <4>. QED  BY <4>1, <4>2
    <3>. HIDE DEF closed
    <3>5. Protocol!Biggest({ 1, busy[r], closed }) \in { 1, busy[r], closed }
      <4>1. 1 \in Int /\ busy[r] \in Int /\ closed \in Int
        BY <2>3, <3>4
      <4>. QED  BY <4>1, BiggestOfThree, Zenon
    <3>6. /\ Protocol!Biggest({ 1, busy[r], closed }) \in Int
          /\ Protocol!Biggest({ 1, busy[r], closed }) <= T_RP + d
      BY <2>1, <2>3, <3>4, <3>5, Times
    <3>7. Protocol!Biggest({ 1, busy[r], closed }) + (left - T_RP - d) <= left
      BY <1>1, <2>1, <3>6, Times
    <3>8. Protocol!Biggest({ 1, busy[r], closed }) + (REFRESHES - refreshed[r]) * T_RFC <= left
      BY <2>2, <3>7
    <3>. QED  BY <3>3, <3>8 DEF closed
  <2>5. Protocol!Bank = Bank
    BY DEF Protocol!Bank, Bank
  <2>. QED  BY <2>4, <2>5, Zenon DEF Protocol!LegalForced
<1>5. Protocol!Tick(F) /\ F \in SUBSET Rank /\ \A r \in F : Protocol!LegalForced(r)
  BY <1>4 DEF Hupdate
<1>6. Protocol!Rank = Rank
  BY DEF Protocol!Rank, Rank
<1>. HIDE DEF F
<1>. QED  BY <1>3, <1>5, <1>6, Zenon DEF Protocol!Next

-------------------------------------------------------------------------------
LEMMA HistoryInit == HInit => HInv /\ Protocol!Init
<1>. SUFFICES ASSUME HInit PROVE HInv /\ Protocol!Init
  OBVIOUS
<1>1. Init /\ Inv
  BY InvInit DEF HInit
<1>2. /\ open = [ r \in Rank |-> [ b \in Bank |-> FALSE ] ]
      /\ age = [ r \in Rank |-> [ b \in Bank |-> Protocol!LONG ] ]
      /\ acts = [ r \in Rank |-> {} ]
      /\ busy = [ r \in Rank |-> 0 ] /\ refreshed = [ r \in Rank |-> 0 ]
  BY DEF HInit
<1>3. /\ state = [ r \in Rank |-> [ b \in Bank |-> "IDLE" ] ]
      /\ record = [ r \in Rank |-> {} ] /\ left = Window
      /\ due = [ r \in Rank |-> IssueDeadline(Window, 0) ]
      /\ num_issued_refreshes = [ r \in Rank |-> 0 ]
      /\ forced_refresh_mode_on = [ r \in Rank |-> FALSE ]
  BY <1>1 DEF Init
<1>4. HistoryType
  BY <1>2, LongAges DEF HistoryType
<1>5. Rows
  BY <1>2, <1>3 DEF Rows
<1>6. ASSUME NEW n \in [ Kind -> Nat ], NEW gap \in { 0, T_RTRS }
      PROVE  /\ BusSpaced(n, Protocol!LONG, gap) /\ RankSpaced(n, Protocol!LONG)
             /\ BankSpaced(n, Protocol!LONG)
  <2>. DEFINE L == Protocol!LONG
  <2>1. /\ L \in Age /\ L.ACT = T_RC /\ L.PRE = T_RP
        /\ L.RD >= T_RTP /\ L.RD >= T_CCD /\ L.RD >= T_CAS + T_DATA_TRANS + T_RTRS - T_CWD
        /\ L.RD >= T_DATA_TRANS + T_RTRS
        /\ L.WR >= T_CCD /\ L.WR >= WriteToPre /\ L.WR >= T_CWD + T_DATA_TRANS + T_WTR
        /\ L.WR >= T_CWD + T_DATA_TRANS + T_RTRS
    BY LongAges
  <2>. HIDE DEF L
  <2>2. L.RD \in Nat /\ L.WR \in Nat
    BY <2>1 DEF Age
  <2>3. n.act \in Nat /\ n.pre \in Nat /\ n.read \in Nat /\ n.write \in Nat /\ n.refresh \in Nat
    BY KindTimes
  <2>4. T_RAS <= T_RC /\ T_RCD <= T_RC /\ T_RRD <= T_RC /\ WriteToPre \in Nat
    BY TimingAssumption, Times DEF WriteToPre
  <2>5. BusSpaced(n, L, gap)
    BY <2>1, <2>2, <2>3, Times DEF BusSpaced
  <2>6. RankSpaced(n, L)
    BY <2>1, <2>2, <2>3, <2>4, Times DEF RankSpaced
  <2>7. BankSpaced(n, L)
    BY <2>1, <2>2, <2>3, <2>4, Times DEF BankSpaced
  <2>. QED  BY <2>5, <2>6, <2>7 DEF L
<1>7. Spaced
  <2>1. \A r \in Rank, b \in Bank : next[r][b] \in [ Kind -> Nat ]
    BY <1>1 DEF Inv, TypeOK
  <2>. QED  BY <1>2, <1>6, <2>1 DEF Spaced, Gap
<1>8. BusySpaced
  <2>1. \A r \in Rank, b \in Bank : next[r][b] \in [ Kind -> Nat ]
    BY <1>1 DEF Inv, TypeOK
  <2>. QED  BY <1>2, <2>1, KindTimes DEF BusySpaced
<1>9. RoomForRefreshes
  <2>. SUFFICES ASSUME NEW r \in Rank
       PROVE  RankRoom(r, 0) /\ BankRoom(r, Protocol!LONG)
    BY <1>2 DEF RoomForRefreshes
  <2>1. /\ Protocol!LONG \in Age /\ Protocol!LONG.ACT = T_RC /\ Protocol!LONG.PRE = T_RP
        /\ Protocol!LONG.RD >= T_RTP /\ Protocol!LONG.WR >= WriteToPre
    BY LongAges
  <2>2. Protocol!LONG.RD \in Nat /\ Protocol!LONG.WR \in Nat /\ WriteToPre \in Nat /\ T_RAS <= T_RC
    BY <2>1, TimingAssumption, Times DEF Age, WriteToPre
  <2>3. IssueDeadline(Window, 0) \in Nat
    BY WindowRoom
  <2>4. /\ due[r] = IssueDeadline(Window, 0) /\ left = Window /\ num_issued_refreshes[r] = 0
        /\ forced_refresh_mode_on[r] = FALSE
    BY <1>3
  <2>5. WithinTime(Protocol!LONG, Later(due[r], 0))
    BY <2>1, <2>2, <2>3, <2>4, Times DEF WithinTime, Later
  <2>6. - Protocol!LONG.PRE <= IssueDeadline(Window, 0)
    BY <2>1, <2>3, Times
  <2>. QED  BY <2>3, <2>4, <2>5, <2>6, Times DEF RankRoom, BankRoom
<1>10. Protocol!Init
  <2>1. Protocol!Rank = Rank /\ Protocol!Bank = Bank
    BY DEF Protocol!Rank, Protocol!Bank, Rank, Bank
  <2>. QED  BY <1>2, <1>3, <2>1 DEF Protocol!Init, Window
<1>. QED  BY <1>1, <1>4, <1>5, <1>7, <1>8, <1>9, <1>10 DEF HInv, HistoryInv

LEMMA HistoryNext ==
  RefreshCovers /\ HInv /\ [HNext]_<< vars, history >> => HInv' /\ [Protocol!Next]_(Protocol!vars)
<1>. SUFFICES ASSUME RefreshCovers, HInv, [HNext]_<< vars, history >>
     PROVE  HInv' /\ [Protocol!Next]_(Protocol!vars)
  OBVIOUS
<1>1. Inv /\ HistoryInv
  BY DEF HInv
<1>2. CASE HSchedule
  <2>1. Inv'
    BY <1>1, <1>2, InvNext DEF HSchedule, Next
  <2>. QED  BY <1>2, <2>1, ScheduleKeeps DEF HInv
<1>3. CASE Hupdate
  <2>1. Inv'
    BY <1>1, <1>3, InvNext DEF Hupdate, Next
  <2>2. HistoryType'
    BY <1>1, <1>3, TickEffect DEF Inv, HistoryInv
  <2>3. HistoryInv'
    BY <1>1, <1>3, <2>2, TickRows, TickSpaced, TickBusy, TickRoom DEF HistoryInv
  <2>. QED  BY <1>1, <1>3, <2>1, <2>3, TickLegal DEF HInv
<1>4. CASE UNCHANGED << vars, history >>
  <2>1. Inv'
    BY <1>1, <1>4, InvNext
  <2>2. /\ UNCHANGED << state, next, record, left, due, num_issued_refreshes, forced_refresh_mode_on >>
        /\ UNCHANGED << open, age, acts, busy, refreshed >>
    BY <1>4 DEF vars, window, history
  <2>3. HistoryInv'
    BY <1>1, <2>2 DEF HistoryInv, HistoryType, Rows, Spaced, BusySpaced, RoomForRefreshes,
      RankRoom, BankRoom
  <2>. QED  BY <2>1, <2>2, <2>3 DEF HInv, Protocol!vars
<1>. QED  BY <1>2, <1>3, <1>4 DEF HNext

(* Every schedule that uses what is_..._allowed allows keeps the protocol   *)
(* of the DRAM, for every number of ranks and banks and every timing of    *)
(* TimingAssumption: no command comes too early, the data bus is passed on *)
(* in time, and each window has its refreshes.                             *)
THEOREM ProtocolImplemented == RefreshCovers /\ HSpec => ProtocolKept
<1>1. RefreshCovers /\ [HNext]_<< vars, history >> => RefreshCovers'
  BY DEF RefreshCovers
<1>. QED  BY <1>1, HistoryInit, HistoryNext, PTL DEF HSpec, ProtocolKept, Protocol!Spec

===============================================================================

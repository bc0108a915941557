SPECIFICATION HSpec
CONSTANTS
  NUM_RANKS = 2
  NUM_BANKS = 2
  T_RCD = 1
  T_RP = 1
  T_CAS = 1
  T_RAS = 2
  T_RC = 3
  T_CWD = 1
  T_WR = 1
  T_WTR = 1
  T_RTRS = 1
  T_DATA_TRANS = 1
  T_RTP = 1
  T_CCD = 1
  T_XP = 1
  T_XP_DLL = 2
  T_PD_MIN = 1
  T_RRD = 1
  T_FAW = 2
  T_REFI = 4
  T_RFC = 1
  REFRESHES = 2
  ACTIVATES = 1
  Issued = {"ACT", "RD", "WR", "PRE", "AUTO", "PREA", "REF", "PDF", "PDS", "PUP", "PUPR"}
INVARIANTS TypeOK SleepTogether
PROPERTY ProtocolKept

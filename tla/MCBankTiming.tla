----------------------------- MODULE MCBankTiming -----------------------------
(* BankTiming with the history that DramProtocol speaks of: the commands    *)
(* take their effect on it whether they are legal or not.                   *)
EXTENDS BankTiming

VARIABLES open, age, acts, busy, refreshed

Protocol == INSTANCE DramProtocol
  WITH open <- open, age <- age, acts <- acts, busy <- busy,
       refreshed <- refreshed, left <- left

history == << open, age, acts, busy, refreshed >>

HInit ==
  /\ Init
  /\ open = [ r \in Rank |-> [ b \in Bank |-> FALSE ] ]
  /\ age = [ r \in Rank |-> [ b \in Bank |-> Protocol!LONG ] ]
  /\ acts = [ r \in Rank |-> {} ]
  /\ busy = [ r \in Rank |-> 0 ] /\ refreshed = [ r \in Rank |-> 0 ]

HSchedule == Schedule /\ Protocol!Effect(command')
Hupdate == update_memory /\ Protocol!Tick({ r \in Rank : left > 1 /\ Forced(r) })

HNext == HSchedule \/ Hupdate

HSpec == HInit /\ [][HNext]_<< vars, history >>

(* The scheduler may issue, at any time, what is_..._allowed allows: every  *)
(* command is legal for the DRAM and each window has its refreshes, however *)
(* commands, automatic precharges and refreshes follow upon each other.     *)
ProtocolKept == Protocol!Spec
===============================================================================

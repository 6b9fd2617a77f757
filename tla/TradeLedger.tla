----------------------------- MODULE TradeLedger -----------------------------
(***************************************************************************)
(* What the trading.fills table promises its readers (the API, the daily   *)
(* report, reconciliation, the contest tooling), whatever the engine that  *)
(* writes it goes through: rows are only added, one at a time; an order is *)
(* settled only after it was entered, and once.  Every reader sums settle  *)
(* rows and matches them with entry rows on this understanding.            *)
(***************************************************************************)
VARIABLES
    entered,  \* orders with a fill of kind "entry"
    settled   \* fills of kind "settle": records with a field coid

Init == entered = {} /\ settled = {}

EnterOrder ==
    /\ \E c \in entered' \ entered : entered' = entered \cup {c}
    /\ UNCHANGED settled

SettleOrder ==
    /\ \E r \in settled' \ settled :
          /\ settled' = settled \cup {r}
          /\ r.coid \in entered
          /\ \A q \in settled : q.coid # r.coid
    /\ UNCHANGED entered

Next == EnterOrder \/ SettleOrder

Spec == Init /\ [][Next]_<<entered, settled>>
=============================================================================

-------------------------- MODULE MCInventoryLiveness --------------------------
(***************************************************************************)
(* Two mixes of requests to the same small stock, one per behaviour: large *)
(* reservations around an adjustment, which take the rows in opposite      *)
(* orders, and small ones that clients commit while the expiry job is at   *)
(* work on them.                                                           *)
(***************************************************************************)
EXTENDS MCInventory

CONSTANT SecondTick  \* takes part in the first mix only

(* Before three more units arrive in the first warehouse plans begin with  *)
(* the second, after that with the first; large ones take from both.       *)
UnevenStock == [r \in Rows |-> Level(IF Warehouse(r) = 1 THEN 1 ELSE 3)]
Large == {[p \in Products |-> n] : n \in {4, 5}}
Small == {[p \in Products |-> 1]}
LargeOrSmall == Large \cup Small
Three == {3}
NoRelease == Ops \ {"release"}

LargeMix ==
  /\ \A i \in Res : demand[i] \in Large \cup {NoProducts}
  /\ nextRes <= 3
  /\ \A t \in Txs : tx[t].op # "commit"

SmallMix ==
  /\ \A i \in Res : demand[i] \in Small \cup {NoProducts}
  /\ adjusts = 0

TakesPart(t) == t # SecondTick \/ LargeMix

LiveNext ==
  \/ \E t \in Txs : Statement(t)
  \/ \E t \in Clients : Request(t) /\ (LargeMix' \/ SmallMix')
  \/ \E t \in Ticks : TickStep(t) /\ TakesPart(t)
  \/ PassTime

(* Fairness, of what takes part: of a step the mix rules out it would rule *)
(* out the behaviours instead.                                             *)
LiveFairness ==
  /\ \A t \in Txs : SF_vars(Statement(t))
  /\ \A t \in Ticks : SF_vars(TickStep(t) /\ TakesPart(t))
  /\ WF_vars(PassTime)

LiveSpec == Init /\ [][LiveNext]_vars /\ LiveFairness
===============================================================================

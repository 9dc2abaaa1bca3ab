----------------------------- MODULE MCSettlement -----------------------------
(***************************************************************************)
(* Small instances of Settlement.                                          *)
(***************************************************************************)
EXTENDS Settlement, TLC

ChargeAndRefund == {3, -1}
OneAmount == {1}

Alike == Permutations(Posts) \cup Permutations(Runs)
===============================================================================

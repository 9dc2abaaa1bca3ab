------------------------------ MODULE MCPayments ------------------------------
(***************************************************************************)
(* Small instances of Payments.                                            *)
(***************************************************************************)
EXTENDS Payments, TLC

AnyOutcome == BOOLEAN
Accepted == {TRUE}

HandlersAlike == Permutations(Handlers)
===============================================================================

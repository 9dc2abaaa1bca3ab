-------------------------------- MODULE MCOrders --------------------------------
(***************************************************************************)
(* Small instances of Orders.                                              *)
(***************************************************************************)
EXTENDS Orders

NoFaults == {}
AllFaults == {"call", "statement", "crash"}
===============================================================================

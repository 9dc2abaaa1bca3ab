----------------------------- MODULE MCInventory -----------------------------
(***************************************************************************)
(* Small instances of Inventory.                                           *)
(***************************************************************************)
EXTENDS Inventory

Level(n) == [onHand |-> n, reserved |-> 0]

(* One product in two warehouses, two in the first and one in the second:  *)
(* a request for two fits the first, one for three is split.               *)
SplitStock == [r \in Rows |-> Level(IF Warehouse(r) = 1 THEN 2 ELSE 1)]

(* Enough stock for every request together. *)
AmpleStock == [r \in Rows |-> Level(3)]

OneOfEach == [Products -> 0 .. 1] \ {NoProducts}
OneToThree == {[p \in Products |-> n] : n \in 1 .. 3}

UpAndDown == {1, -1}
NoDelta == {}

AllOps == Ops
===============================================================================

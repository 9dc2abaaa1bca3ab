------------------------------ MODULE StockPromise ------------------------------
(***************************************************************************)
(* The inventory service as its clients may think of it: every request is  *)
(* one indivisible step on the stock.  A reservation takes free stock of   *)
(* the products it asks for, from whichever warehouses; committing it      *)
(* takes its lines out of the stock and books them; releasing it frees     *)
(* them; an adjustment adds to or takes from what is on hand.              *)
(***************************************************************************)
EXTENDS Integers, Functions

CONSTANTS
  Row, Reservation,
  Asked,          \* the demands, [product -> quantity]
  Initial,        \* [Row -> [onHand : Nat, reserved : {0}]]
  ProductOf(_)

VARIABLES stock, status, lines, moved, adjusted

vars == <<stock, status, lines, moved, adjusted>>

NoLines == [r \in Row |-> 0]

Init ==
  /\ stock = Initial
  /\ status = [i \in Reservation |-> "absent"]
  /\ lines = [i \in Reservation |-> NoLines]
  /\ moved = [i \in Reservation |-> NoLines]
  /\ adjusted = NoLines

(* f gives every product the quantity d asks for, out of free stock. *)
Covers(f, d) ==
  /\ \A p \in DOMAIN d :
       SumFunction([r \in {q \in Row : ProductOf(q) = p} |-> f[r]]) = d[p]
  /\ \A r \in Row : f[r] > 0 => f[r] <= stock[r].onHand - stock[r].reserved

Create(i, f) ==
  /\ status[i] = "absent"
  /\ \E d \in Asked : Covers(f, d)
  /\ status' = [status EXCEPT ![i] = "pending"]
  /\ lines' = [lines EXCEPT ![i] = f]
  /\ stock' = [r \in Row |-> [stock[r] EXCEPT !.reserved = @ + f[r]]]
  /\ UNCHANGED <<moved, adjusted>>

Commit(i) ==
  /\ status[i] = "pending"
  /\ status' = [status EXCEPT ![i] = "committed"]
  /\ moved' = [moved EXCEPT ![i] = lines[i]]
  /\ stock' = [r \in Row |-> [onHand |-> stock[r].onHand - lines[i][r],
                              reserved |-> stock[r].reserved - lines[i][r]]]
  /\ UNCHANGED <<lines, adjusted>>

Release(i) ==
  /\ status[i] = "pending"
  /\ status' = [status EXCEPT ![i] = "released"]
  /\ stock' = [r \in Row |-> [stock[r] EXCEPT !.reserved = @ - lines[i][r]]]
  /\ UNCHANGED <<lines, moved, adjusted>>

Adjust(r, d) ==
  /\ stock[r].onHand + d >= 0
  /\ stock' = [stock EXCEPT ![r].onHand = @ + d]
  /\ adjusted' = [adjusted EXCEPT ![r] = @ + d]
  /\ UNCHANGED <<status, lines, moved>>

Next ==
  \/ \E i \in Reservation : Create(i, lines'[i]) \/ Commit(i) \/ Release(i)
  \/ \E r \in Row : Adjust(r, adjusted'[r] - adjusted[r])

Spec == Init /\ [][Next]_vars
===============================================================================

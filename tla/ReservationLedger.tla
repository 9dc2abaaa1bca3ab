--------------------------- MODULE ReservationLedger ---------------------------
(***************************************************************************)
(* What the inventory service promises about reservations whatever runs    *)
(* concurrently with what: a reservation comes into being with its lines,  *)
(* is then either committed, which books its lines as movements, or        *)
(* released, and that is the end of it.  Stock is not part of this         *)
(* promise; StockPromise adds it.                                          *)
(***************************************************************************)
EXTENDS Naturals

CONSTANTS Row, Reservation

VARIABLES status, lines, moved

vars == <<status, lines, moved>>

NoLines == [r \in Row |-> 0]

Init ==
  /\ status = [i \in Reservation |-> "absent"]
  /\ lines = [i \in Reservation |-> NoLines]
  /\ moved = [i \in Reservation |-> NoLines]

Create(i, f) ==
  /\ status[i] = "absent"
  /\ status' = [status EXCEPT ![i] = "pending"]
  /\ lines' = [lines EXCEPT ![i] = f]
  /\ UNCHANGED moved

Commit(i) ==
  /\ status[i] = "pending"
  /\ status' = [status EXCEPT ![i] = "committed"]
  /\ moved' = [moved EXCEPT ![i] = lines[i]]
  /\ UNCHANGED lines

Release(i) ==
  /\ status[i] = "pending"
  /\ status' = [status EXCEPT ![i] = "released"]
  /\ UNCHANGED <<lines, moved>>

Next ==
  \E i \in Reservation :
    \/ Create(i, lines'[i]) /\ lines'[i] \in [Row -> Nat]
    \/ Commit(i)
    \/ Release(i)

Spec == Init /\ [][Next]_vars
===============================================================================

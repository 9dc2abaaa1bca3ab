------------------------------- MODULE OrderReads -------------------------------
(***************************************************************************)
(* The read side of the orders service: GET /orders/:id and its timeline,  *)
(* each through a cache entry of its own in Redis, against the statements  *)
(* that change the order and its shipment.  Whoever commits a change       *)
(* deletes both entries afterwards; a timeline is put together from two    *)
(* queries, and a change may commit between them.                          *)
(*                                                                         *)
(* Of the writers (module Orders) only the statements that commit remain,  *)
(* in any order their conditions on the status allow.                      *)
(***************************************************************************)
EXTENDS Naturals

CONSTANTS
  ReadHandlers, \* requests that read
  MaxMissed,    \* changes whose invalidation never comes
  MaxOwed       \* writers between their commit and their invalidation

VARIABLES
  stored,  \* the row of the order and the status of its shipment
  owed,    \* invalidations that are still to come
  missed,  \* invalidations that never came: how many, and whether one since the last that did
  entry,   \* what Redis has under each key
  reading  \* what each request is doing

readVars == <<stored, owed, missed, entry, reading>>

Keys == {"order", "timeline"}

(* The row has the status, and the id of the payment intent from some time  *)
(* on.                                                                      *)
Row(status, intent) == [status |-> status, intent |-> intent]

NoEntry == [is |-> "none"]
NotReading == [at |-> "idle"]

OrderReadsInit ==
  /\ stored = [order |-> Row("none", FALSE), parcel |-> "none"]
  /\ owed = 0 /\ missed = [count |-> 0, since |-> FALSE]
  /\ entry = [k \in Keys |-> NoEntry]
  /\ reading = [r \in ReadHandlers |-> NotReading]

-------------------------------------------------------------------------------
(* Writers *)

(* The statuses after a status, by the conditions of the UPDATEs. *)
Successors(status) ==
  CASE status = "none" -> {"pending"}
    [] status = "pending" -> {"reserved", "failed"}
    [] status = "reserved" -> {"confirmed", "failed"}
    [] status = "confirmed" -> {"cancelled"}
    [] OTHER -> {}

(* Every change of the row or of the shipment is followed by an            *)
(* invalidation, unless what comes after the commit throws or dies.        *)
Committed(next) ==
  /\ stored' = next
  /\ \/ owed < MaxOwed /\ owed' = owed + 1 /\ UNCHANGED missed
     \/ /\ missed.count < MaxMissed
        /\ missed' = [count |-> missed.count + 1, since |-> TRUE]
        /\ UNCHANGED owed
  /\ UNCHANGED <<entry, reading>>

ChangeStatus ==
  \E next \in Successors(stored.order.status) :
    Committed([stored EXCEPT !.order = [@ EXCEPT !.status = next]])

AttachIntent ==
  /\ stored.order = Row("reserved", FALSE)
  /\ Committed([stored EXCEPT !.order = Row("reserved", TRUE)])

(* The shipment and the status in one transaction. *)
ShipOrder ==
  /\ stored.order.status = "confirmed"
  /\ Committed([order |-> [stored.order EXCEPT !.status = "shipped"], parcel |-> "preparing"])

MoveParcel ==
  \/ stored.parcel = "preparing" /\ Committed([stored EXCEPT !.parcel = "dispatched"])
  \/ stored.parcel = "dispatched" /\ Committed([stored EXCEPT !.parcel = "delivered"])

(* A loader that was at work when the entries were deleted will store what  *)
(* it read before.                                                          *)
Overtaken ==
  [r \in ReadHandlers |->
     IF reading[r].at = "idle" THEN NotReading ELSE [reading[r] EXCEPT !.late = TRUE]]

(* Mutated form: only the key of the order. *)
InvalidateOrder ==
  /\ owed > 0 /\ owed' = owed - 1
  /\ entry' = [entry EXCEPT !["order"] = NoEntry]
  /\ reading' = Overtaken /\ missed' = [missed EXCEPT !.since = FALSE]
  /\ UNCHANGED stored

(* invalidateOrderCache: one DEL of both keys. *)
Invalidate ==
  /\ owed > 0 /\ owed' = owed - 1
  /\ entry' = [k \in Keys |-> NoEntry]
  /\ reading' = Overtaken /\ missed' = [missed EXCEPT !.since = FALSE]
  /\ UNCHANGED stored

(* 30 s and 15 s. *)
ExpireEntry(k) ==
  /\ entry[k] # NoEntry
  /\ entry' = [entry EXCEPT ![k] = NoEntry]
  /\ UNCHANGED <<stored, owed, missed, reading>>

-------------------------------------------------------------------------------
(* Readers *)

(* GET finds nothing under the key.  A hit is answered with the entry.     *)
Miss(r, k) ==
  /\ reading[r] = NotReading /\ entry[k] = NoEntry
  /\ reading' = [reading EXCEPT ![r] =
                   [at |-> "order", key |-> k, late |-> FALSE]]
  /\ UNCHANGED <<stored, owed, missed, entry>>

(* findByIdOrThrow: 404 and nothing is stored, or the row.                 *)
LoadOrder(r) ==
  /\ reading[r].at = "order"
  /\ reading' = [reading EXCEPT ![r] =
       IF stored.order.status = "none" THEN NotReading
       ELSE [at |-> IF reading[r].key = "order" THEN "store" ELSE "shipment",
             key |-> reading[r].key, late |-> reading[r].late, seen |-> stored]]
  /\ UNCHANGED <<stored, owed, missed, entry>>

(* shipments.findByOrderId, for the timeline. *)
LoadShipment(r) ==
  /\ reading[r].at = "shipment"
  /\ reading' = [reading EXCEPT ![r] =
       [@ EXCEPT !.at = "store", !.seen.parcel = stored.parcel]]
  /\ UNCHANGED <<stored, owed, missed, entry>>

(* What is shown of what was read: the order without its shipment, or the   *)
(* events of both.                                                          *)
Shown(k, seen) ==
  IF k = "order" THEN seen.order ELSE [status |-> seen.order.status, parcel |-> seen.parcel]

Put(r) ==
  /\ reading[r].at = "store"
  /\ entry' = [entry EXCEPT ![reading[r].key] =
       [is |-> "view", shows |-> Shown(reading[r].key, reading[r].seen),
        late |-> reading[r].late]]
  /\ reading' = [reading EXCEPT ![r] = NotReading]
  /\ UNCHANGED <<stored, owed, missed>>

(* A query or SET throws: nothing is stored, the answer is an error. *)
ReadThrows(r) ==
  /\ reading[r] # NotReading
  /\ reading' = [reading EXCEPT ![r] = NotReading]
  /\ UNCHANGED <<stored, owed, missed, entry>>

Writing == ChangeStatus \/ AttachIntent \/ ShipOrder \/ MoveParcel \/ Invalidate

ReadStep(r) ==
  (\E k \in Keys : Miss(r, k)) \/ LoadOrder(r) \/ LoadShipment(r) \/ Put(r) \/ ReadThrows(r)

OrderReadsNext ==
  Writing \/ (\E k \in Keys : ExpireEntry(k)) \/ \E r \in ReadHandlers : ReadStep(r)

OrderReadsSpec == OrderReadsInit /\ [][OrderReadsNext]_readVars

-------------------------------------------------------------------------------
(* An entry shows what there is, unless whoever changed it has still to     *)
(* delete it or never did, or it was read before an invalidation and       *)
(* stored after it (cache.ts:49-57 against cacheInvalidation.ts:8).  And a  *)
(* timeline that shows a shipped order shows its shipment, although the two *)
(* are read one after the other (readOrders.ts:33-37).                      *)
ReadsAreExcused ==
  /\ \A k \in Keys :
       entry[k] # NoEntry =>
         \/ entry[k].shows = Shown(k, stored)
         \/ entry[k].late \/ owed > 0 \/ missed.since
  /\ entry["timeline"] # NoEntry /\ entry["timeline"].shows.status = "shipped"
       => entry["timeline"].shows.parcel # "none"
===============================================================================

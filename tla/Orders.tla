--------------------------------- MODULE Orders ---------------------------------
(***************************************************************************)
(* The orders service: the life of one order, from its placement over the  *)
(* inventory and payments services, through cancellation, to the shipment  *)
(* that a timer moves on.  Orders do not interact, so one is enough.       *)
(*                                                                         *)
(* placeOrder is a saga: its statements commit one by one, and each HTTP   *)
(* call is a request, what the other service does with it, and an answer.  *)
(* A caller may give up at any time (2 s timeout, 5xx, connection lost);   *)
(* its request may still be carried out afterwards.  cancelOrder makes its *)
(* calls inside a transaction that holds the lock of the order's row.      *)
(* The services behind the calls are reduced to the status of the one      *)
(* reservation and the one intent of the order; modules Inventory and      *)
(* Payments have them in full.                                             *)
(***************************************************************************)
EXTENDS Naturals, FiniteSets

CONSTANTS
  Placer,    \* the request that places the order
  Cancels,   \* requests that cancel it
  Ships,     \* requests that ship it
  Ticks,     \* runs of the shipment progress job; setInterval lets them overlap
  Faults,    \* what may go wrong: calls, statements, the process
  Nobody     \* holder of a free lock

Handlers == {Placer} \cup Cancels \cup Ships

ASSUME OrdersAssumption ==
  /\ Placer \notin Cancels \cup Ships /\ Cancels \cap Ships = {}
  /\ Nobody \notin Handlers
  /\ Faults \subseteq {"call", "statement", "crash"}

VARIABLES
  order,        \* orders.status, "none" before the INSERT
  refs,         \* which of reservation_id and payment_intent_id are set
  lock,         \* the handler holding the FOR UPDATE lock of the order
  shipment,     \* shipments.status of the row each shipper has inserted
  age,          \* its age: 0, 1 from 2 s on, 2 from 8 s on
  handler,      \* what each request handler is doing
  failedAt,     \* steps of the placement that threw (history)
  tick,         \* shipments a tick has listed and not reached, as they were
  net,          \* requests and answers on their way
  reservation,  \* in inventory
  intent,       \* in payments
  charged       \* at the PSP

orderVars == <<order, refs, lock>>
shipmentVars == <<shipment, age, tick>>
remoteVars == <<reservation, intent, charged>>
vars == <<orderVars, shipmentVars, handler, failedAt, net, remoteVars>>

Calls == {"reserve", "createIntent", "capture", "commit", "release", "void"}
Marks == {"markReserved", "attachIntent", "markConfirmed", "markFailed", "markCancelled"}
Ends == {"succeeded", "refused", "failed"}

NoShipment == [s \in Ships |-> "none"]

Init ==
  /\ order = "none" /\ refs = {} /\ lock = Nobody
  /\ shipment = NoShipment /\ age = [s \in Ships |-> 0]
  /\ handler = [h \in Handlers |-> [at |-> "new", waiting |-> FALSE, known |-> {}]]
  /\ failedAt = {}
  /\ tick = [t \in Ticks |-> NoShipment]
  /\ net = {}
  /\ reservation = "absent" /\ intent = "absent" /\ charged = FALSE

-------------------------------------------------------------------------------
(* Where a handler goes *)

At(h, s) == handler[h].at = s /\ ~handler[h].waiting
Active(h) == handler[h].at \notin Ends \cup {"new", "dead"}
Goto(h, s) == handler' = [handler EXCEPT ![h] = [@ EXCEPT !.at = s, !.waiting = FALSE]]

(* The steps of the placement, in the order of the try block. *)
Following ==
  [reserve |-> "markReserved", markReserved |-> "createIntent",
   createIntent |-> "attachIntent", attachIntent |-> "capture",
   capture |-> "commit", commit |-> "markConfirmed", markConfirmed |-> "succeeded",
   markFailed |-> "failed", markCancelled |-> "succeeded"]

LastMark(h) == IF h = Placer THEN "markFailed" ELSE "markCancelled"

Voiding(h) == IF "intent" \in handler[h].known THEN "void" ELSE LastMark(h)
Undoing(h) == IF "reservation" \in handler[h].known THEN "release" ELSE Voiding(h)

(* Mutated form: captures before the intent is attached to the order. *)
AfterAttachingLate(h) ==
  CASE handler[h].at = "createIntent" -> "capture"
    [] handler[h].at = "capture" -> "attachIntent"
    [] handler[h].at = "attachIntent" -> "commit"
    [] handler[h].at = "release" -> Voiding(h)
    [] handler[h].at = "void" -> LastMark(h)
    [] OTHER -> Following[handler[h].at]

(* Mutated form: confirms without committing the reservation. *)
AfterUncommitted(h) ==
  CASE handler[h].at = "capture" -> "markConfirmed"
    [] handler[h].at = "release" -> Voiding(h)
    [] handler[h].at = "void" -> LastMark(h)
    [] OTHER -> Following[handler[h].at]

(* After a step that went well ... *)
After(h) ==
  CASE handler[h].at = "release" -> Voiding(h)
    [] handler[h].at = "void" -> LastMark(h)
    [] OTHER -> Following[handler[h].at]

(* ... and after one that threw.  A throw in the compensation skips the    *)
(* rest of it; a cancellation is rolled back.                              *)
AfterError(h) ==
  IF h # Placer \/ handler[h].at = "markFailed" THEN "failed"
  ELSE IF handler[h].at \in {"release", "void"} THEN "markFailed"
  ELSE Undoing(h)

Unlocked(h) == IF lock = h THEN Nobody ELSE lock

(* The step of h throws. *)
Throws(h) ==
  /\ Goto(h, AfterError(h))
  /\ lock' = Unlocked(h)
  /\ failedAt' = IF h = Placer THEN failedAt \cup {handler[h].at} ELSE failedAt

-------------------------------------------------------------------------------
(* POST /orders *)

(* The customer is unknown or a line cannot be priced. *)
Refuse ==
  /\ At(Placer, "new")
  /\ Goto(Placer, "refused")
  /\ UNCHANGED <<orderVars, shipmentVars, failedAt, net, remoteVars>>

(* createPending. *)
CreatePending ==
  /\ At(Placer, "new")
  /\ order' = "pending"
  /\ Goto(Placer, "reserve")
  /\ UNCHANGED <<refs, lock, shipmentVars, failedAt, net, remoteVars>>

(* The invalidation after it throws, outside the try block. *)
CreatePendingThrows ==
  /\ "statement" \in Faults
  /\ At(Placer, "new")
  /\ order' = "pending"
  /\ Goto(Placer, "failed")
  /\ UNCHANGED <<refs, lock, shipmentVars, failedAt, net, remoteVars>>

(* The statuses an UPDATE of the order wants, the one it sets, and the     *)
(* column it fills.                                                        *)
From == [markReserved |-> {"pending"}, attachIntent |-> {"reserved"},
         markConfirmed |-> {"reserved"}, markFailed |-> {"pending", "reserved"},
         markCancelled |-> {"confirmed"}]
To == [markReserved |-> "reserved", attachIntent |-> "reserved",
       markConfirmed |-> "confirmed", markFailed |-> "failed",
       markCancelled |-> "cancelled"]
Fills == [[s \in Marks |-> {}] EXCEPT !["markReserved"] = {"reservation"},
                                      !["attachIntent"] = {"intent"}]

(* Mutated form: an UPDATE without the condition on the status. *)
AllowedBlindly(s) == TRUE

Allowed(s) == order \in From[s]

Update(s) == order' = To[s] /\ refs' = refs \cup Fills[s]

AtMark(h) ==
  /\ handler[h].at \in Marks
  /\ lock \in {Nobody, h}

(* An UPDATE of the order by h, ORDER_STATUS_CONFLICT if no row has one of *)
(* the statuses.  That of a cancellation ends its transaction.             *)
Mark(h) ==
  /\ AtMark(h)
  /\ \/ /\ Allowed(handler[h].at)
        /\ Update(handler[h].at)
        /\ Goto(h, After(h))
        /\ lock' = Unlocked(h)
        /\ UNCHANGED failedAt
     \/ /\ ~Allowed(handler[h].at)
        /\ Throws(h)
        /\ UNCHANGED <<order, refs>>
  /\ UNCHANGED <<shipmentVars, net, remoteVars>>

(* It throws; for the placement, which has no transaction, perhaps only    *)
(* after the UPDATE: reading the items back or invalidating the cache.     *)
MarkThrows(h) ==
  /\ "statement" \in Faults
  /\ AtMark(h)
  /\ \/ UNCHANGED <<order, refs>>
     \/ h = Placer /\ Allowed(handler[h].at) /\ Update(handler[h].at)
  /\ Throws(h)
  /\ UNCHANGED <<shipmentVars, net, remoteVars>>

-------------------------------------------------------------------------------
(* Calls of the other services *)

Message(h, is) == [by |-> h, op |-> handler[h].at, is |-> is]

Send(h) ==
  /\ handler[h].at \in Calls /\ ~handler[h].waiting
  /\ net' = net \cup {Message(h, "request")}
  /\ handler' = [handler EXCEPT ![h] = [@ EXCEPT !.waiting = TRUE]]
  /\ UNCHANGED <<orderVars, shipmentVars, failedAt, remoteVars>>

(* What a caller keeps of an answer: the id it will need to undo the step. *)
Learns == [[c \in Calls |-> {}] EXCEPT !["reserve"] = {"reservation"},
                                       !["createIntent"] = {"intent"}]

Receive(h) ==
  /\ handler[h].waiting
  /\ Message(h, "ok") \in net
  /\ net' = net \ {Message(h, "ok")}
  /\ handler' = [handler EXCEPT ![h] =
                   [at |-> After(h), waiting |-> FALSE,
                    known |-> handler[h].known \cup Learns[handler[h].at]]]
  /\ UNCHANGED <<orderVars, shipmentVars, failedAt, remoteVars>>

(* The answer is 409 or 402.  INSUFFICIENT_STOCK needs no compensation.    *)
ReceiveRefusal(h) ==
  /\ handler[h].waiting
  /\ Message(h, "refused") \in net
  /\ net' = net \ {Message(h, "refused")}
  /\ Throws(h)
  /\ UNCHANGED <<order, refs, shipmentVars, remoteVars>>

(* Mutated form: a call without a timeout fails only if it is carried out. *)
CallThrowsServed(h) ==
  /\ "call" \in Faults
  /\ handler[h].waiting
  /\ Message(h, "request") \notin net
  /\ Throws(h)
  /\ UNCHANGED <<order, refs, shipmentVars, net, remoteVars>>

(* A timeout, a 5xx or a broken connection. *)
CallThrows(h) ==
  /\ "call" \in Faults
  /\ handler[h].waiting
  /\ Throws(h)
  /\ UNCHANGED <<order, refs, shipmentVars, net, remoteVars>>

Request(m, op) == m \in net /\ m.op = op /\ m.is = "request"
Becomes(m, is) == net' = (net \ {m}) \cup {[m EXCEPT !.is = is]}
Answer(m, is) == Becomes(m, is) /\ UNCHANGED <<orderVars, shipmentVars, handler, failedAt>>

(* inventory: there is stock or there is not. *)
ServeReserve(m) ==
  /\ Request(m, "reserve")
  /\ \/ reservation' = "pending" /\ Answer(m, "ok")
     \/ Answer(m, "refused") /\ UNCHANGED reservation
  /\ UNCHANGED <<intent, charged>>

(* A pending reservation is committed, unless its stock was adjusted away. *)
ServeCommit(m) ==
  /\ Request(m, "commit")
  /\ \/ reservation \in {"pending", "committed"} /\ reservation' = "committed" /\ Answer(m, "ok")
     \/ reservation # "committed" /\ Answer(m, "refused") /\ UNCHANGED reservation
  /\ UNCHANGED <<intent, charged>>

ServeRelease(m) ==
  /\ Request(m, "release")
  /\ \/ reservation \in {"pending", "released"} /\ reservation' = "released" /\ Answer(m, "ok")
     \/ reservation # "released" /\ Answer(m, "refused") /\ UNCHANGED reservation
  /\ UNCHANGED <<intent, charged>>

ServeCreateIntent(m) ==
  /\ Request(m, "createIntent")
  /\ intent' = "requires_capture"
  /\ Answer(m, "ok")
  /\ UNCHANGED <<reservation, charged>>

(* payments reads the intent and asks the PSP, which may decline ... *)
Capture(m) ==
  /\ Request(m, "capture")
  /\ \/ intent = "requires_capture" /\ charged' = TRUE /\ Answer(m, "charged")
     \/ intent = "requires_capture" /\ Answer(m, "declined") /\ UNCHANGED charged
     \/ intent # "requires_capture" /\ Answer(m, "refused") /\ UNCHANGED charged
  /\ UNCHANGED <<reservation, intent>>

(* ... and writes the status, if the intent is still open.                 *)
FinishCapture(m) ==
  /\ m \in net /\ m.is \in {"charged", "declined"}
  /\ intent' = IF intent # "requires_capture" THEN intent
               ELSE IF m.is = "charged" THEN "succeeded" ELSE "failed"
  /\ Answer(m, IF m.is = "charged" THEN "ok" ELSE "refused")
  /\ UNCHANGED <<reservation, charged>>

ServeVoid(m) ==
  /\ Request(m, "void")
  /\ \/ intent \in {"requires_capture", "voided"} /\ intent' = "voided" /\ Answer(m, "ok")
     \/ intent \in {"succeeded", "failed"} /\ Answer(m, "refused") /\ UNCHANGED intent
  /\ UNCHANGED <<reservation, charged>>

(* The expiry job of inventory, ten minutes after the reservation: the     *)
(* placement, whose calls take 2 s each at most, is over.                  *)
Expire ==
  /\ reservation = "pending" /\ ~Active(Placer)
  /\ reservation' = "released"
  /\ UNCHANGED <<orderVars, shipmentVars, handler, failedAt, net, intent, charged>>

-------------------------------------------------------------------------------
(* POST /orders/:id/cancel and /ship *)

Shipped == \E s \in Ships : shipment[s] # "none"

(* BEGIN and findByIdForUpdate of a confirmed order without a shipment.    *)
BeginCancel(h) ==
  /\ h \in Cancels /\ At(h, "new") /\ lock = Nobody
  /\ order = "confirmed" /\ ~Shipped
  /\ lock' = h
  /\ handler' = [handler EXCEPT ![h] =
       [at |-> IF "reservation" \in refs THEN "release"
               ELSE IF "intent" \in refs THEN "void" ELSE "markCancelled",
        waiting |-> FALSE, known |-> refs]]
  /\ UNCHANGED <<order, refs, shipmentVars, failedAt, net, remoteVars>>

(* 404 or 409. *)
RefuseToCancel(h) ==
  /\ h \in Cancels /\ At(h, "new") /\ lock = Nobody
  /\ order # "confirmed" \/ Shipped
  /\ Goto(h, "refused")
  /\ UNCHANGED <<orderVars, shipmentVars, failedAt, net, remoteVars>>

(* Mutated form: the order stays as it is. *)
ShipUnmarked(h) ==
  /\ h \in Ships /\ At(h, "new") /\ lock = Nobody
  /\ order = "confirmed" /\ ~Shipped
  /\ shipment' = [shipment EXCEPT ![h] = "preparing"]
  /\ Goto(h, "succeeded")
  /\ UNCHANGED <<orderVars, age, tick, failedAt, net, remoteVars>>

(* The whole transaction: it holds the lock of the order from its first    *)
(* statement on, so nothing it does shows before COMMIT.                   *)
Ship(h) ==
  /\ h \in Ships /\ At(h, "new") /\ lock = Nobody
  /\ order = "confirmed" /\ ~Shipped
  /\ shipment' = [shipment EXCEPT ![h] = "preparing"]
  /\ order' = "shipped"
  /\ Goto(h, "succeeded")
  /\ UNCHANGED <<refs, lock, age, tick, failedAt, net, remoteVars>>

RefuseToShip(h) ==
  /\ h \in Ships /\ At(h, "new") /\ lock = Nobody
  /\ order # "confirmed" \/ Shipped
  /\ Goto(h, "refused")
  /\ UNCHANGED <<orderVars, shipmentVars, failedAt, net, remoteVars>>

-------------------------------------------------------------------------------
(* The shipment progress job *)

NextStatus == [preparing |-> "dispatched", dispatched |-> "delivered"]

Age(s) ==
  /\ shipment[s] # "none" /\ age[s] < 2
  /\ age' = [age EXCEPT ![s] = @ + 1]
  /\ UNCHANGED <<orderVars, shipment, tick, handler, failedAt, net, remoteVars>>

Ready(s) ==
  \/ shipment[s] = "preparing" /\ age[s] >= 1
  \/ shipment[s] = "dispatched" /\ age[s] >= 2

(* listReadyToAdvance *)
List(t) ==
  /\ tick[t] = NoShipment
  /\ \E s \in Ships : Ready(s)
  /\ tick' = [tick EXCEPT ![t] = [s \in Ships |-> IF Ready(s) THEN shipment[s] ELSE "none"]]
  /\ UNCHANGED <<orderVars, shipment, age, handler, failedAt, net, remoteVars>>

(* advanceStatus: only from the status the tick has listed. *)
AdvanceStatus(s, from) ==
  IF shipment[s] = from
  THEN shipment' = [shipment EXCEPT ![s] = NextStatus[from]]
  ELSE UNCHANGED shipment

Advance(t, s) ==
  /\ tick[t][s] # "none"
  /\ AdvanceStatus(s, tick[t][s])
  /\ tick' = [tick EXCEPT ![t] = [@ EXCEPT ![s] = "none"]]
  /\ UNCHANGED <<orderVars, age, handler, failedAt, net, remoteVars>>

(* A statement or an invalidation throws: the rest of the list is left.    *)
AdvanceThrows(t, s) ==
  /\ "statement" \in Faults
  /\ tick[t][s] # "none"
  /\ AdvanceStatus(s, tick[t][s]) \/ UNCHANGED shipment
  /\ tick' = [tick EXCEPT ![t] = NoShipment]
  /\ UNCHANGED <<orderVars, age, handler, failedAt, net, remoteVars>>

-------------------------------------------------------------------------------
(* The process dies, with its transactions; what is on its way arrives.    *)
Crash ==
  /\ "crash" \in Faults
  /\ \E h \in Handlers : Active(h)
  /\ handler' = [h \in Handlers |->
                   IF Active(h) THEN [handler[h] EXCEPT !.at = "dead", !.waiting = FALSE]
                   ELSE handler[h]]
  /\ tick' = [t \in Ticks |-> NoShipment]
  /\ lock' = Nobody
  /\ UNCHANGED <<order, refs, shipment, age, failedAt, net, remoteVars>>

(* The next step of a handler that has begun. *)
Step(h) ==
  \/ Mark(h) \/ MarkThrows(h)
  \/ Send(h) \/ Receive(h) \/ ReceiveRefusal(h) \/ CallThrows(h)

Serve(m) ==
  \/ ServeReserve(m) \/ ServeCommit(m) \/ ServeRelease(m)
  \/ ServeCreateIntent(m) \/ Capture(m) \/ FinishCapture(m) \/ ServeVoid(m)

Begin(h) == BeginCancel(h) \/ RefuseToCancel(h) \/ Ship(h) \/ RefuseToShip(h)

Reach(t, s) == Advance(t, s) \/ AdvanceThrows(t, s)

Next ==
  \/ Refuse \/ CreatePending \/ CreatePendingThrows
  \/ \E h \in Handlers : Step(h) \/ Begin(h)
  \/ \E m \in net : Serve(m)
  \/ Expire
  \/ \E s \in Ships : Age(s)
  \/ \E t \in Ticks : List(t)
  \/ \E t \in Ticks, s \in Ships : Reach(t, s)
  \/ Crash

Spec == Init /\ [][Next]_vars

(* A handler goes on: PostgreSQL answers, and a call is answered or times  *)
(* out; the services called owe nothing.  The timer keeps firing, and     *)
(* time passes.                                                            *)
Fairness ==
  /\ \A h \in Handlers : WF_vars(Step(h))
  /\ \A s \in Ships : WF_vars(Age(s))
  /\ \A t \in Ticks : WF_vars(List(t)) /\ \A s \in Ships : SF_vars(Advance(t, s))

FairSpec == Spec /\ Fairness

-------------------------------------------------------------------------------
TypeOK ==
  /\ order \in {"none", "pending", "reserved", "confirmed", "shipped", "cancelled", "failed"}
  /\ refs \subseteq {"reservation", "intent"}
  /\ lock \in Cancels \cup {Nobody}
  /\ shipment \in [Ships -> {"none", "preparing", "dispatched", "delivered"}]
  /\ age \in [Ships -> 0 .. 2]
  /\ handler \in [Handlers -> [at : {"new", "dead"} \cup Calls \cup Marks \cup Ends,
                               waiting : BOOLEAN,
                               known : SUBSET {"reservation", "intent"}]]
  /\ failedAt \subseteq Calls \cup Marks
  /\ tick \in [Ticks -> [Ships -> {"none", "preparing", "dispatched"}]]
  /\ net \subseteq [by : Handlers, op : Calls,
                    is : {"request", "charged", "declined", "ok", "refused"}]
  /\ reservation \in {"absent", "pending", "committed", "released"}
  /\ intent \in {"absent", "requires_capture", "succeeded", "failed", "voided"}
  /\ charged \in BOOLEAN

(* Nothing is confirmed or sent on its way before it is paid and its stock *)
(* is taken, and nothing undoes that later: not the late answer of a call  *)
(* that was given up, nor the compensation that runs after markConfirmed   *)
(* threw, nor a cancellation that was rolled back.                         *)
ConfirmedIsPaid ==
  order \in {"confirmed", "shipped"} =>
    /\ charged /\ intent = "succeeded" /\ reservation = "committed"
    /\ refs = {"reservation", "intent"}

(* docs/architecture.md:40, "On any failure: reservations are released,    *)
(* the intent is voided, the order moves to `failed`": what is left behind *)
(* by an order that failed.  Its customer is charged only if capture or    *)
(* what comes after it threw, its stock is sold only if commit or what     *)
(* comes after it did, and its stock is still held (until it expires) only *)
(* if nobody knew of the reservation or the release itself threw.  And an  *)
(* order whose placement has ended, one the process did not die under      *)
(* (placeOrder.ts:50), is left open only if the invalidation after its     *)
(* INSERT threw, or markFailed did.                                        *)
FailedIsUndone ==
  /\ order = "failed" =>
       /\ charged => failedAt \cap {"capture", "commit", "markConfirmed"} # {}
       /\ reservation = "committed" => failedAt \cap {"commit", "markConfirmed"} # {}
       /\ reservation = "pending" => failedAt \cap {"reserve", "release"} # {}
  /\ order \in {"pending", "reserved"} /\ handler[Placer].at \in Ends =>
       failedAt = {} \/ "markFailed" \in failedAt

(* However many requests ask for it, an order has one shipment, and only   *)
(* if it is marked shipped.                                                *)
OneShipment ==
  /\ Shipped <=> order = "shipped"
  /\ \A s, u \in Ships : shipment[s] # "none" /\ shipment[u] # "none" => s = u

(* Handlers and overlapping ticks act on what they saw before: the status  *)
(* of an order that was confirmed, has failed, is cancelled or shipped is   *)
(* still never overwritten, and a shipment goes from preparing to           *)
(* dispatched to delivered and never back.                                  *)
StatusesMoveForward ==
  [][/\ order = "confirmed" => order' \in {"confirmed", "cancelled", "shipped"}
     /\ order \in {"failed", "cancelled", "shipped"} => order' = order
     /\ \A s \in Ships :
          shipment'[s] # shipment[s] =>
            <<shipment[s], shipment'[s]>> \in
              {<<"none", "preparing">>, <<"preparing", "dispatched">>,
               <<"dispatched", "delivered">>}]_vars

(* A handler ends, whatever becomes of its calls, so nobody holds the lock *)
(* of the order for ever (cancelOrder.ts:52); and what was shipped is      *)
(* delivered, although a tick may die or throw in the middle of its list.  *)
WorkIsFinished ==
  /\ \A h \in Handlers : Active(h) ~> ~Active(h)
  /\ \A s \in Ships : shipment[s] # "none" ~> shipment[s] = "delivered"

(* tests/cancelOrder.test.ts:7, "locks a confirmed unshipped order,        *)
(* compensates, and marks it cancelled": without faults a cancellation     *)
(* that got as far as to lock such an order does not end in an error.      *)
CancelCompensates == \A h \in Cancels : handler[h].at # "failed"
===============================================================================

------------------------------- MODULE OrdersProofs -------------------------------
(***************************************************************************)
(* What the orders service promises of an order whose calls may be lost,   *)
(* late or cut short: for any number of cancellations, shipments and ticks. *)
(***************************************************************************)
EXTENDS Orders, TLAPS

HandlerState ==
  [at : {"new", "dead"} \cup Calls \cup Marks \cup Ends, waiting : BOOLEAN,
   known : SUBSET {"reservation", "intent"}]

Steps == {"new", "dead"} \cup Calls \cup Marks \cup Ends

(* The try block of placeOrder, and what comes after it if it throws. *)
Forward ==
  {"reserve", "markReserved", "createIntent", "attachIntent", "capture", "commit", "markConfirmed"}
Backward == {"release", "void", "markFailed", "failed"}

(* The statuses of an order that was confirmed. *)
WasConfirmed == {"confirmed", "shipped", "cancelled"}

(* Where handler h is after a step, the others staying where they are.     *)
Went(h, s) ==
  /\ handler' \in [Handlers -> HandlerState]
  /\ handler'[h].at = s /\ ~handler'[h].waiting
  /\ \A g \in Handlers \ {h} : handler'[g] = handler[g]

at == handler[Placer].at

(* The placement is where its try block is, or on its way back; requests    *)
(* that cancel have found the order confirmed.                              *)
HandlersAreRight ==
  /\ \A h \in Handlers : handler[h].waiting => handler[h].at \in Calls
  /\ at \in {"new", "dead", "succeeded", "refused"} \cup Forward \cup Backward
  /\ \A c \in Cancels :
       \/ handler[c].at \in {"new", "refused"}
       \/ /\ handler[c].at \in {"release", "void", "markCancelled", "succeeded", "failed", "dead"}
          /\ order \in WasConfirmed
  /\ \A s \in Ships : handler[s].at \in {"new", "refused", "succeeded"}
  /\ order \in WasConfirmed => at \notin Forward \cup {"new"}

(* While the placement goes forward there is one message, that of its call; *)
(* once the order was confirmed there are only those that would undo it.    *)
MessagesAreRight ==
  /\ \A m \in net : m.is \in {"charged", "declined"} => m.op = "capture"
  /\ \A m \in net : m.by # Placer => order \in WasConfirmed
  /\ order \in WasConfirmed => \A m \in net : m.op \in {"release", "void"}
  /\ at \in Forward \cup {"new"} =>
       /\ \A m \in net : m.op = at /\ handler[Placer].waiting
       /\ \A m, n \in net : m = n

(* What has been done before each step of the try block.                   *)
StagesAreRight ==
  /\ at = "new" => order = "none"
  /\ at \in {"reserve", "markReserved"} => order = "pending"
  /\ at \in {"createIntent", "attachIntent", "capture", "commit", "markConfirmed"}
       => order = "reserved" /\ "reservation" \in refs
  /\ at \in {"capture", "commit", "markConfirmed"} => "intent" \in refs
  /\ at = "attachIntent" \/ (at = "capture" /\ ~handler[Placer].waiting)
       => intent = "requires_capture"
  /\ at = "createIntent" => \A m \in net : m.is = "ok" => intent = "requires_capture"
  /\ at = "capture" =>
       \A m \in net : /\ m.is \in {"request", "charged", "declined"} => intent = "requires_capture"
                      /\ m.is = "charged" => charged
                      /\ m.is = "ok" => charged /\ intent = "succeeded"
  /\ at \in {"commit", "markConfirmed"} => charged /\ intent = "succeeded"
  /\ at = "commit" => \A m \in net : m.is = "ok" => reservation = "committed"
  /\ at = "markConfirmed" => reservation = "committed"

Statuses == {"none", "pending", "reserved", "confirmed", "shipped", "cancelled", "failed"}
Messages == [by : Handlers, op : Calls, is : {"request", "charged", "declined", "ok", "refused"}]

Right == HandlersAreRight /\ MessagesAreRight /\ StagesAreRight /\ ConfirmedIsPaid

IInv == TypeOK /\ Right /\ OneShipment

-------------------------------------------------------------------------------
LEMMA GotoIsTyped ==
  ASSUME handler \in [Handlers -> HandlerState], NEW h \in Handlers, NEW s \in Steps, Goto(h, s)
  PROVE  Went(h, s) /\ handler'[h].known = handler[h].known
<1> DEFINE d == [handler[h] EXCEPT !.at = s, !.waiting = FALSE]
<1>1. d \in HandlerState /\ d.at = s /\ d.waiting = FALSE /\ d.known = handler[h].known
  BY DEF HandlerState, Steps
<1>2. handler' = [handler EXCEPT ![h] = d]
  BY DEF Goto
<1> HIDE DEF d
<1>3. /\ handler' \in [Handlers -> HandlerState] /\ handler'[h] = d
      /\ \A g \in Handlers \ {h} : handler'[g] = handler[g]
  BY <1>1, <1>2
<1>4. ~handler'[h].waiting
  BY <1>1, <1>3
<1> QED
  BY <1>1, <1>3, <1>4 DEF Went

(* What follows a step that threw: the way back for the placement, the end  *)
(* for a cancellation.                                                      *)
LEMMA AfterErrorIs ==
  ASSUME NEW h \in Handlers
  PROVE  /\ AfterError(h) \in Steps
         /\ h = Placer => AfterError(h) \in Backward
         /\ h # Placer => AfterError(h) = "failed"
BY DEF AfterError, Undoing, Voiding, LastMark, Steps, Backward, Calls, Marks, Ends

LEMMA AfterIs ==
  ASSUME NEW h \in Handlers, handler[h].at \in Calls \cup Marks
  PROVE  /\ After(h) \in Steps
         /\ handler[h].at = "reserve" => After(h) = "markReserved"
         /\ handler[h].at = "markReserved" => After(h) = "createIntent"
         /\ handler[h].at = "createIntent" => After(h) = "attachIntent"
         /\ handler[h].at = "attachIntent" => After(h) = "capture"
         /\ handler[h].at = "capture" => After(h) = "commit"
         /\ handler[h].at = "commit" => After(h) = "markConfirmed"
         /\ handler[h].at = "markConfirmed" => After(h) = "succeeded"
         /\ handler[h].at = "markFailed" => After(h) = "failed"
         /\ handler[h].at = "markCancelled" => After(h) = "succeeded"
         /\ handler[h].at \in {"release", "void"} => After(h) \in {"void", LastMark(h)}
BY DEF After, Following, Voiding, LastMark, Steps, Calls, Marks, Ends

LEMMA ReceiveIsTyped ==
  ASSUME handler \in [Handlers -> HandlerState], NEW h \in Handlers, Receive(h),
         handler[h].at \in Calls
  PROVE  Went(h, After(h))
<1> DEFINE learnt == handler[h].known \cup Learns[handler[h].at]
<1> DEFINE d == [at |-> After(h), waiting |-> FALSE, known |-> learnt]
<1>1. learnt \in SUBSET {"reservation", "intent"}
  BY DEF Learns, HandlerState, Calls
<1>2. d \in HandlerState /\ d.at = After(h) /\ d.waiting = FALSE
  BY <1>1, AfterIs DEF HandlerState, Steps
<1>3. handler' = [handler EXCEPT ![h] = d]
  BY DEF Receive
<1> HIDE DEF d, learnt
<1>4. /\ handler' \in [Handlers -> HandlerState] /\ handler'[h] = d
      /\ \A g \in Handlers \ {h} : handler'[g] = handler[g]
  BY <1>2, <1>3
<1>5. ~handler'[h].waiting
  BY <1>2, <1>4
<1> QED
  BY <1>2, <1>4, <1>5 DEF Went

LEMMA SendIsTyped ==
  ASSUME handler \in [Handlers -> HandlerState], NEW h \in Handlers, Send(h)
  PROVE  /\ handler' \in [Handlers -> HandlerState]
         /\ handler'[h].at = handler[h].at /\ handler'[h].waiting
         /\ \A g \in Handlers \ {h} : handler'[g] = handler[g]
<1> DEFINE d == [handler[h] EXCEPT !.waiting = TRUE]
<1>1. d \in HandlerState /\ d.at = handler[h].at /\ d.waiting = TRUE
  BY DEF HandlerState
<1>2. handler' = [handler EXCEPT ![h] = d]
  BY DEF Send
<1> HIDE DEF d
<1>3. /\ handler' \in [Handlers -> HandlerState] /\ handler'[h] = d
      /\ \A g \in Handlers \ {h} : handler'[g] = handler[g]
  BY <1>1, <1>2
<1>4. handler'[h].waiting
  BY <1>1, <1>3
<1> QED
  BY <1>1, <1>3, <1>4

LEMMA InitIsRight == Init => IInv
<1> SUFFICES ASSUME Init PROVE IInv
  OBVIOUS
<1> DEFINE d == [at |-> "new", waiting |-> FALSE, known |-> {}]
<1>1. d \in HandlerState /\ d.at = "new" /\ d.waiting = FALSE
  BY DEF HandlerState
<1>2. handler = [h \in Handlers |-> d]
  BY DEF Init
<1> HIDE DEF d
<1>3. \A h \in Handlers : handler[h].at = "new" /\ ~handler[h].waiting
  BY <1>1, <1>2
<1>4. TypeOK
  <2>1. handler \in [Handlers -> HandlerState]
    BY <1>1, <1>2
  <2>2. NoShipment \in [Ships -> {"none", "preparing", "dispatched"}]
    BY DEF NoShipment
  <2>3. /\ shipment \in [Ships -> {"none", "preparing", "dispatched", "delivered"}]
        /\ tick \in [Ticks -> [Ships -> {"none", "preparing", "dispatched"}]]
        /\ age \in [Ships -> 0 .. 2]
    BY <2>2 DEF Init, NoShipment
  <2>4. /\ order = "none" /\ refs = {} /\ lock = Nobody /\ failedAt = {} /\ net = {}
        /\ reservation = "absent" /\ intent = "absent" /\ charged = FALSE
    BY DEF Init
  <2> QED
    BY <2>1, <2>3, <2>4 DEF TypeOK, HandlerState
<1>5. HandlersAreRight
  BY <1>3 DEF Init, HandlersAreRight, Handlers, at, WasConfirmed
<1>6. MessagesAreRight /\ StagesAreRight /\ ConfirmedIsPaid
  BY <1>3 DEF Init, MessagesAreRight, StagesAreRight, ConfirmedIsPaid, Handlers, at, WasConfirmed
<1>7. OneShipment
  BY DEF Init, OneShipment, Shipped, NoShipment
<1> QED
  BY <1>4, <1>5, <1>6, <1>7 DEF IInv, Right

(* What is known of the variables, for the steps below. *)
LEMMA Known ==
  ASSUME IInv
  PROVE  /\ handler \in [Handlers -> HandlerState] /\ Placer \in Handlers
         /\ order \in Statuses /\ refs \subseteq {"reservation", "intent"}
         /\ lock \in Cancels \cup {Nobody} /\ failedAt \subseteq Calls \cup Marks
         /\ net \subseteq Messages
         /\ Placer \notin Cancels \cup Ships
         /\ Handlers = {Placer} \cup Cancels \cup Ships
BY OrdersAssumption DEF IInv, TypeOK, HandlerState, Handlers, Statuses, Messages

(* The shipments and the timer stay as they are. *)
LEMMA TypesStay ==
  ASSUME IInv, UNCHANGED shipmentVars, handler' \in [Handlers -> HandlerState],
         order' \in Statuses, refs' \subseteq {"reservation", "intent"},
         lock' \in Cancels \cup {Nobody}, failedAt' \subseteq Calls \cup Marks,
         net' \subseteq Messages,
         reservation' \in {"absent", "pending", "committed", "released"},
         intent' \in {"absent", "requires_capture", "succeeded", "failed", "voided"},
         charged' \in BOOLEAN
  PROVE  TypeOK'
BY DEF IInv, TypeOK, shipmentVars, HandlerState, Statuses, Messages

LEMMA NoNewShipment ==
  ASSUME IInv, UNCHANGED shipmentVars, order' = "shipped" <=> order = "shipped"
  PROVE  OneShipment'
BY DEF IInv, OneShipment, Shipped, shipmentVars

(* The placement moves and the other requests do not. *)
LEMMA PlacementMoves ==
  ASSUME IInv, \A g \in Handlers \ {Placer} : handler'[g] = handler[g],
         at' \in {"new", "dead", "succeeded", "refused"} \cup Forward \cup Backward,
         handler'[Placer].waiting => at' \in Calls,
         order \in WasConfirmed => order' \in WasConfirmed,
         order' \in WasConfirmed => at' \notin Forward \cup {"new"}
  PROVE  HandlersAreRight'
<1>1. \A c \in Cancels \cup Ships : c \in Handlers \ {Placer} /\ handler'[c] = handler[c]
  BY Known
<1>2. \A h \in Handlers : handler'[h].waiting => handler'[h].at \in Calls
  BY DEF IInv, Right, HandlersAreRight, at
<1>3. \A c \in Cancels :
        \/ handler'[c].at \in {"new", "refused"}
        \/ /\ handler'[c].at \in {"release", "void", "markCancelled", "succeeded", "failed", "dead"}
           /\ order' \in WasConfirmed
  BY <1>1 DEF IInv, Right, HandlersAreRight
<1>4. \A s \in Ships : handler'[s].at \in {"new", "refused", "succeeded"}
  BY <1>1 DEF IInv, Right, HandlersAreRight
<1> QED
  BY <1>2, <1>3, <1>4 DEF HandlersAreRight

(* Another request moves, and the placement does not. *)
OtherMoves(h) ==
  /\ h # Placer /\ \A g \in Handlers \ {h} : handler'[g] = handler[g]
  /\ handler'[h].waiting => handler'[h].at \in Calls
  /\ h \in Cancels =>
       \/ handler'[h].at \in {"new", "refused"}
       \/ /\ handler'[h].at \in {"release", "void", "markCancelled", "succeeded", "failed", "dead"}
          /\ order' \in WasConfirmed
  /\ h \in Ships => handler'[h].at \in {"new", "refused", "succeeded"}
  /\ order \in WasConfirmed <=> order' \in WasConfirmed

LEMMA OtherMovesIsRight ==
  ASSUME IInv, NEW h \in Handlers, OtherMoves(h)
  PROVE  HandlersAreRight' /\ at' = at /\ handler'[Placer] = handler[Placer]
<1>1. /\ Placer \in Handlers \ {h} /\ \A c \in Cancels \cup Ships : c \in Handlers
      /\ \A g \in Handlers \ {h} : handler'[g] = handler[g]
  BY Known DEF OtherMoves
<1>2. at' = at /\ handler'[Placer] = handler[Placer]
  BY <1>1 DEF at
<1>3. \A g \in Handlers : handler'[g].waiting => handler'[g].at \in Calls
  BY <1>1 DEF IInv, Right, HandlersAreRight, OtherMoves
<1>4. \A c \in Cancels :
        \/ handler'[c].at \in {"new", "refused"}
        \/ /\ handler'[c].at \in {"release", "void", "markCancelled", "succeeded", "failed", "dead"}
           /\ order' \in WasConfirmed
  BY <1>1 DEF IInv, Right, HandlersAreRight, OtherMoves
<1>5. \A s \in Ships : handler'[s].at \in {"new", "refused", "succeeded"}
  BY <1>1 DEF IInv, Right, HandlersAreRight, OtherMoves
<1>6. /\ at' \in {"new", "dead", "succeeded", "refused"} \cup Forward \cup Backward
      /\ order' \in WasConfirmed => at' \notin Forward \cup {"new"}
  BY <1>2 DEF IInv, Right, HandlersAreRight, OtherMoves
<1> QED
  BY <1>2, <1>3, <1>4, <1>5, <1>6 DEF HandlersAreRight

(* A step throws that has changed neither the order nor what is remote. *)
Fails(h) ==
  /\ Throws(h) /\ net' \subseteq net
  /\ UNCHANGED <<order, refs, shipmentVars, remoteVars>>

LEMMA FailsIsRight ==
  ASSUME IInv, NEW h \in Handlers, Fails(h), handler[h].at \in Calls \cup Marks
  PROVE  IInv'
<1>1. Went(h, AfterError(h))
  BY Known, GotoIsTyped, AfterErrorIs DEF Fails, Throws
<1>2. TypeOK'
  <2>1. lock' \in Cancels \cup {Nobody} /\ failedAt' \subseteq Calls \cup Marks
    BY Known DEF Fails, Throws, Unlocked
  <2> QED
    BY <1>1, <2>1, Known, TypesStay DEF Fails, Went, IInv, TypeOK, remoteVars
<1>3. OneShipment'
  BY NoNewShipment DEF Fails
<1>4. CASE h = Placer
  <2>1. at' \in Backward /\ ~handler'[Placer].waiting
    BY <1>1, <1>4, AfterErrorIs DEF Went, at
  <2>2. HandlersAreRight'
    <3>1. /\ \A g \in Handlers \ {Placer} : handler'[g] = handler[g]
          /\ order' = order /\ at' \notin Forward \cup {"new"}
      BY <1>1, <1>4, <2>1 DEF Went, Fails, Forward, Backward
    <3>2. /\ at' \in {"new", "dead", "succeeded", "refused"} \cup Forward \cup Backward
          /\ handler'[Placer].waiting => at' \in Calls
          /\ order \in WasConfirmed => order' \in WasConfirmed
          /\ order' \in WasConfirmed => at' \notin Forward \cup {"new"}
      BY <2>1, <3>1
    <3> QED
      BY <3>1, <3>2, PlacementMoves
  <2>3. MessagesAreRight'
    BY <2>1, Known DEF IInv, Right, MessagesAreRight, Fails, Forward, Backward
  <2>4. StagesAreRight' /\ ConfirmedIsPaid'
    BY <2>1 DEF IInv, Right, StagesAreRight, ConfirmedIsPaid, Fails, Backward, remoteVars
  <2> QED
    BY <1>2, <1>3, <2>2, <2>3, <2>4 DEF IInv, Right
<1>5. CASE h # Placer
  <2>1. handler'[h].at = "failed" /\ order \in WasConfirmed /\ h \in Cancels /\ h \notin Ships
    BY <1>1, <1>5, AfterErrorIs, Known, OrdersAssumption
    DEF Went, IInv, Right, HandlersAreRight, Calls, Marks
  <2>2. OtherMoves(h)
    BY <1>1, <1>5, <2>1 DEF OtherMoves, Went, Fails
  <2>a. HandlersAreRight' /\ at' = at /\ handler'[Placer] = handler[Placer]
    BY <2>2, OtherMovesIsRight
  <2>3. MessagesAreRight'
    BY <2>1, <2>a DEF IInv, Right, MessagesAreRight, HandlersAreRight, Fails
  <2>4. StagesAreRight' /\ ConfirmedIsPaid'
    BY <2>1, <2>a DEF IInv, Right, StagesAreRight, HandlersAreRight, ConfirmedIsPaid, Fails, Forward, remoteVars
  <2> QED
    BY <1>2, <1>3, <2>a, <2>3, <2>4 DEF IInv, Right
<1> QED
  BY <1>4, <1>5

(* What each UPDATE wants, sets and fills. *)
LEMMA Tables ==
  /\ From["markReserved"] = {"pending"} /\ To["markReserved"] = "reserved"
  /\ Fills["markReserved"] = {"reservation"}
  /\ From["attachIntent"] = {"reserved"} /\ To["attachIntent"] = "reserved"
  /\ Fills["attachIntent"] = {"intent"}
  /\ From["markConfirmed"] = {"reserved"} /\ To["markConfirmed"] = "confirmed"
  /\ Fills["markConfirmed"] = {}
  /\ From["markFailed"] = {"pending", "reserved"} /\ To["markFailed"] = "failed"
  /\ Fills["markFailed"] = {}
  /\ From["markCancelled"] = {"confirmed"} /\ To["markCancelled"] = "cancelled"
  /\ Fills["markCancelled"] = {}
BY DEF From, To, Fills, Marks

(* A step that writes the status and leaves what is remote as it is. *)
Writes(h) ==
  /\ handler[h].at \in Marks /\ Allowed(handler[h].at) /\ Update(handler[h].at)
  /\ lock' = Unlocked(h) /\ failedAt' \subseteq Calls \cup Marks
  /\ UNCHANGED <<shipmentVars, net, remoteVars>>

LEMMA WritesIsTyped ==
  ASSUME IInv, NEW h \in Handlers, Writes(h), handler' \in [Handlers -> HandlerState]
  PROVE  TypeOK' /\ OneShipment'
<1>1. order \in Statuses /\ order' \in Statuses /\ order # "shipped" /\ order' # "shipped"
      /\ refs' \subseteq {"reservation", "intent"}
  BY Known, Tables DEF Writes, Allowed, Update, Marks, Statuses
<1>2. lock' \in Cancels \cup {Nobody}
  BY Known DEF Writes, Unlocked
<1>3. TypeOK'
  BY <1>1, <1>2, Known, TypesStay DEF Writes, IInv, TypeOK, remoteVars
<1>4. OneShipment'
  BY <1>1, NoNewShipment DEF Writes
<1> QED
  BY <1>3, <1>4

(* The placement writes a status: it has no call under way. *)
LEMMA PlacementAtMark ==
  ASSUME IInv, handler[Placer].at \in Marks
  PROVE  /\ at \in {"markReserved", "attachIntent", "markConfirmed", "markFailed"}
         /\ at # "markFailed" => net = {}
<1>1. at \in {"markReserved", "attachIntent", "markConfirmed", "markFailed"}
  BY DEF IInv, Right, HandlersAreRight, at, Forward, Backward, Marks
<1>2. ASSUME at # "markFailed", NEW m \in net PROVE FALSE
  <2>1. m.op \in Calls
    BY Known DEF Messages
  <2>2. m.op = at
    BY <1>1, <1>2 DEF IInv, Right, MessagesAreRight, Forward
  <2> QED
    BY <1>1, <2>1, <2>2 DEF Calls
<1> QED
  BY <1>1, <1>2

LEMMA MarkOfPlacement ==
  ASSUME IInv, Writes(Placer), Went(Placer, After(Placer))
  PROVE  IInv'
<1>1. TypeOK' /\ OneShipment'
  BY Known, WritesIsTyped DEF Went
<1>2. /\ at \in {"markReserved", "attachIntent", "markConfirmed", "markFailed"}
      /\ at # "markFailed" => net = {}
  BY PlacementAtMark DEF Writes
<1>3. /\ at' = After(Placer) /\ ~handler'[Placer].waiting
      /\ \A g \in Handlers \ {Placer} : handler'[g] = handler[g]
      /\ net' = net /\ reservation' = reservation /\ intent' = intent /\ charged' = charged
      /\ order \in From[at] /\ order' = To[at] /\ refs' = refs \cup Fills[at]
  BY DEF Went, Writes, remoteVars, Allowed, Update, at
<1>4. order \notin WasConfirmed
  BY <1>2, <1>3, Tables DEF WasConfirmed
<1>5. CASE at = "markReserved"
  <2>1. at' = "createIntent" /\ order' = "reserved" /\ "reservation" \in refs'
    BY <1>3, <1>5, AfterIs, Known, Tables DEF at, Marks
  <2>2. HandlersAreRight'
    BY <1>3, <1>4, <2>1, PlacementMoves DEF Forward, WasConfirmed
  <2>3. MessagesAreRight' /\ StagesAreRight' /\ ConfirmedIsPaid'
    BY <1>2, <1>3, <1>5, <2>1 DEF MessagesAreRight, StagesAreRight, ConfirmedIsPaid
  <2> QED
    BY <1>1, <2>2, <2>3 DEF IInv, Right
<1>6. CASE at = "attachIntent"
  <2>1. at' = "capture" /\ order' = "reserved" /\ "reservation" \in refs' /\ "intent" \in refs'
        /\ intent' = "requires_capture"
    BY <1>3, <1>6, AfterIs, Known, Tables DEF at, Marks, IInv, Right, StagesAreRight
  <2>2. HandlersAreRight'
    BY <1>3, <1>4, <2>1, PlacementMoves DEF Forward, WasConfirmed
  <2>3. MessagesAreRight' /\ StagesAreRight' /\ ConfirmedIsPaid'
    BY <1>2, <1>3, <1>6, <2>1 DEF MessagesAreRight, StagesAreRight, ConfirmedIsPaid
  <2> QED
    BY <1>1, <2>2, <2>3 DEF IInv, Right
<1>7. CASE at = "markConfirmed"
  <2>1. at' = "succeeded" /\ order' = "confirmed" /\ refs' = {"reservation", "intent"}
    BY <1>1, <1>3, <1>7, AfterIs, Known, Tables DEF at, Marks, IInv, Right, StagesAreRight
  <2>2. charged' /\ intent' = "succeeded" /\ reservation' = "committed"
    BY <1>3, <1>7 DEF IInv, Right, StagesAreRight
  <2>3. HandlersAreRight'
    BY <1>3, <1>4, <2>1, PlacementMoves DEF Forward, WasConfirmed
  <2>4. MessagesAreRight' /\ StagesAreRight' /\ ConfirmedIsPaid'
    BY <1>2, <1>3, <1>7, <2>1, <2>2 DEF MessagesAreRight, StagesAreRight, ConfirmedIsPaid, Forward
  <2> QED
    BY <1>1, <2>3, <2>4 DEF IInv, Right
<1>8. CASE at = "markFailed"
  <2>1. at' = "failed" /\ order' = "failed"
    BY <1>3, <1>8, AfterIs, Known, Tables DEF at, Marks
  <2>2. HandlersAreRight'
    BY <1>3, <1>4, <2>1, PlacementMoves DEF Forward, Backward, WasConfirmed
  <2>3. MessagesAreRight' /\ StagesAreRight' /\ ConfirmedIsPaid'
    BY <1>3, <1>4, <2>1 DEF IInv, Right, MessagesAreRight, StagesAreRight, ConfirmedIsPaid, Forward,
                            WasConfirmed
  <2> QED
    BY <1>1, <2>2, <2>3 DEF IInv, Right
<1> QED
  BY <1>2, <1>5, <1>6, <1>7, <1>8

(* Off the way of the try block nothing is asked of the stages, and an order *)
(* that stays paid is right whatever else happens.                           *)
LEMMA OffTheWay ==
  ASSUME IInv, at' \notin Forward \cup {"new"},
         \A m \in net' : m.is \in {"charged", "declined"} => m.op = "capture",
         \A m \in net' : m.by # Placer => order' \in WasConfirmed,
         order' \in WasConfirmed => \A m \in net' : m.op \in {"release", "void"}
  PROVE  MessagesAreRight' /\ StagesAreRight'
<1>1. MessagesAreRight'
  BY DEF MessagesAreRight
<1>2. StagesAreRight'
  BY DEF StagesAreRight, Forward
<1> QED
  BY <1>1, <1>2

LEMMA MarkOfCancellation ==
  ASSUME IInv, NEW c \in Handlers, c # Placer, Writes(c), Went(c, After(c))
  PROVE  IInv'
<1>1. TypeOK' /\ OneShipment'
  BY WritesIsTyped DEF Went
<1>2. c \in Cancels /\ c \notin Ships /\ handler[c].at = "markCancelled"
  BY Known, OrdersAssumption DEF Writes, IInv, Right, HandlersAreRight, Marks
<1>3. /\ handler'[c].at = "succeeded" /\ ~handler'[c].waiting
      /\ order = "confirmed" /\ order' = "cancelled" /\ net' = net
  BY <1>2, AfterIs, Tables DEF Went, Writes, Allowed, Update, Marks
<1>4. OtherMoves(c)
  BY <1>2, <1>3 DEF OtherMoves, Went, WasConfirmed
<1>5. HandlersAreRight' /\ at' = at
  BY <1>4, OtherMovesIsRight
<1>6. at' \notin Forward \cup {"new"}
  BY <1>3, <1>5 DEF IInv, Right, HandlersAreRight, WasConfirmed
<1>7. MessagesAreRight' /\ StagesAreRight'
  BY <1>3, <1>6, OffTheWay DEF IInv, Right, MessagesAreRight, WasConfirmed
<1>8. ConfirmedIsPaid'
  BY <1>3 DEF ConfirmedIsPaid
<1> QED
  BY <1>1, <1>5, <1>7, <1>8 DEF IInv, Right

LEMMA MarkIsRight ==
  ASSUME IInv, NEW h \in Handlers, Mark(h)
  PROVE  IInv'
<1>1. handler[h].at \in Marks
  BY DEF Mark, AtMark
<1>2. CASE /\ Allowed(handler[h].at) /\ Update(handler[h].at) /\ Goto(h, After(h))
           /\ lock' = Unlocked(h) /\ UNCHANGED failedAt
  <2>1. Writes(h)
    BY <1>1, <1>2, Known DEF Mark, Writes
  <2>2. Went(h, After(h))
    BY <1>1, <1>2, Known, AfterIs, GotoIsTyped
  <2> QED
    BY <2>1, <2>2, MarkOfPlacement, MarkOfCancellation
<1>3. CASE Throws(h) /\ UNCHANGED <<order, refs>>
  BY <1>1, <1>3, FailsIsRight DEF Mark, Fails
<1> QED
  BY <1>2, <1>3 DEF Mark

(* The UPDATE of the placement went through and what follows it threw: even  *)
(* then the order is confirmed only if it is paid.                           *)
LEMMA WritesAndThrows ==
  ASSUME IInv, Writes(Placer), Throws(Placer)
  PROVE  IInv'
<1>1. Went(Placer, AfterError(Placer)) /\ AfterError(Placer) \in Backward
  BY Known, GotoIsTyped, AfterErrorIs DEF Throws
<1>2. TypeOK' /\ OneShipment'
  BY <1>1, Known, WritesIsTyped DEF Went
<1>3. /\ at' \in Backward /\ ~handler'[Placer].waiting
      /\ \A g \in Handlers \ {Placer} : handler'[g] = handler[g]
      /\ net' = net /\ reservation' = reservation /\ intent' = intent /\ charged' = charged
      /\ order \in From[at] /\ order' = To[at] /\ refs' = refs \cup Fills[at]
  BY <1>1 DEF Went, Writes, remoteVars, Allowed, Update, at
<1>4. /\ at \in {"markReserved", "attachIntent", "markConfirmed", "markFailed"}
      /\ at # "markFailed" => net = {}
  BY PlacementAtMark DEF Writes
<1>5. order \notin WasConfirmed /\ at' \notin Forward \cup {"new"}
  BY <1>3, <1>4, Tables DEF WasConfirmed, Forward, Backward
<1>6. HandlersAreRight'
  BY <1>3, <1>5, PlacementMoves
<1>7. order' \in WasConfirmed => at = "markConfirmed" /\ order' = "confirmed"
  BY <1>3, <1>4, Tables DEF WasConfirmed
<1>8. MessagesAreRight' /\ StagesAreRight'
  BY <1>3, <1>4, <1>5, <1>7, OffTheWay DEF IInv, Right, MessagesAreRight
<1>9. ConfirmedIsPaid'
  <2>1. ASSUME order' \in {"confirmed", "shipped"}
        PROVE  charged /\ intent = "succeeded" /\ reservation = "committed"
               /\ refs' = {"reservation", "intent"}
    <3>1. at = "markConfirmed"
      BY <1>7, <2>1 DEF WasConfirmed
    <3> QED
      BY <1>3, <3>1, Known, Tables DEF IInv, Right, StagesAreRight
  <2> QED
    BY <1>3, <2>1 DEF ConfirmedIsPaid
<1> QED
  BY <1>2, <1>6, <1>8, <1>9 DEF IInv, Right

LEMMA MarkThrowsIsRight ==
  ASSUME IInv, NEW h \in Handlers, MarkThrows(h)
  PROVE  IInv'
<1>1. handler[h].at \in Marks /\ Throws(h)
  BY DEF MarkThrows, AtMark
<1>2. CASE UNCHANGED <<order, refs>>
  BY <1>1, <1>2, FailsIsRight DEF MarkThrows, Fails
<1>3. CASE h = Placer /\ Allowed(handler[h].at) /\ Update(handler[h].at)
  <2>1. failedAt' \subseteq Calls \cup Marks
    BY <1>1, Known DEF Throws
  <2>2. Writes(Placer)
    BY <1>1, <1>3, <2>1 DEF MarkThrows, Throws, Writes
  <2> QED
    BY <1>1, <1>3, <2>2, WritesAndThrows
<1> QED
  BY <1>2, <1>3 DEF MarkThrows

-------------------------------------------------------------------------------
(* Calls *)

LEMMA SendIsRight ==
  ASSUME IInv, NEW h \in Handlers, Send(h)
  PROVE  IInv'
<1> DEFINE r == Message(h, "request")
<1>1. /\ handler' \in [Handlers -> HandlerState]
      /\ handler'[h].at = handler[h].at /\ handler'[h].waiting
      /\ \A g \in Handlers \ {h} : handler'[g] = handler[g]
  BY Known, SendIsTyped
<1>2. /\ handler[h].at \in Calls /\ ~handler[h].waiting
      /\ net' = net \cup {r}
      /\ UNCHANGED <<orderVars, shipmentVars, failedAt, remoteVars>>
  BY DEF Send
<1>3. r \in Messages /\ r.by = h /\ r.op = handler[h].at /\ r.is = "request"
  BY <1>2 DEF Message, Messages
<1> HIDE DEF r
<1>4. TypeOK'
  BY <1>1, <1>2, <1>3, Known, TypesStay DEF IInv, TypeOK, orderVars, remoteVars
<1>5. OneShipment' /\ order' = order /\ refs' = refs
  BY <1>2, NoNewShipment DEF orderVars
<1>6. ConfirmedIsPaid'
  BY <1>2 DEF IInv, Right, ConfirmedIsPaid, orderVars, remoteVars
<1>7. CASE h = Placer
  <2>1. at' = at /\ at \in Calls /\ handler'[Placer].waiting /\ ~handler[Placer].waiting
    BY <1>1, <1>2, <1>7 DEF at
  <2>2. HandlersAreRight'
    BY <1>1, <1>5, <1>7, <2>1, PlacementMoves DEF IInv, Right, HandlersAreRight
  <2>3. CASE at \in Forward \cup {"new"}
    <3>1. net = {} /\ net' = {r} /\ r.op = at /\ r.is = "request" /\ r.by = Placer
      BY <1>2, <1>3, <1>7, <2>1, <2>3 DEF IInv, Right, MessagesAreRight, at
    <3>2. order' \notin WasConfirmed
      BY <1>5, <2>3 DEF IInv, Right, HandlersAreRight
    <3>3. MessagesAreRight'
      BY <2>1, <3>1, <3>2 DEF MessagesAreRight
    <3>4. StagesAreRight'
      BY <1>2, <1>5, <2>1, <3>1 DEF IInv, Right, StagesAreRight, remoteVars
    <3> QED
      BY <1>4, <1>5, <1>6, <2>2, <3>3, <3>4 DEF IInv, Right
  <2>4. CASE at \notin Forward \cup {"new"}
    <3>1. r.op \in {"release", "void"}
      BY <1>3, <1>7, <2>1, <2>4 DEF IInv, Right, HandlersAreRight, at, Forward, Backward, Calls
    <3>2. MessagesAreRight' /\ StagesAreRight'
      BY <1>2, <1>3, <1>5, <1>7, <2>1, <2>4, <3>1, OffTheWay DEF IInv, Right, MessagesAreRight
    <3> QED
      BY <1>4, <1>5, <1>6, <2>2, <3>2 DEF IInv, Right
  <2> QED
    BY <2>3, <2>4
<1>8. CASE h # Placer
  <2>1. h \in Cancels /\ h \notin Ships /\ handler[h].at \in {"release", "void"}
        /\ order \in WasConfirmed
    BY <1>2, <1>8, Known, OrdersAssumption DEF IInv, Right, HandlersAreRight, Calls
  <2>2. OtherMoves(h)
    BY <1>1, <1>2, <1>5, <1>8, <2>1 DEF OtherMoves
  <2>3. HandlersAreRight' /\ at' = at
    BY <2>2, OtherMovesIsRight
  <2>4. at' \notin Forward \cup {"new"}
    BY <2>1, <2>3 DEF IInv, Right, HandlersAreRight
  <2>5. MessagesAreRight' /\ StagesAreRight'
    BY <1>2, <1>3, <1>5, <2>1, <2>4, OffTheWay DEF IInv, Right, MessagesAreRight
  <2> QED
    BY <1>4, <1>5, <1>6, <2>3, <2>5 DEF IInv, Right
<1> QED
  BY <1>7, <1>8

LEMMA ReceiveIsRight ==
  ASSUME IInv, NEW h \in Handlers, Receive(h)
  PROVE  IInv'
<1> DEFINE r == Message(h, "ok")
<1>1. handler[h].at \in Calls /\ r \in net /\ net' = net \ {r} /\ handler[h].waiting
      /\ UNCHANGED <<orderVars, shipmentVars, failedAt, remoteVars>>
  BY DEF Receive, IInv, Right, HandlersAreRight
<1>2. Went(h, After(h))
  BY <1>1, Known, ReceiveIsTyped
<1>3. r.by = h /\ r.op = handler[h].at /\ r.is = "ok"
  BY DEF Message
<1> HIDE DEF r
<1>4. TypeOK'
  BY <1>1, <1>2, Known, TypesStay DEF Went, IInv, TypeOK, orderVars, remoteVars
<1>5. OneShipment' /\ order' = order /\ refs' = refs
      /\ reservation' = reservation /\ intent' = intent /\ charged' = charged
  BY <1>1, NoNewShipment DEF orderVars, remoteVars
<1>6. ConfirmedIsPaid'
  BY <1>5 DEF IInv, Right, ConfirmedIsPaid
<1>7. CASE h = Placer
  <2>1. /\ at' = After(Placer) /\ ~handler'[Placer].waiting /\ at \in Calls
        /\ at \in Forward \cup Backward
        /\ \A g \in Handlers \ {Placer} : handler'[g] = handler[g]
    BY <1>1, <1>2, <1>7 DEF Went, at, IInv, Right, HandlersAreRight, Calls
  <2>2. CASE at \in Forward
    <3>1. net' = {} /\ r.is = "ok"
      BY <1>1, <1>3, <2>2 DEF IInv, Right, MessagesAreRight
    <3>2. order' \notin WasConfirmed /\ order \notin WasConfirmed
      BY <1>5, <2>2 DEF IInv, Right, HandlersAreRight
    <3>3. /\ at = "reserve" => at' = "markReserved"
          /\ at = "createIntent" => at' = "attachIntent"
          /\ at = "capture" => at' = "commit"
          /\ at = "commit" => at' = "markConfirmed"
          /\ at \in {"reserve", "createIntent", "capture", "commit"}
      BY <2>1, <2>2, Known, AfterIs DEF at, Forward, Calls
    <3>4. HandlersAreRight'
      BY <2>1, <3>2, <3>3, PlacementMoves DEF Forward
    <3>5. MessagesAreRight'
      BY <3>1 DEF MessagesAreRight
    <3>6. StagesAreRight'
      BY <1>1, <1>5, <3>1, <3>3 DEF IInv, Right, StagesAreRight
    <3> QED
      BY <1>4, <1>5, <1>6, <3>4, <3>5, <3>6 DEF IInv, Right
  <2>3. CASE at \in Backward
    <3>1. at' \in {"void", "markFailed"}
      BY <2>1, <2>3, Known, AfterIs DEF at, Backward, Calls, LastMark
    <3>2. at' \notin Forward \cup {"new"} /\ at' \in Backward
      BY <3>1 DEF Forward, Backward
    <3>3. HandlersAreRight'
      BY <1>5, <2>1, <3>2, PlacementMoves
    <3>4. MessagesAreRight' /\ StagesAreRight'
      BY <1>1, <1>5, <3>2, OffTheWay DEF IInv, Right, MessagesAreRight
    <3> QED
      BY <1>4, <1>5, <1>6, <3>3, <3>4 DEF IInv, Right
  <2> QED
    BY <2>1, <2>2, <2>3
<1>8. CASE h # Placer
  <2>1. h \in Cancels /\ h \notin Ships /\ handler[h].at \in {"release", "void"}
        /\ order \in WasConfirmed
    BY <1>1, <1>8, Known, OrdersAssumption DEF IInv, Right, HandlersAreRight, Calls
  <2>2. handler'[h].at \in {"void", "markCancelled"} /\ ~handler'[h].waiting
    BY <1>1, <1>2, <1>8, <2>1, AfterIs DEF Went, LastMark
  <2>3. OtherMoves(h)
    BY <1>2, <1>5, <1>8, <2>1, <2>2 DEF OtherMoves, Went
  <2>4. HandlersAreRight' /\ at' = at
    BY <2>3, OtherMovesIsRight
  <2>5. at' \notin Forward \cup {"new"}
    BY <2>1, <2>4 DEF IInv, Right, HandlersAreRight
  <2>6. MessagesAreRight' /\ StagesAreRight'
    BY <1>1, <1>5, <2>5, OffTheWay DEF IInv, Right, MessagesAreRight
  <2> QED
    BY <1>4, <1>5, <1>6, <2>4, <2>6 DEF IInv, Right
<1> QED
  BY <1>7, <1>8

LEMMA CallFails ==
  ASSUME IInv, NEW h \in Handlers, ReceiveRefusal(h) \/ CallThrows(h)
  PROVE  IInv'
<1>1. handler[h].at \in Calls
  BY DEF ReceiveRefusal, CallThrows, IInv, Right, HandlersAreRight
<1>2. Fails(h)
  BY DEF ReceiveRefusal, CallThrows, Fails
<1> QED
  BY <1>1, <1>2, FailsIsRight

-------------------------------------------------------------------------------
(* The services called *)

LEMMA TableOfMessage ==
  ASSUME NEW m \in Messages, NEW is \in {"request", "charged", "declined", "ok", "refused"}
  PROVE  /\ [m EXCEPT !.is = is] \in Messages
         /\ [m EXCEPT !.is = is].by = m.by
         /\ [m EXCEPT !.is = is].op = m.op
         /\ [m EXCEPT !.is = is].is = is
BY DEF Messages

(* An answer takes the place of its request.                               *)
LEMMA AnswerIsRight ==
  ASSUME IInv, NEW m \in net, NEW is \in {"charged", "declined", "ok", "refused"},
         is \in {"charged", "declined"} => m.op = "capture",
         Answer(m, is)
  PROVE  /\ net' \subseteq Messages
         /\ HandlersAreRight' /\ MessagesAreRight' /\ OneShipment'
         /\ at' = at /\ order' = order /\ refs' = refs /\ handler' = handler
         /\ at \in Forward \cup {"new"} =>
              /\ m.op = at
              /\ \A n \in net' : n.op = at /\ n.is = is
         /\ order \in WasConfirmed => m.op \in {"release", "void"}
<1> DEFINE a == [m EXCEPT !.is = is]
<1>a. m \in Messages
  BY Known
<1>b. is \in {"request", "charged", "declined", "ok", "refused"}
  OBVIOUS
<1>1. m \in Messages /\ a \in Messages /\ a.by = m.by /\ a.op = m.op /\ a.is = is
  BY <1>a, <1>b, TableOfMessage
<1>2. net' = (net \ {m}) \cup {a}
  BY DEF Answer, Becomes
<1> HIDE DEF a
<1>3. /\ order' = order /\ refs' = refs /\ handler' = handler /\ at' = at
      /\ UNCHANGED shipmentVars
  BY DEF Answer, orderVars, at
<1>4. net' \subseteq Messages
  BY <1>1, <1>2, Known
<1>5. HandlersAreRight'
  BY <1>3 DEF IInv, Right, HandlersAreRight
<1>6. /\ at \in Forward \cup {"new"} =>
           /\ m.op = at /\ handler[Placer].waiting /\ net = {m}
      /\ order \in WasConfirmed => m.op \in {"release", "void"}
  BY DEF IInv, Right, MessagesAreRight
<1>7. at \in Forward \cup {"new"} => net' = {a} /\ a.op = at /\ a.is = is
  BY <1>1, <1>2, <1>6
<1>8. MessagesAreRight'
  BY <1>1, <1>2, <1>3, <1>6, <1>7 DEF IInv, Right, MessagesAreRight
<1>9. OneShipment'
  BY <1>3, NoNewShipment
<1> QED
  BY <1>3, <1>4, <1>5, <1>6, <1>7, <1>8, <1>9

(* What a service does to the reservation, the intent and the charge is     *)
(* right if it is right for the stages and for a confirmed order.           *)
LEMMA ServeIsRight ==
  ASSUME IInv, NEW m \in net, NEW is \in {"charged", "declined", "ok", "refused"},
         is \in {"charged", "declined"} => m.op = "capture",
         Answer(m, is),
         reservation' \in {"absent", "pending", "committed", "released"},
         intent' \in {"absent", "requires_capture", "succeeded", "failed", "voided"},
         charged' \in BOOLEAN,
         m.op \in {"release", "void"} => charged' = charged,
         m.op \in {"release", "void"} /\ intent = "succeeded" => intent' = intent,
         m.op \in {"release", "void"} /\ reservation = "committed" => reservation' = reservation,
         m.op = "createIntent" => intent' = "requires_capture",
         m.op = "capture" /\ is \in {"charged", "declined"} => intent' = "requires_capture",
         m.op = "capture" /\ is = "charged" => charged',
         m.op = "capture" /\ is = "ok" => charged' /\ intent' = "succeeded",
         m.op = "commit" => charged' = charged /\ intent' = intent,
         m.op = "commit" /\ is = "ok" => reservation' = "committed"
  PROVE  IInv'
<1>1. /\ net' \subseteq Messages
      /\ HandlersAreRight' /\ MessagesAreRight' /\ OneShipment'
      /\ at' = at /\ order' = order /\ refs' = refs /\ handler' = handler
      /\ at \in Forward \cup {"new"} =>
           /\ m.op = at
           /\ \A n \in net' : n.op = at /\ n.is = is
      /\ order \in WasConfirmed => m.op \in {"release", "void"}
  BY AnswerIsRight
<1>2. TypeOK'
  BY <1>1, Known, TypesStay DEF Answer, IInv, TypeOK, orderVars
<1>3. StagesAreRight'
  <2>1. CASE at \notin Forward \cup {"new"}
    BY <1>1, <2>1 DEF StagesAreRight, Forward
  <2>2. CASE at \in Forward \cup {"new"}
    <3>1. m.op = at /\ m.op \in Calls /\ \A n \in net' : n.is = is
      BY <1>1, <2>2, Known DEF Messages
    <3>2. at \in {"reserve", "createIntent", "capture", "commit"} /\ handler[Placer].waiting
      BY <2>2, <3>1 DEF Forward, Calls, IInv, Right, MessagesAreRight
    <3>3. StagesAreRight
      BY DEF IInv, Right
    <3> HIDE DEF Forward
    <3>4. CASE at = "reserve"
      BY <1>1, <3>1, <3>3, <3>4 DEF StagesAreRight
    <3>5. CASE at = "createIntent"
      BY <1>1, <3>1, <3>3, <3>5 DEF StagesAreRight
    <3>6. CASE at = "capture"
      BY <1>1, <3>1, <3>2, <3>3, <3>6 DEF StagesAreRight
    <3>7. CASE at = "commit"
      BY <1>1, <3>1, <3>3, <3>7 DEF StagesAreRight
    <3> QED
      BY <3>2, <3>4, <3>5, <3>6, <3>7
  <2> QED
    BY <2>1, <2>2
<1>4. ConfirmedIsPaid'
  BY <1>1 DEF IInv, Right, ConfirmedIsPaid, WasConfirmed
<1> QED
  BY <1>1, <1>2, <1>3, <1>4 DEF IInv, Right

(* Of what is asked, and what was found, when a request is served. *)
LEMMA RemoteIsTyped ==
  ASSUME IInv
  PROVE  /\ reservation \in {"absent", "pending", "committed", "released"}
         /\ intent \in {"absent", "requires_capture", "succeeded", "failed", "voided"}
         /\ charged \in BOOLEAN
BY DEF IInv, TypeOK

(* A capture that nobody waits for any more writes the intent: the order is *)
(* not confirmed.                                                           *)
LEMMA LateCaptureIsRight ==
  ASSUME IInv, NEW m \in net, FinishCapture(m), m.op = "capture", at \notin Forward \cup {"new"}
  PROVE  IInv'
<1>1. PICK is \in {"ok", "refused"} : Answer(m, is)
  BY DEF FinishCapture
<1>2. /\ net' \subseteq Messages
      /\ HandlersAreRight' /\ MessagesAreRight' /\ OneShipment'
      /\ at' = at /\ order' = order /\ refs' = refs /\ handler' = handler
      /\ order \in WasConfirmed => m.op \in {"release", "void"}
  BY <1>1, AnswerIsRight
<1>3. /\ reservation' = reservation /\ charged' = charged
      /\ intent' \in {"absent", "requires_capture", "succeeded", "failed", "voided"}
  BY RemoteIsTyped DEF FinishCapture
<1>4. TypeOK'
  BY <1>1, <1>2, <1>3, Known, RemoteIsTyped, TypesStay DEF Answer, orderVars
<1>5. StagesAreRight'
  BY <1>2 DEF StagesAreRight, Forward
<1>6. ConfirmedIsPaid'
  BY <1>2 DEF ConfirmedIsPaid, WasConfirmed
<1> QED
  BY <1>2, <1>4, <1>5, <1>6 DEF IInv, Right

LEMMA ServedIsRight ==
  ASSUME IInv, NEW m \in net, Serve(m)
  PROVE  IInv'
<1> USE RemoteIsTyped
<1>1. CASE ServeReserve(m)
  BY <1>1, ServeIsRight DEF ServeReserve, Request
<1>2. CASE ServeCommit(m)
  BY <1>2, ServeIsRight DEF ServeCommit, Request
<1>3. CASE ServeRelease(m)
  BY <1>3, ServeIsRight DEF ServeRelease, Request
<1>4. CASE ServeCreateIntent(m)
  BY <1>4, ServeIsRight DEF ServeCreateIntent, Request
<1>5. CASE Capture(m)
  BY <1>5, ServeIsRight DEF Capture, Request
<1>6. CASE FinishCapture(m)
  <2>1. m.op = "capture"
    BY <1>6 DEF FinishCapture, IInv, Right, MessagesAreRight
  <2>2. CASE at = "capture"
    <3>1. intent = "requires_capture" /\ (m.is = "charged" => charged)
      BY <1>6, <2>2 DEF FinishCapture, IInv, Right, StagesAreRight
    <3> QED
      BY <1>6, <2>1, <3>1, ServeIsRight DEF FinishCapture
  <2>3. CASE at # "capture"
    <3>1. at \notin Forward \cup {"new"}
      BY <2>1, <2>3 DEF IInv, Right, MessagesAreRight
    <3> QED
      BY <1>6, <2>1, <3>1, LateCaptureIsRight
  <2> QED
    BY <2>2, <2>3
<1>7. CASE ServeVoid(m)
  BY <1>7, ServeIsRight DEF ServeVoid, Request
<1> QED
  BY <1>1, <1>2, <1>3, <1>4, <1>5, <1>6, <1>7 DEF Serve

-------------------------------------------------------------------------------
(* Everything else *)

(* The placement begins or is refused. *)
LEMMA BeginningIsRight ==
  ASSUME IInv, Refuse \/ CreatePending \/ CreatePendingThrows
  PROVE  IInv'
<1>1. PICK s \in {"refused", "reserve", "failed"} :
        Goto(Placer, s) /\ (s = "reserve" => order' = "pending")
  BY DEF Refuse, CreatePending, CreatePendingThrows
<1>2. Went(Placer, s)
  BY <1>1, Known, GotoIsTyped DEF Steps, Calls, Ends
<1>3. /\ at = "new" /\ order = "none" /\ order' \in {"none", "pending"}
      /\ UNCHANGED <<refs, lock, shipmentVars, failedAt, net, remoteVars>>
  BY DEF Refuse, CreatePending, CreatePendingThrows, At, at, IInv, Right, StagesAreRight, orderVars
<1>4. net = {}
  BY <1>3 DEF Refuse, CreatePending, CreatePendingThrows, At, at, IInv, Right, MessagesAreRight
<1>5. TypeOK'
  BY <1>2, <1>3, Known, RemoteIsTyped, TypesStay DEF Went, Statuses, remoteVars
<1>6. OneShipment'
  BY <1>3, NoNewShipment
<1>7. /\ at' = s /\ ~handler'[Placer].waiting
      /\ \A g \in Handlers \ {Placer} : handler'[g] = handler[g]
  BY <1>2 DEF Went, at
<1>8. HandlersAreRight'
  BY <1>3, <1>7, PlacementMoves DEF WasConfirmed, Forward, Backward
<1>9. MessagesAreRight' /\ StagesAreRight' /\ ConfirmedIsPaid'
  BY <1>1, <1>3, <1>4, <1>7 DEF MessagesAreRight, StagesAreRight, ConfirmedIsPaid
<1> QED
  BY <1>5, <1>6, <1>8, <1>9 DEF IInv, Right

(* A request other than the placement begins on a confirmed order, or is    *)
(* refused.                                                                 *)
LEMMA RequestIsRight ==
  ASSUME IInv, NEW h \in Handlers, OtherMoves(h), TypeOK', OneShipment',
         UNCHANGED <<refs, net, remoteVars>>,
         \/ order' = order
         \/ order = "confirmed" /\ order' = "shipped"
  PROVE  IInv'
<1>1. HandlersAreRight' /\ at' = at /\ handler'[Placer] = handler[Placer]
  BY OtherMovesIsRight
<1>2. ConfirmedIsPaid'
  BY DEF IInv, Right, ConfirmedIsPaid, remoteVars
<1>3. CASE order' = order
  <2>1. MessagesAreRight' /\ StagesAreRight'
    BY <1>1, <1>3 DEF IInv, Right, MessagesAreRight, StagesAreRight, remoteVars
  <2> QED
    BY <1>1, <1>2, <2>1 DEF IInv, Right
<1>4. CASE order = "confirmed" /\ order' = "shipped"
  <2>1. order \in WasConfirmed /\ order' \in WasConfirmed
    BY <1>4 DEF WasConfirmed
  <2>2. at' \notin Forward \cup {"new"}
    BY <1>1, <2>1 DEF IInv, Right, HandlersAreRight
  <2>3. MessagesAreRight' /\ StagesAreRight'
    BY <2>1, <2>2, OffTheWay DEF IInv, Right, MessagesAreRight
  <2> QED
    BY <1>1, <1>2, <2>3 DEF IInv, Right
<1> QED
  BY <1>3, <1>4

LEMMA CancelBegins ==
  ASSUME IInv, NEW h \in Handlers, BeginCancel(h)
  PROVE  IInv'
<1> DEFINE s == IF "reservation" \in refs THEN "release"
                ELSE IF "intent" \in refs THEN "void" ELSE "markCancelled"
<1> DEFINE d == [at |-> s, waiting |-> FALSE, known |-> refs]
<1>1. d \in HandlerState /\ d.at = s /\ d.waiting = FALSE
      /\ s \in {"release", "void", "markCancelled"}
  BY Known DEF HandlerState, Calls, Marks
<1>2. handler' = [handler EXCEPT ![h] = d]
  BY DEF BeginCancel
<1> HIDE DEF d, s
<1>3. /\ handler' \in [Handlers -> HandlerState] /\ handler'[h] = d
      /\ \A g \in Handlers \ {h} : handler'[g] = handler[g]
  BY <1>1, <1>2, Known
<1>4. /\ h \in Cancels /\ h # Placer /\ h \notin Ships
      /\ order = "confirmed" /\ order' = "confirmed" /\ lock' \in Cancels
      /\ UNCHANGED <<refs, shipmentVars, failedAt, net, remoteVars>>
  BY Known, OrdersAssumption DEF BeginCancel
<1>5. TypeOK' /\ OneShipment'
  BY <1>3, <1>4, Known, RemoteIsTyped, TypesStay, NoNewShipment DEF Statuses, remoteVars
<1>6. handler'[h].at = s /\ ~handler'[h].waiting
  BY <1>1, <1>3
<1>7. OtherMoves(h)
  BY <1>1, <1>3, <1>4, <1>6 DEF OtherMoves, WasConfirmed
<1> QED
  BY <1>4, <1>5, <1>7, RequestIsRight

LEMMA RefusalIsRight ==
  ASSUME IInv, NEW h \in Handlers, RefuseToCancel(h) \/ RefuseToShip(h)
  PROVE  IInv'
<1>1. /\ h # Placer /\ Goto(h, "refused") /\ order' = order
      /\ UNCHANGED <<orderVars, shipmentVars, failedAt, net, remoteVars>>
  BY Known DEF RefuseToCancel, RefuseToShip, orderVars
<1>2. Went(h, "refused")
  BY <1>1, Known, GotoIsTyped DEF Steps, Ends
<1>3. TypeOK' /\ OneShipment'
  BY <1>1, <1>2, Known, RemoteIsTyped, TypesStay, NoNewShipment DEF Went, orderVars, remoteVars
<1>4. OtherMoves(h)
  BY <1>1, <1>2 DEF OtherMoves, Went
<1> QED
  BY <1>1, <1>3, <1>4, RequestIsRight DEF orderVars

(* The one step that adds a shipment finds none and marks the order. *)
LEMMA ShipIsRight ==
  ASSUME IInv, NEW h \in Handlers, Ship(h)
  PROVE  IInv'
<1>1. /\ h \in Ships /\ h # Placer /\ h \notin Cancels /\ Goto(h, "succeeded")
      /\ order = "confirmed" /\ ~Shipped /\ order' = "shipped"
      /\ shipment' = [shipment EXCEPT ![h] = "preparing"]
      /\ UNCHANGED <<refs, lock, age, tick, failedAt, net, remoteVars>>
  BY Known, OrdersAssumption DEF Ship
<1>2. Went(h, "succeeded")
  BY <1>1, Known, GotoIsTyped DEF Steps, Ends
<1>3. shipment \in [Ships -> {"none", "preparing", "dispatched", "delivered"}]
  BY DEF IInv, TypeOK
<1>4. shipment' \in [Ships -> {"none", "preparing", "dispatched", "delivered"}]
  BY <1>1, <1>3
<1>5. TypeOK'
  BY <1>1, <1>2, <1>4 DEF Went, IInv, TypeOK, HandlerState, remoteVars
<1>6. \A s \in Ships : shipment'[s] # "none" <=> s = h
  BY <1>1, <1>3 DEF Shipped
<1>7. OneShipment'
  BY <1>1, <1>6 DEF OneShipment, Shipped
<1>8. OtherMoves(h)
  BY <1>1, <1>2 DEF OtherMoves, Went, WasConfirmed
<1> QED
  BY <1>1, <1>5, <1>7, <1>8, RequestIsRight

LEMMA RightStays ==
  ASSUME IInv, UNCHANGED <<order, refs, handler, net, remoteVars>>
  PROVE  Right'
BY DEF IInv, Right, HandlersAreRight, MessagesAreRight, StagesAreRight, ConfirmedIsPaid, at, remoteVars

(* The expiry job of inventory. *)
LEMMA ExpireIsRight ==
  ASSUME IInv, Expire
  PROVE  IInv'
<1>1. /\ reservation = "pending" /\ reservation' = "released" /\ at \in Ends \cup {"new", "dead"}
      /\ order' = order /\ refs' = refs /\ at' = at /\ handler' = handler /\ net' = net
      /\ intent' = intent /\ charged' = charged /\ UNCHANGED shipmentVars
  BY DEF Expire, Active, at, orderVars
<1>2. TypeOK' /\ OneShipment'
  BY <1>1, Known, RemoteIsTyped, TypesStay, NoNewShipment DEF Expire, orderVars
<1>3. HandlersAreRight' /\ MessagesAreRight'
  BY <1>1 DEF IInv, Right, HandlersAreRight, MessagesAreRight
<1>4. StagesAreRight'
  BY <1>1 DEF IInv, Right, StagesAreRight, Ends
<1>5. ConfirmedIsPaid'
  BY <1>1 DEF IInv, Right, ConfirmedIsPaid
<1> QED
  BY <1>2, <1>3, <1>4, <1>5 DEF IInv, Right

(* The shipment progress job and the time that passes. *)
TimerStep ==
  \/ \E s \in Ships : Age(s)
  \/ \E t \in Ticks : List(t)
  \/ \E t \in Ticks, s \in Ships : Reach(t, s)

LEMMA ShipmentTypes ==
  ASSUME IInv
  PROVE  /\ shipment \in [Ships -> {"none", "preparing", "dispatched", "delivered"}]
         /\ age \in [Ships -> 0 .. 2]
         /\ tick \in [Ticks -> [Ships -> {"none", "preparing", "dispatched"}]]
         /\ NoShipment \in [Ships -> {"none", "preparing", "dispatched"}]
BY DEF IInv, TypeOK, NoShipment

(* A status is written only over the one that was listed, and moves on. *)
LEMMA AdvanceStatusIs ==
  ASSUME IInv, NEW s \in Ships, NEW from \in {"preparing", "dispatched"}, AdvanceStatus(s, from)
  PROVE  /\ shipment' \in [Ships -> {"none", "preparing", "dispatched", "delivered"}]
         /\ \A u \in Ships : shipment'[u] # "none" <=> shipment[u] # "none"
         /\ \A u \in Ships : shipment'[u] # shipment[u] =>
              <<shipment[u], shipment'[u]>> \in
                {<<"preparing", "dispatched">>, <<"dispatched", "delivered">>}
<1>1. NextStatus["preparing"] = "dispatched" /\ NextStatus["dispatched"] = "delivered"
  BY DEF NextStatus
<1> QED
  BY <1>1, ShipmentTypes DEF AdvanceStatus

LEMMA TimerIs ==
  ASSUME IInv, TimerStep
  PROVE  /\ shipment' \in [Ships -> {"none", "preparing", "dispatched", "delivered"}]
         /\ age' \in [Ships -> 0 .. 2]
         /\ tick' \in [Ticks -> [Ships -> {"none", "preparing", "dispatched"}]]
         /\ \A u \in Ships : shipment'[u] # "none" <=> shipment[u] # "none"
         /\ \A u \in Ships : shipment'[u] # shipment[u] =>
              <<shipment[u], shipment'[u]>> \in
                {<<"preparing", "dispatched">>, <<"dispatched", "delivered">>}
         /\ UNCHANGED <<orderVars, handler, failedAt, net, remoteVars>>
<1> USE ShipmentTypes
<1>1. CASE \E s \in Ships : Age(s)
  BY <1>1 DEF Age
<1>2. CASE \E t \in Ticks : List(t)
  <2>1. PICK t \in Ticks : List(t)
    BY <1>2
  <2>2. [s \in Ships |-> IF Ready(s) THEN shipment[s] ELSE "none"]
          \in [Ships -> {"none", "preparing", "dispatched"}]
    BY DEF Ready
  <2>3. tick' \in [Ticks -> [Ships -> {"none", "preparing", "dispatched"}]]
    BY <2>1, <2>2 DEF List
  <2> QED
    BY <2>1, <2>3 DEF List
<1>3. CASE \E t \in Ticks, s \in Ships : Reach(t, s)
  <2>1. PICK t \in Ticks, s \in Ships : Reach(t, s)
    BY <1>3
  <2>2. tick[t] \in [Ships -> {"none", "preparing", "dispatched"}]
        /\ tick[t][s] \in {"preparing", "dispatched"}
    BY <2>1 DEF Reach, Advance, AdvanceThrows
  <2>3. [tick[t] EXCEPT ![s] = "none"] \in [Ships -> {"none", "preparing", "dispatched"}]
    BY <2>2
  <2>4. tick' \in [Ticks -> [Ships -> {"none", "preparing", "dispatched"}]]
    BY <2>1, <2>3 DEF Reach, Advance, AdvanceThrows
  <2>5. AdvanceStatus(s, tick[t][s]) \/ UNCHANGED shipment
    BY <2>1 DEF Reach, Advance, AdvanceThrows
  <2>6. /\ shipment' \in [Ships -> {"none", "preparing", "dispatched", "delivered"}]
        /\ \A u \in Ships : shipment'[u] # "none" <=> shipment[u] # "none"
        /\ \A u \in Ships : shipment'[u] # shipment[u] =>
             <<shipment[u], shipment'[u]>> \in
               {<<"preparing", "dispatched">>, <<"dispatched", "delivered">>}
    BY <2>2, <2>5, AdvanceStatusIs
  <2>7. age' = age /\ UNCHANGED <<orderVars, handler, failedAt, net, remoteVars>>
    BY <2>1 DEF Reach, Advance, AdvanceThrows
  <2> QED
    BY <2>4, <2>6, <2>7
<1> QED
  BY <1>1, <1>2, <1>3 DEF TimerStep

LEMMA TimerIsRight ==
  ASSUME IInv, TimerStep
  PROVE  IInv'
<1>a. /\ shipment' \in [Ships -> {"none", "preparing", "dispatched", "delivered"}]
      /\ age' \in [Ships -> 0 .. 2]
      /\ tick' \in [Ticks -> [Ships -> {"none", "preparing", "dispatched"}]]
      /\ UNCHANGED <<orderVars, handler, failedAt, net, remoteVars>>
  BY TimerIs
<1>1. TypeOK'
  BY <1>a DEF IInv, TypeOK, orderVars, remoteVars
<1>2. Right'
  BY TimerIs, RightStays DEF orderVars
<1>3. OneShipment'
  BY TimerIs DEF IInv, OneShipment, Shipped, orderVars
<1> QED
  BY <1>1, <1>2, <1>3 DEF IInv

LEMMA DyingIsTyped ==
  ASSUME NEW r \in HandlerState
  PROVE  /\ [r EXCEPT !.at = "dead", !.waiting = FALSE] \in HandlerState
         /\ [r EXCEPT !.at = "dead", !.waiting = FALSE].at = "dead"
         /\ [r EXCEPT !.at = "dead", !.waiting = FALSE].waiting = FALSE
BY DEF HandlerState

(* The process dies: who was at work is not any more, and waits for nothing. *)
LEMMA CrashIsRight ==
  ASSUME IInv, Crash
  PROVE  IInv'
<1> DEFINE dies(h) == [handler[h] EXCEPT !.at = "dead", !.waiting = FALSE]
<1>1. ASSUME NEW h \in Handlers
      PROVE  dies(h) \in HandlerState /\ dies(h).at = "dead" /\ dies(h).waiting = FALSE
  <2>1. handler[h] \in HandlerState
    BY Known
  <2> QED
    BY <2>1, DyingIsTyped
<1>2. handler' = [h \in Handlers |-> IF Active(h) THEN dies(h) ELSE handler[h]]
  BY DEF Crash
<1> HIDE DEF dies
<1>3. /\ handler' \in [Handlers -> HandlerState]
      /\ \A h \in Handlers : Active(h) => handler'[h].at = "dead" /\ ~handler'[h].waiting
      /\ \A h \in Handlers : ~Active(h) => handler'[h] = handler[h]
  BY <1>1, <1>2, Known
<1>4. /\ order' = order /\ refs' = refs /\ lock' = Nobody /\ net' = net
      /\ tick' = [t \in Ticks |-> NoShipment]
      /\ UNCHANGED <<shipment, age, failedAt, remoteVars>>
  BY DEF Crash
<1>5. TypeOK'
  BY <1>3, <1>4, ShipmentTypes DEF IInv, TypeOK, HandlerState, remoteVars
<1>6. OneShipment'
  BY <1>4 DEF IInv, OneShipment, Shipped
<1>7. \A h \in Handlers : handler'[h].waiting => handler'[h].at \in Calls
  BY <1>3 DEF IInv, Right, HandlersAreRight
<1>8. at' \in {"dead"} \/ (at' = at /\ at \in Ends \cup {"new", "dead"})
  BY <1>3, Known DEF Active, at
<1>9. HandlersAreRight'
  <2>1. \A c \in Cancels :
          \/ handler'[c].at \in {"new", "refused"}
          \/ /\ handler'[c].at \in {"release", "void", "markCancelled", "succeeded", "failed", "dead"}
             /\ order' \in WasConfirmed
    <3>1. \A c \in Cancels : c \in Handlers /\ (Active(c) => order \in WasConfirmed)
      BY Known DEF IInv, Right, HandlersAreRight, Active, Ends
    <3> QED
      BY <1>3, <1>4, <3>1 DEF IInv, Right, HandlersAreRight
  <2>2. \A s \in Ships : handler'[s].at \in {"new", "refused", "succeeded"}
    BY <1>3, Known DEF IInv, Right, HandlersAreRight, Active, Ends
  <2>3. /\ at' \in {"new", "dead", "succeeded", "refused"} \cup Forward \cup Backward
        /\ order' \in WasConfirmed => at' \notin Forward \cup {"new"}
    BY <1>4, <1>8 DEF IInv, Right, HandlersAreRight, Ends, Forward, Backward
  <2> QED
    BY <1>7, <2>1, <2>2, <2>3 DEF HandlersAreRight
<1>10. ConfirmedIsPaid'
  BY <1>4 DEF IInv, Right, ConfirmedIsPaid, remoteVars
<1>11. CASE at' = "new"
  <2>1. at = "new" /\ net' = {} /\ order' = "none"
    <3>1. at = "new" /\ order' = "none"
      BY <1>4, <1>8, <1>11 DEF IInv, Right, StagesAreRight
    <3>2. ~handler[Placer].waiting
      BY <3>1, Known DEF IInv, Right, HandlersAreRight, at, Calls
    <3> QED
      BY <1>4, <3>1, <3>2 DEF IInv, Right, MessagesAreRight
  <2>2. MessagesAreRight' /\ StagesAreRight'
    BY <1>11, <2>1 DEF MessagesAreRight, StagesAreRight
  <2> QED
    BY <1>5, <1>6, <1>9, <1>10, <2>2 DEF IInv, Right
<1>12. CASE at' # "new"
  <2>1. at' \notin Forward \cup {"new"}
    BY <1>8, <1>12 DEF Ends, Forward
  <2>2. MessagesAreRight' /\ StagesAreRight'
    BY <1>4, <2>1, OffTheWay DEF IInv, Right, MessagesAreRight
  <2> QED
    BY <1>5, <1>6, <1>9, <1>10, <2>2 DEF IInv, Right
<1> QED
  BY <1>11, <1>12

LEMMA StepIsRight ==
  ASSUME IInv, [Next]_vars
  PROVE  IInv'
<1>1. CASE Refuse \/ CreatePending \/ CreatePendingThrows
  BY <1>1, BeginningIsRight
<1>2. ASSUME NEW h \in Handlers, Step(h) PROVE IInv'
  BY <1>2, MarkIsRight, MarkThrowsIsRight, SendIsRight, ReceiveIsRight, CallFails DEF Step
<1>3. ASSUME NEW h \in Handlers, Begin(h) PROVE IInv'
  BY <1>3, CancelBegins, RefusalIsRight, ShipIsRight DEF Begin
<1>4. ASSUME NEW m \in net, Serve(m) PROVE IInv'
  BY <1>4, ServedIsRight
<1>5. CASE Expire
  BY <1>5, ExpireIsRight
<1>6. CASE TimerStep
  BY <1>6, TimerIsRight
<1>7. CASE Crash
  BY <1>7, CrashIsRight
<1>8. CASE UNCHANGED vars
  <2>1. Right'
    BY <1>8, RightStays DEF vars, orderVars
  <2> QED
    BY <1>8, <2>1 DEF IInv, TypeOK, OneShipment, Shipped, vars, orderVars, shipmentVars, remoteVars
<1> QED
  BY <1>1, <1>2, <1>3, <1>4, <1>5, <1>6, <1>7, <1>8 DEF Next, TimerStep

LEMMA Invariant == Spec => []IInv
<1>1. Init => IInv
  BY InitIsRight
<1>2. IInv /\ [Next]_vars => IInv'
  BY StepIsRight
<1> QED
  BY <1>1, <1>2, PTL DEF Spec

-------------------------------------------------------------------------------
(* The variables of the orders service stay in their ranges: an order and   *)
(* its shipment have one of the statuses of the schema, and only a           *)
(* cancellation holds the lock of the row (cancelOrder.ts).                  *)
THEOREM OrdersTypeCorrect == Spec => []TypeOK
<1>1. IInv => TypeOK
  BY DEF IInv
<1> QED
  BY <1>1, Invariant, PTL

(* placeOrder.ts: an order is confirmed only when it is paid and its stock   *)
(* is taken, and it stays so while it is confirmed or shipped, whatever      *)
(* calls time out, arrive late or are undone and whoever dies.               *)
THEOREM ConfirmedStaysPaid == Spec => []ConfirmedIsPaid
<1>1. IInv => ConfirmedIsPaid
  BY DEF IInv, Right
<1> QED
  BY <1>1, Invariant, PTL

(* shipOrder.ts: any number of requests to ship an order leave it one        *)
(* shipment, and none if it is not marked shipped.                           *)
THEOREM AtMostOneShipment == Spec => []OneShipment
<1>1. IInv => OneShipment
  BY DEF IInv
<1> QED
  BY <1>1, Invariant, PTL

(* What one step may do to the status of the order and of its shipment. *)
Forwards ==
  /\ order = "confirmed" => order' \in {"confirmed", "cancelled", "shipped"}
  /\ order \in {"failed", "cancelled", "shipped"} => order' = order
  /\ \A s \in Ships :
       shipment'[s] # shipment[s] =>
         <<shipment[s], shipment'[s]>> \in
           {<<"none", "preparing">>, <<"preparing", "dispatched">>, <<"dispatched", "delivered">>}

LEMMA StepMovesForward ==
  ASSUME IInv, [Next]_vars
  PROVE  Forwards
<1>1. CASE Refuse \/ CreatePending \/ CreatePendingThrows
  <2>1. order = "none"
    BY <1>1 DEF Refuse, CreatePending, CreatePendingThrows, At, at, IInv, Right, StagesAreRight
  <2> QED
    BY <1>1, <2>1 DEF Refuse, CreatePending, CreatePendingThrows, Forwards, shipmentVars
<1>2. ASSUME NEW h \in Handlers, Mark(h) \/ MarkThrows(h) PROVE Forwards
  <2>1. handler[h].at \in Marks /\ shipment' = shipment
        /\ \/ order' = order
           \/ order \in From[handler[h].at] /\ order' = To[handler[h].at]
    BY <1>2 DEF Mark, MarkThrows, AtMark, Allowed, Update, shipmentVars
  <2>2. \/ order' = order
        \/ order \in {"pending", "reserved"}
        \/ order = "confirmed" /\ order' = "cancelled"
    BY <2>1, Tables DEF Marks
  <2> QED
    BY <2>1, <2>2 DEF Forwards
<1>3. ASSUME NEW h \in Handlers, Send(h) \/ Receive(h) \/ ReceiveRefusal(h) \/ CallThrows(h)
      PROVE Forwards
  BY <1>3 DEF Send, Receive, ReceiveRefusal, CallThrows, Forwards, orderVars, shipmentVars
<1>4. ASSUME NEW h \in Handlers, BeginCancel(h) \/ RefuseToCancel(h) \/ RefuseToShip(h) PROVE Forwards
  BY <1>4 DEF BeginCancel, RefuseToCancel, RefuseToShip, Forwards, orderVars, shipmentVars
<1>5. ASSUME NEW h \in Handlers, Ship(h) PROVE Forwards
  <2>1. \A s \in Ships : shipment[s] = "none"
    BY <1>5 DEF Ship, Shipped
  <2> QED
    BY <1>5, <2>1, ShipmentTypes DEF Ship, Forwards
<1>6. ASSUME NEW m \in net, Serve(m) PROVE Forwards
  BY <1>6 DEF Serve, ServeReserve, ServeCommit, ServeRelease, ServeCreateIntent, Capture,
              FinishCapture, ServeVoid, Answer, Forwards, orderVars, shipmentVars
<1>7. CASE Expire
  BY <1>7 DEF Expire, Forwards, orderVars, shipmentVars
<1>8. CASE TimerStep
  BY <1>8, TimerIs DEF Forwards, orderVars
<1>9. CASE Crash
  BY <1>9 DEF Crash, Forwards
<1>10. CASE UNCHANGED vars
  BY <1>10 DEF vars, orderVars, shipmentVars, Forwards
<1> QED
  BY <1>1, <1>2, <1>3, <1>4, <1>5, <1>6, <1>7, <1>8, <1>9, <1>10
  DEF Next, Step, Begin, TimerStep

(* orderRepository.ts: the conditions of the UPDATEs are enough for an order *)
(* that has failed, is cancelled or shipped never to change again, and for a *)
(* shipment never to go back, however many ticks overlap.                    *)
THEOREM StatusesNeverGoBack == Spec => StatusesMoveForward
<1>1. IInv /\ [Next]_vars => [Forwards]_vars
  BY StepMovesForward
<1>2. [][Forwards]_vars => StatusesMoveForward
  <2>1. [Forwards]_vars =>
          [/\ order = "confirmed" => order' \in {"confirmed", "cancelled", "shipped"}
           /\ order \in {"failed", "cancelled", "shipped"} => order' = order
           /\ \A s \in Ships :
                shipment'[s] # shipment[s] =>
                  <<shipment[s], shipment'[s]>> \in
                    {<<"none", "preparing">>, <<"preparing", "dispatched">>,
                     <<"dispatched", "delivered">>}]_vars
    BY DEF Forwards
  <2> QED
    BY <2>1, PTL DEF StatusesMoveForward
<1> QED
  BY <1>1, <1>2, Invariant, PTL DEF Spec

(* What tells that the customer may be charged, the stock sold, or still    *)
(* held by a reservation nobody released: the step that threw.               *)
ChargeIsExcused == failedAt \cap {"capture", "commit", "markConfirmed"} # {}
SaleIsExcused == failedAt \cap {"commit", "markConfirmed"} # {}
HoldIsExcused == failedAt \cap {"reserve", "release"} # {}

Requested(op) == \E m \in net : m.op = op /\ m.is = "request"

(* Before a step of the try block nothing of the later ones is done.        *)
NothingIsAhead ==
  /\ at = "new" => reservation = "absent" /\ failedAt = {}
  /\ at \in {"new", "reserve", "markReserved", "createIntent", "attachIntent"} => ~charged
  /\ at \in {"new"} \cup (Forward \ {"commit", "markConfirmed"}) => reservation # "committed"
  /\ at \in Forward \ {"reserve"} => "reservation" \in handler[Placer].known

(* On the way back, whatever is charged, sold or held, and whatever a       *)
(* request that was given up may still do, is told by the step that threw.  *)
WhatRemainsIsExcused ==
  at \in Backward =>
    /\ charged \/ Requested("capture") => ChargeIsExcused
    /\ reservation = "committed" \/ Requested("commit") => SaleIsExcused
    /\ Requested("reserve") => "reserve" \in failedAt
    /\ at # "release" /\ reservation = "pending" => HoldIsExcused
    /\ at = "release" /\ Message(Placer, "ok") \in net /\ reservation = "pending"
         => "reserve" \in failedAt

(* How the placement ended tells the status of the order. *)
EndsAreRight ==
  /\ at = "succeeded" => order \in WasConfirmed
  /\ at = "refused" => order = "none"
  /\ at = "failed" /\ order \in {"pending", "reserved"} =>
       failedAt = {} \/ "markFailed" \in failedAt
  /\ order = "failed" => at = "failed"

UndoInv == NothingIsAhead /\ WhatRemainsIsExcused /\ EndsAreRight

-------------------------------------------------------------------------------
(* A failed order is undone, up to what the step that threw excuses.         *)

LEMMA NothingIsToUndo == Init => UndoInv
<1> SUFFICES ASSUME Init PROVE UndoInv
  OBVIOUS
<1>1. at = "new"
  BY DEF Init, at, Handlers
<1>2. /\ order = "none" /\ failedAt = {} /\ net = {}
      /\ reservation = "absent" /\ charged = FALSE
  BY DEF Init
<1> QED
  BY <1>1, <1>2 DEF UndoInv, NothingIsAhead, WhatRemainsIsExcused, EndsAreRight, Forward, Backward

(* The placement stays where it is, and of what it asked for nothing is done *)
(* that was not requested.                                                   *)
OnlyWhatIsRequested ==
  /\ handler'[Placer].at = handler[Placer].at /\ handler'[Placer].known = handler[Placer].known
  /\ failedAt' = failedAt
  /\ order' = order \/ {order, order'} \subseteq WasConfirmed
  /\ \A m \in net' : m.is = "request" => m \in net \/ m.op \in {"release", "void"} \/ m.op = at
  /\ charged' => charged \/ Requested("capture")
  /\ reservation' = "committed" => reservation = "committed" \/ Requested("commit")
  /\ reservation' = "pending" => reservation = "pending" \/ Requested("reserve")
  /\ at = "new" => reservation' = reservation
  /\ at = "release" /\ reservation' = "pending" =>
       \A m \in net' : m.by = Placer /\ m.op = "release" /\ m.is = "ok"
                         => m \in net \/ Requested("reserve")

(* While the placement goes forward only its own call is requested. *)
LEMMA RequestsGoForward ==
  ASSUME IInv, at \in Forward \cup {"new"}, NEW op, Requested(op)
  PROVE  op = at
BY DEF Requested, IInv, Right, MessagesAreRight

LEMMA UndoStays ==
  ASSUME IInv, UndoInv, OnlyWhatIsRequested
  PROVE  UndoInv'
<1>1. at' = at
  BY DEF OnlyWhatIsRequested, at
<1>2. NothingIsAhead'
  <2>1. CASE at = "new"
    <3>1. ~Requested("capture")
      BY <2>1, RequestsGoForward
    <3> QED
      BY <1>1, <2>1, <3>1 DEF OnlyWhatIsRequested, UndoInv, NothingIsAhead, Forward
  <2>2. CASE at \in Forward
    <3>1. Requested("capture") => at = "capture"
      BY <2>2, RequestsGoForward
    <3>2. Requested("commit") => at = "commit"
      BY <2>2, RequestsGoForward
    <3> QED
      BY <1>1, <2>2, <3>1, <3>2 DEF OnlyWhatIsRequested, UndoInv, NothingIsAhead, Forward
  <2>3. CASE at \notin Forward \cup {"new"}
    BY <1>1, <2>3 DEF NothingIsAhead, Forward
  <2> QED
    BY <2>1, <2>2, <2>3
<1>3. WhatRemainsIsExcused'
  <2> SUFFICES ASSUME at \in Backward
               PROVE  WhatRemainsIsExcused'
    BY <1>1 DEF WhatRemainsIsExcused
  <2>1. /\ charged \/ Requested("capture") => ChargeIsExcused
        /\ reservation = "committed" \/ Requested("commit") => SaleIsExcused
        /\ Requested("reserve") => "reserve" \in failedAt
        /\ at # "release" /\ reservation = "pending" => HoldIsExcused
        /\ at = "release" /\ Message(Placer, "ok") \in net /\ reservation = "pending"
             => "reserve" \in failedAt
    BY DEF UndoInv, WhatRemainsIsExcused
  <2>2. ASSUME NEW op \in {"capture", "commit", "reserve"}, Requested(op)'
        PROVE  Requested(op)
    <3>1. PICK m \in net' : m.op = op /\ m.is = "request"
      BY <2>2 DEF Requested
    <3>2. m.op # at /\ m.op \notin {"release", "void"}
      BY <3>1 DEF Backward
    <3>3. m \in net
      BY <3>1, <3>2 DEF OnlyWhatIsRequested
    <3> QED
      BY <3>1, <3>3 DEF Requested
  <2>3. /\ ChargeIsExcused' <=> ChargeIsExcused
        /\ SaleIsExcused' <=> SaleIsExcused
        /\ HoldIsExcused' <=> HoldIsExcused
        /\ failedAt' = failedAt
    BY DEF OnlyWhatIsRequested, ChargeIsExcused, SaleIsExcused, HoldIsExcused
  <2>4. "reserve" \in failedAt => HoldIsExcused
    BY DEF HoldIsExcused
  <2>5. charged' \/ Requested("capture")' => ChargeIsExcused'
    BY <2>1, <2>2, <2>3 DEF OnlyWhatIsRequested
  <2>6. reservation' = "committed" \/ Requested("commit")' => SaleIsExcused'
    BY <2>1, <2>2, <2>3 DEF OnlyWhatIsRequested
  <2>7. Requested("reserve")' => "reserve" \in failedAt'
    BY <2>1, <2>2, <2>3
  <2>8. at # "release" /\ reservation' = "pending" => HoldIsExcused'
    BY <2>1, <2>3, <2>4 DEF OnlyWhatIsRequested
  <2>9. ASSUME at = "release", Message(Placer, "ok")' \in net', reservation' = "pending"
        PROVE  "reserve" \in failedAt'
    <3> DEFINE r == [by |-> Placer, op |-> "release", is |-> "ok"]
    <3>1. Message(Placer, "ok") = r /\ Message(Placer, "ok")' = r
      BY <1>1, <2>9 DEF Message, at
    <3>2. r \in net' /\ r.by = Placer /\ r.op = "release" /\ r.is = "ok"
      BY <2>9, <3>1
    <3> HIDE DEF r
    <3>3. r \in net \/ Requested("reserve")
      BY <2>9, <3>2 DEF OnlyWhatIsRequested
    <3>4. reservation = "pending" \/ Requested("reserve")
      BY <2>9 DEF OnlyWhatIsRequested
    <3> QED
      BY <2>1, <2>3, <2>9, <3>1, <3>3, <3>4
  <2> QED
    BY <1>1, <2>5, <2>6, <2>7, <2>8, <2>9 DEF WhatRemainsIsExcused
<1>4. EndsAreRight'
  BY <1>1 DEF OnlyWhatIsRequested, UndoInv, EndsAreRight, WasConfirmed
<1> QED
  BY <1>2, <1>3, <1>4 DEF UndoInv

(* A step of the placement that throws is remembered; the way back starts at *)
(* the reservation as soon as the placement knows of it.                     *)
LEMMA WhereThrowsLead ==
  ASSUME IInv, UndoInv, at \in (Forward \cup Backward) \ {"failed"}
  PROVE  /\ AfterError(Placer) \in Backward
         /\ at = "reserve" => AfterError(Placer) # "failed"
         /\ at \in Forward \ {"reserve"} => AfterError(Placer) = "release"
         /\ at \in {"release", "void"} => AfterError(Placer) = "markFailed"
         /\ at = "markFailed" => AfterError(Placer) = "failed"
<1>1. /\ at = "markFailed" => AfterError(Placer) = "failed"
      /\ at \in {"release", "void"} => AfterError(Placer) = "markFailed"
      /\ at \in Forward => AfterError(Placer) = Undoing(Placer)
  BY DEF AfterError, at, Forward
<1>2. Undoing(Placer) \in {"release", "void", "markFailed"}
  BY DEF Undoing, Voiding, LastMark
<1>3. at \in Forward \ {"reserve"} => Undoing(Placer) = "release"
  BY DEF Undoing, UndoInv, NothingIsAhead
<1> QED
  BY <1>1, <1>2, <1>3 DEF Forward, Backward

LEMMA ThrowsAreExcused ==
  ASSUME IInv, UndoInv, Throws(Placer), handler[Placer].at \in Calls \cup Marks,
         net' \subseteq net, UNCHANGED remoteVars,
         order' = order \/ (at \in Marks /\ order' = To[at])
  PROVE  UndoInv'
<1>1. at \in (Forward \cup Backward) \ {"failed"} /\ at # "new"
  BY DEF IInv, Right, HandlersAreRight, at, Calls, Marks
<1>2. /\ at' = AfterError(Placer)
      /\ failedAt' = failedAt \cup {at}
      /\ reservation' = reservation /\ charged' = charged
  BY Known, GotoIsTyped, AfterErrorIs DEF Throws, Went, at, remoteVars
<1>3. /\ at' \in Backward /\ at' # "new" /\ at' \notin Forward
      /\ at = "reserve" => at' # "failed"
      /\ at \in Forward \ {"reserve"} => at' = "release"
      /\ at \in {"release", "void"} => at' = "markFailed"
      /\ at = "markFailed" => at' = "failed"
  BY <1>1, <1>2, WhereThrowsLead DEF Backward, Forward
<1>4. /\ ChargeIsExcused' <=> ChargeIsExcused \/ at \in {"capture", "commit", "markConfirmed"}
      /\ SaleIsExcused' <=> SaleIsExcused \/ at \in {"commit", "markConfirmed"}
      /\ HoldIsExcused' <=> HoldIsExcused \/ at \in {"reserve", "release"}
      /\ "reserve" \in failedAt' <=> "reserve" \in failedAt \/ at = "reserve"
  BY <1>2 DEF ChargeIsExcused, SaleIsExcused, HoldIsExcused
<1>5. /\ Requested("capture")' => Requested("capture")
      /\ Requested("commit")' => Requested("commit")
      /\ Requested("reserve")' => Requested("reserve")
  BY DEF Requested
<1>6. NothingIsAhead'
  BY <1>3 DEF NothingIsAhead, Forward
<1>7. WhatRemainsIsExcused'
  <2>1. CASE at \in Forward
    <3>1. /\ Requested("capture") => at = "capture"
          /\ Requested("commit") => at = "commit"
          /\ Requested("reserve") => at = "reserve"
      BY <2>1, RequestsGoForward
    <3>2. /\ charged => at \in {"capture", "commit", "markConfirmed"}
          /\ reservation = "committed" => at \in {"commit", "markConfirmed"}
      BY <2>1 DEF UndoInv, NothingIsAhead, Forward
    <3>3. at' = "release" => Message(Placer, "ok")' \notin net'
      <4>1. at' = "release" => Message(Placer, "ok")'.op = "release"
        BY DEF Message, at
      <4>2. \A m \in net' : m.op = at
        BY <2>1 DEF IInv, Right, MessagesAreRight
      <4> QED
        BY <2>1, <4>1, <4>2 DEF Forward
    <3> QED
      BY <1>2, <1>3, <1>4, <1>5, <2>1, <3>1, <3>2, <3>3 DEF WhatRemainsIsExcused
  <2>2. CASE at \in Backward
    <3>1. /\ charged \/ Requested("capture") => ChargeIsExcused
          /\ reservation = "committed" \/ Requested("commit") => SaleIsExcused
          /\ Requested("reserve") => "reserve" \in failedAt
          /\ at # "release" /\ reservation = "pending" => HoldIsExcused
      BY <2>2 DEF UndoInv, WhatRemainsIsExcused
    <3>2. at' # "release"
      BY <1>1, <1>3, <2>2 DEF Backward
    <3> QED
      BY <1>2, <1>4, <1>5, <3>1, <3>2 DEF WhatRemainsIsExcused
  <2> QED
    BY <1>1, <2>1, <2>2
<1>8. EndsAreRight'
  <2>1. at' = "failed" => at = "markFailed" /\ "markFailed" \in failedAt'
    BY <1>1, <1>2, <1>3 DEF Forward, Backward
  <2>2. order' = "failed" => at' = "failed"
    <3>1. order # "failed"
      BY <1>1 DEF UndoInv, EndsAreRight
    <3>2. order' = "failed" => at = "markFailed"
      BY <3>1, Tables, <1>1 DEF Marks, Forward, Backward
    <3> QED
      BY <1>3, <3>2
  <2> QED
    BY <1>3, <2>1, <2>2 DEF EndsAreRight, Backward
<1> QED
  BY <1>6, <1>7, <1>8 DEF UndoInv

(* The placement marks the order, or begins. *)
LEMMA MarksAreExcused ==
  ASSUME IInv, UndoInv, Writes(Placer), Goto(Placer, After(Placer)), failedAt' = failedAt
  PROVE  UndoInv'
<1>1. /\ at \in {"markReserved", "attachIntent", "markConfirmed", "markFailed"}
      /\ at # "markFailed" => net = {}
  BY PlacementAtMark DEF Writes
<1>2. /\ at' = After(Placer) /\ handler'[Placer].known = handler[Placer].known
      /\ net' = net /\ order' = To[at]
      /\ reservation' = reservation /\ charged' = charged
  BY <1>1, Known, GotoIsTyped, AfterIs DEF Writes, Went, Update, at, Marks, remoteVars
<1>3. /\ at = "markReserved" => at' = "createIntent" /\ order' = "reserved"
      /\ at = "attachIntent" => at' = "capture" /\ order' = "reserved"
      /\ at = "markConfirmed" => at' = "succeeded" /\ order' = "confirmed"
      /\ at = "markFailed" => at' = "failed" /\ order' = "failed"
  BY <1>1, <1>2, Known, AfterIs, Tables DEF at, Marks
<1>4. NothingIsAhead'
  BY <1>1, <1>2, <1>3 DEF UndoInv, NothingIsAhead, Forward
<1>5. EndsAreRight'
  BY <1>1, <1>3 DEF EndsAreRight, WasConfirmed
<1>6. WhatRemainsIsExcused'
  <2>1. CASE at = "markFailed"
    <3>1. at \in Backward /\ at # "release" /\ at' # "release"
      BY <1>3, <2>1 DEF Backward
    <3>2. /\ ChargeIsExcused' <=> ChargeIsExcused
          /\ SaleIsExcused' <=> SaleIsExcused
          /\ HoldIsExcused' <=> HoldIsExcused
      BY DEF ChargeIsExcused, SaleIsExcused, HoldIsExcused
    <3>3. /\ Requested("capture")' <=> Requested("capture")
          /\ Requested("commit")' <=> Requested("commit")
          /\ Requested("reserve")' <=> Requested("reserve")
      BY <1>2 DEF Requested
    <3> QED
      BY <1>2, <3>1, <3>2, <3>3 DEF UndoInv, WhatRemainsIsExcused
  <2>2. CASE at # "markFailed"
    BY <1>1, <1>3, <2>2 DEF WhatRemainsIsExcused, Backward
  <2> QED
    BY <2>1, <2>2
<1> QED
  BY <1>4, <1>5, <1>6 DEF UndoInv

LEMMA BeginningIsExcused ==
  ASSUME IInv, UndoInv, Refuse \/ CreatePending \/ CreatePendingThrows
  PROVE  UndoInv'
<1>1. PICK s \in {"refused", "reserve", "failed"} :
        Goto(Placer, s) /\ (s = "refused" => order' = order)
                        /\ (s # "refused" => order' = "pending")
  BY DEF Refuse, CreatePending, CreatePendingThrows, orderVars
<1>2. at' = s
  BY <1>1, Known, GotoIsTyped DEF Steps, Calls, Ends, Went, at
<1>3. /\ at = "new" /\ order = "none"
      /\ UNCHANGED <<failedAt, net, remoteVars>>
  BY DEF Refuse, CreatePending, CreatePendingThrows, At, at, IInv, Right, StagesAreRight
<1>4. net' = {} /\ ~charged' /\ reservation' = "absent" /\ failedAt' = {}
  BY <1>3 DEF Refuse, CreatePending, CreatePendingThrows, At, at, IInv, Right, MessagesAreRight,
              UndoInv, NothingIsAhead, remoteVars
<1>5. NothingIsAhead' /\ EndsAreRight'
  BY <1>1, <1>2, <1>3, <1>4 DEF NothingIsAhead, EndsAreRight, Forward
<1>6. WhatRemainsIsExcused'
  BY <1>4 DEF WhatRemainsIsExcused, Requested
<1> QED
  BY <1>5, <1>6 DEF UndoInv

(* The answer of a call of the placement: the next step, and what it learns. *)
LEMMA AnswersAreExcused ==
  ASSUME IInv, UndoInv, Receive(Placer)
  PROVE  UndoInv'
<1> DEFINE r == Message(Placer, "ok")
<1> DEFINE learnt == handler[Placer].known \cup Learns[handler[Placer].at]
<1> DEFINE d == [at |-> After(Placer), waiting |-> FALSE, known |-> learnt]
<1>1. /\ at \in Calls /\ r \in net /\ net' = net \ {r}
      /\ order' = order /\ failedAt' = failedAt
      /\ reservation' = reservation /\ charged' = charged
  BY Known DEF Receive, IInv, Right, HandlersAreRight, at, orderVars, remoteVars
<1>2. handler' = [handler EXCEPT ![Placer] = d]
  BY DEF Receive
<1>3. d.at = After(Placer) /\ d.known = learnt
  OBVIOUS
<1> HIDE DEF d
<1>4. at' = After(Placer) /\ handler'[Placer].known = learnt
  BY <1>2, <1>3, Known DEF at
<1>5. at = "reserve" => "reservation" \in Learns[at]
  BY DEF Learns, Calls
<1>6. at \in (Forward \cup Backward) /\ at # "failed" /\ at \notin Marks
  BY <1>1 DEF IInv, Right, HandlersAreRight, Calls, Marks
<1>7. CASE at \in Forward
  <2>1. /\ at = "reserve" => at' = "markReserved"
        /\ at = "createIntent" => at' = "attachIntent"
        /\ at = "capture" => at' = "commit"
        /\ at = "commit" => at' = "markConfirmed"
        /\ at \in {"reserve", "createIntent", "capture", "commit"}
    BY <1>1, <1>4, <1>7, Known, AfterIs DEF at, Forward, Calls
  <2>2. "reservation" \in handler'[Placer].known
    BY <1>4, <1>5, <1>7 DEF UndoInv, NothingIsAhead, at
  <2>3. NothingIsAhead'
    BY <1>1, <2>1, <2>2 DEF UndoInv, NothingIsAhead, Forward
  <2>4. WhatRemainsIsExcused'
    BY <2>1 DEF WhatRemainsIsExcused, Backward
  <2>5. EndsAreRight'
    BY <1>1, <2>1 DEF UndoInv, EndsAreRight
  <2> QED
    BY <2>3, <2>4, <2>5 DEF UndoInv
<1>8. CASE at \in Backward
  <2>1. at \in {"release", "void"} /\ at' \in {"void", "markFailed"}
    BY <1>1, <1>4, <1>6, <1>8, Known, AfterIs DEF at, Backward, Calls, LastMark
  <2>2. /\ charged \/ Requested("capture") => ChargeIsExcused
        /\ reservation = "committed" \/ Requested("commit") => SaleIsExcused
        /\ Requested("reserve") => "reserve" \in failedAt
        /\ at # "release" /\ reservation = "pending" => HoldIsExcused
        /\ at = "release" /\ reservation = "pending" => "reserve" \in failedAt
    BY <1>1, <1>8 DEF UndoInv, WhatRemainsIsExcused
  <2>3. /\ ChargeIsExcused' <=> ChargeIsExcused
        /\ SaleIsExcused' <=> SaleIsExcused
        /\ HoldIsExcused' <=> HoldIsExcused
        /\ "reserve" \in failedAt => HoldIsExcused
    BY <1>1 DEF ChargeIsExcused, SaleIsExcused, HoldIsExcused
  <2>4. /\ Requested("capture")' => Requested("capture")
        /\ Requested("commit")' => Requested("commit")
        /\ Requested("reserve")' => Requested("reserve")
    BY <1>1 DEF Requested
  <2>5. at' # "release"
    BY <2>1
  <2>6. WhatRemainsIsExcused'
    BY <1>1, <2>2, <2>3, <2>4, <2>5 DEF WhatRemainsIsExcused
  <2>7. NothingIsAhead' /\ EndsAreRight'
    BY <1>1, <2>1 DEF NothingIsAhead, UndoInv, EndsAreRight, Forward
  <2> QED
    BY <2>6, <2>7 DEF UndoInv
<1> QED
  BY <1>6, <1>7, <1>8

(* What everyone but the placement does, and what it sends, is only what was *)
(* requested.                                                                *)
LEMMA SendsOnlyRequests ==
  ASSUME IInv, NEW h \in Handlers, Send(h)
  PROVE  OnlyWhatIsRequested
<1> DEFINE r == Message(h, "request")
<1>1. /\ handler'[h].at = handler[h].at
      /\ \A g \in Handlers \ {h} : handler'[g] = handler[g]
  BY Known, SendIsTyped
<1>2. handler'[Placer].known = handler[Placer].known
  <2> DEFINE d == [handler[h] EXCEPT !.waiting = TRUE]
  <2>1. d.known = handler[h].known
    BY Known DEF HandlerState
  <2>2. handler' = [handler EXCEPT ![h] = d]
    BY DEF Send
  <2> HIDE DEF d
  <2> QED
    BY <2>1, <2>2, Known
<1>3. /\ net' = net \cup {r} /\ r.by = h /\ r.op = handler[h].at /\ r.is = "request"
      /\ handler[h].at \in Calls
      /\ UNCHANGED <<order, failedAt, reservation, charged>>
  BY DEF Send, Message, orderVars, remoteVars
<1> HIDE DEF r
<1>4. h # Placer => handler[h].at \in {"release", "void"}
  BY <1>3, Known DEF IInv, Right, HandlersAreRight, Calls
<1>5. \A m \in net' : m.is = "request" => m \in net \/ m.op \in {"release", "void"} \/ m.op = at
  BY <1>3, <1>4 DEF at
<1>6. handler'[Placer].at = handler[Placer].at
  BY <1>1, Known
<1> QED
  BY <1>2, <1>3, <1>5, <1>6 DEF OnlyWhatIsRequested

(* Another request than the placement goes on. *)
LEMMA OthersUndoNothing ==
  ASSUME IInv, NEW h \in Handlers, h # Placer, Step(h) \/ Begin(h)
  PROVE  OnlyWhatIsRequested
<1>1. CASE Send(h)
  BY <1>1, SendsOnlyRequests
<1>2. CASE ~Send(h)
  <2>1. handler'[Placer] = handler[Placer]
    BY <1>2, Known DEF Step, Begin, Mark, MarkThrows, Throws, Receive, ReceiveRefusal, CallThrows,
                       BeginCancel, RefuseToCancel, Ship, RefuseToShip, Goto
  <2>2. failedAt' = failedAt /\ net' \subseteq net
        /\ reservation' = reservation /\ charged' = charged
    BY <1>2 DEF Step, Begin, Mark, MarkThrows, Throws, Receive, ReceiveRefusal, CallThrows,
                BeginCancel, RefuseToCancel, Ship, RefuseToShip, remoteVars
  <2>3. order' = order \/ {order, order'} \subseteq WasConfirmed
    <3>1. CASE Mark(h) \/ MarkThrows(h)
      <4>1. handler[h].at = "markCancelled"
        BY <3>1, Known DEF Mark, MarkThrows, AtMark, IInv, Right, HandlersAreRight, Marks
      <4>2. order' = order \/ (order = "confirmed" /\ order' = "cancelled")
        BY <3>1, <4>1, Tables DEF Mark, MarkThrows, Allowed, Update
      <4> QED
        BY <4>2 DEF WasConfirmed
    <3>2. CASE Ship(h)
      BY <3>2 DEF Ship, WasConfirmed
    <3>3. CASE ~(Mark(h) \/ MarkThrows(h) \/ Ship(h))
      BY <1>2, <3>3 DEF Step, Begin, Receive, ReceiveRefusal, CallThrows, BeginCancel,
                        RefuseToCancel, RefuseToShip, orderVars
    <3> QED
      BY <3>1, <3>2, <3>3
  <2> QED
    BY <2>1, <2>2, <2>3 DEF OnlyWhatIsRequested
<1> QED
  BY <1>1, <1>2

LEMMA PlacementIsExcused ==
  ASSUME IInv, UndoInv, Step(Placer) \/ Begin(Placer)
  PROVE  UndoInv'
<1>1. CASE Mark(Placer)
  <2>1. handler[Placer].at \in Marks
    BY <1>1 DEF Mark, AtMark
  <2>2. CASE /\ Allowed(handler[Placer].at) /\ Update(handler[Placer].at)
             /\ Goto(Placer, After(Placer)) /\ lock' = Unlocked(Placer) /\ UNCHANGED failedAt
    BY <1>1, <2>1, <2>2, Known, MarksAreExcused DEF Mark, Writes
  <2>3. CASE Throws(Placer) /\ UNCHANGED <<order, refs>>
    BY <1>1, <2>1, <2>3, ThrowsAreExcused DEF Mark
  <2> QED
    BY <1>1, <2>2, <2>3 DEF Mark
<1>2. CASE MarkThrows(Placer)
  BY <1>2, ThrowsAreExcused DEF MarkThrows, AtMark, Update, at
<1>3. CASE Send(Placer)
  BY <1>3, Known, SendsOnlyRequests, UndoStays
<1>4. CASE Receive(Placer)
  BY <1>4, AnswersAreExcused
<1>5. CASE ReceiveRefusal(Placer) \/ CallThrows(Placer)
  <2>1. handler[Placer].at \in Calls
    BY <1>5, Known DEF ReceiveRefusal, CallThrows, IInv, Right, HandlersAreRight
  <2>2. Throws(Placer) /\ net' \subseteq net /\ UNCHANGED remoteVars /\ order' = order
    BY <1>5 DEF ReceiveRefusal, CallThrows
  <2> QED
    BY <2>1, <2>2, ThrowsAreExcused
<1>6. ~Begin(Placer)
  BY Known DEF Begin, BeginCancel, RefuseToCancel, Ship, RefuseToShip
<1> QED
  BY <1>1, <1>2, <1>3, <1>4, <1>5, <1>6 DEF Step

(* The other services do what they are asked, once for each request.        *)
LEMMA ServicesUndoNothing ==
  ASSUME IInv, NEW m \in net, Serve(m)
  PROVE  OnlyWhatIsRequested
<1>1. PICK is \in {"charged", "declined", "ok", "refused"} :
        /\ Answer(m, is)
        /\ m.is = "request" \/ m.op = "capture"
        /\ charged' = charged \/ (m.op = "capture" /\ m.is = "request")
        /\ \/ reservation' = reservation
           \/ m.op = "reserve" /\ m.is = "request" /\ reservation' = "pending"
           \/ m.op = "commit" /\ m.is = "request" /\ reservation' = "committed"
           \/ m.op = "release" /\ reservation' = "released"
        /\ m.op = "release" /\ is = "ok" => reservation' = "released"
  <2>1. CASE FinishCapture(m)
    <3>1. m.op = "capture"
      BY <2>1 DEF FinishCapture, IInv, Right, MessagesAreRight
    <3> QED
      BY <2>1, <3>1 DEF FinishCapture
  <2>2. CASE ServeReserve(m)
    BY <2>2 DEF ServeReserve, Request
  <2>3. CASE ServeCommit(m)
    BY <2>3 DEF ServeCommit, Request
  <2>4. CASE ServeRelease(m)
    BY <2>4 DEF ServeRelease, Request
  <2>5. CASE ServeCreateIntent(m)
    BY <2>5 DEF ServeCreateIntent, Request
  <2>6. CASE Capture(m)
    BY <2>6 DEF Capture, Request
  <2>7. CASE ServeVoid(m)
    BY <2>7 DEF ServeVoid, Request
  <2> QED
    BY <2>1, <2>2, <2>3, <2>4, <2>5, <2>6, <2>7 DEF Serve
<1> DEFINE a == [m EXCEPT !.is = is]
<1>2. m \in Messages /\ a.op = m.op /\ a.is = is
  <2>1. m \in Messages /\ is \in {"request", "charged", "declined", "ok", "refused"}
    BY Known
  <2> QED
    BY <2>1, TableOfMessage
<1>3. /\ net' = (net \ {m}) \cup {a}
      /\ order' = order /\ handler' = handler /\ failedAt' = failedAt
  BY <1>1 DEF Answer, Becomes, orderVars
<1> HIDE DEF a
<1>4. /\ m.op = "capture" /\ m.is = "request" => Requested("capture")
      /\ m.op = "commit" /\ m.is = "request" => Requested("commit")
      /\ m.op = "reserve" /\ m.is = "request" => Requested("reserve")
  BY DEF Requested
<1>5. at # "new"
  <2>1. m.op \in Calls
    BY <1>2 DEF Messages
  <2> QED
    BY <2>1 DEF IInv, Right, MessagesAreRight, Calls
<1>6. \A n \in net' : n \in net \/ (n.op = m.op /\ n.is = is)
  BY <1>2, <1>3
<1>7. reservation' = "pending" =>
        \A n \in net' : n.op = "release" /\ n.is = "ok" => n \in net
  BY <1>1, <1>6
<1>8. \A n \in net' : n.is = "request" => n \in net
  BY <1>1, <1>6
<1> QED
  BY <1>1, <1>3, <1>4, <1>5, <1>7, <1>8 DEF OnlyWhatIsRequested

LEMMA UndoStep ==
  ASSUME IInv, UndoInv, [Next]_vars
  PROVE  UndoInv'
<1>1. CASE Refuse \/ CreatePending \/ CreatePendingThrows
  BY <1>1, BeginningIsExcused
<1>2. ASSUME NEW h \in Handlers, Step(h) \/ Begin(h) PROVE UndoInv'
  BY <1>2, PlacementIsExcused, OthersUndoNothing, UndoStays
<1>3. ASSUME NEW m \in net, Serve(m) PROVE UndoInv'
  BY <1>3, ServicesUndoNothing, UndoStays
<1>4. CASE Expire
  <2>1. at = "new" => FALSE
    BY <1>4 DEF Expire, UndoInv, NothingIsAhead
  <2>2. OnlyWhatIsRequested
    BY <1>4, <2>1 DEF Expire, OnlyWhatIsRequested, orderVars
  <2> QED
    BY <2>2, UndoStays
<1>5. CASE TimerStep
  <2>1. OnlyWhatIsRequested
    BY <1>5, TimerIs DEF OnlyWhatIsRequested, orderVars, remoteVars
  <2> QED
    BY <2>1, UndoStays
<1>6. CASE Crash
  <2>1. /\ handler'[Placer] = IF Active(Placer)
                              THEN [handler[Placer] EXCEPT !.at = "dead", !.waiting = FALSE]
                              ELSE handler[Placer]
        /\ order' = order /\ net' = net /\ failedAt' = failedAt
        /\ reservation' = reservation /\ charged' = charged
    BY <1>6, Known DEF Crash, remoteVars
  <2>2. CASE Active(Placer)
    <3>1. at' = "dead" /\ at \notin {"new", "failed"}
      <4>1. handler[Placer] \in HandlerState
        BY Known
      <4> QED
        BY <2>1, <2>2, <4>1, DyingIsTyped DEF at, Active, Ends
    <3> QED
      BY <2>1, <3>1 DEF UndoInv, NothingIsAhead, WhatRemainsIsExcused, EndsAreRight, Forward, Backward
  <2>3. CASE ~Active(Placer)
    <3>1. OnlyWhatIsRequested
      BY <2>1, <2>3 DEF OnlyWhatIsRequested
    <3> QED
      BY <3>1, UndoStays
  <2> QED
    BY <2>2, <2>3
<1>7. CASE UNCHANGED vars
  <2>1. OnlyWhatIsRequested
    BY <1>7 DEF OnlyWhatIsRequested, vars, orderVars, remoteVars
  <2> QED
    BY <2>1, UndoStays
<1> QED
  BY <1>1, <1>2, <1>3, <1>4, <1>5, <1>6, <1>7 DEF Next, TimerStep

(* docs/architecture.md:40, the compensation of placeOrder.ts: whatever       *)
(* calls fail, answer late or are carried out after they were given up, and   *)
(* whoever dies, a failed order has left no charge, no sale and no hold but   *)
(* those the step that threw accounts for, and no placement that ended        *)
(* leaves its order open unless the marking itself threw.                     *)
THEOREM FailuresAreUndone == Spec => []FailedIsUndone
<1>1. IInv /\ UndoInv => FailedIsUndone
  <2> SUFFICES ASSUME UndoInv PROVE FailedIsUndone
    OBVIOUS
  <2>1. order = "failed" => at \in Backward /\ at # "release"
    BY DEF UndoInv, EndsAreRight, Backward
  <2>2. order \in {"pending", "reserved"} /\ at \in Ends => failedAt = {} \/ "markFailed" \in failedAt
    BY DEF UndoInv, EndsAreRight, Ends, WasConfirmed
  <2> QED
    BY <2>1, <2>2 DEF UndoInv, WhatRemainsIsExcused, FailedIsUndone, at,
                      ChargeIsExcused, SaleIsExcused, HoldIsExcused
<1>2. Init => UndoInv
  BY NothingIsToUndo
<1>3. IInv /\ UndoInv /\ [Next]_vars => UndoInv'
  BY UndoStep
<1> QED
  BY <1>1, <1>2, <1>3, Invariant, PTL DEF Spec
====

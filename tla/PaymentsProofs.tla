------------------------------ MODULE PaymentsProofs ------------------------------
(***************************************************************************)
(* The money of the payments service is accounted for, an order has one    *)
(* intent and a final status is final: for any number of requests, keys,   *)
(* retries and crashes.                                                    *)
(***************************************************************************)
EXTENDS Payments, FiniteSetTheorems, TLAPS

HandlerState ==
  [step : Steps, intent : {0} \cup Intents, key : Keys \cup {NoKey}, ref : {0} \cup Refs,
   no : Nat, tries : 0 .. Retries]

(* A charge the PSP accepted, whose attempt is on record: in charges c and  *)
(* attempts a.                                                              *)
Recorded(r, i, a) == r \in {a[i][n] : n \in DOMAIN a[i]}
Accounted(r, c, a) == c[r].intent \in Intents /\ c[r].ok /\ Recorded(r, c[r].intent, a)

Called == {"number", "record", "decline", "succeed", "post", "await"}
Accepted == {"succeed", "post", "await"}

(* The reference of a capture is its own until the PSP has it, then its     *)
(* charge; and it is recorded before the ledger hears of it.                *)
Sound(run, c, a, n) ==
  /\ run.step = "insert" => run.key \in Keys
  /\ run.step \in Called \cup {"charge"} => run.intent \in Intents /\ run.ref \in Refs
  /\ run.step = "void" => run.intent \in Intents
  /\ run.step = "charge" => c[run.ref].intent = 0 /\ run.ref < n
  /\ run.step \in Called => c[run.ref].intent = run.intent
  /\ run.step \in Accepted => Accounted(run.ref, c, a)

HandlersAreSound ==
  /\ handler \in [Handlers -> HandlerState]
  /\ \A h \in Handlers : Sound(handler[h], charges, attempts, nextRef)
  /\ \A h, g \in Handlers :
       handler[h].step = "charge" /\ handler[g].step = "charge"
       /\ handler[h].ref = handler[g].ref => h = g

RowsAreSound ==
  /\ key \in [Intents -> Keys \cup {NoKey}]
  /\ status \in [Intents -> {"absent", "succeeded", "failed", "voided"} \cup Open]
  /\ nextIntent \in Nat \ {0}
  /\ OneIntentPerKey
  /\ \A i \in Intents : i >= nextIntent => status[i] = "absent"

PspIsSound ==
  /\ charges \in [Refs -> [intent : {0} \cup Intents, ok : BOOLEAN]]
  /\ nextRef \in Nat \ {0}
  /\ \A r \in Refs : r >= nextRef => charges[r].intent = 0

LedgerIsSound ==
  /\ ledger \subseteq Refs /\ posts \subseteq Refs \X (0 .. Retries)
  /\ \A r \in ledger : Accounted(r, charges, attempts)
  /\ \A p \in posts : Accounted(p[1], charges, attempts)

PaidIsAccounted ==
  \A i \in Intents :
    status[i] = "succeeded"
      => \E r \in Refs : Accounted(r, charges, attempts) /\ charges[r].intent = i

HistoryIsTyped ==
  /\ attempts \in [Intents -> Seq(Refs)]
  /\ captured \subseteq Intents /\ disturbed \subseteq Intents /\ crashes \in Nat

IInv ==
  /\ HandlersAreSound /\ RowsAreSound /\ PspIsSound /\ LedgerIsSound /\ PaidIsAccounted
  /\ HistoryIsTyped

-------------------------------------------------------------------------------
LEMMA InitIsSound == Init => IInv
<1> SUFFICES ASSUME Init PROVE IInv
  OBVIOUS
<1>1. /\ Idle \in HandlerState /\ Idle.step = "idle"
      /\ NoCharge \in [intent : {0} \cup Intents, ok : BOOLEAN] /\ NoCharge.intent = 0
  BY PaymentsAssumption DEF Idle, HandlerState, Steps, NoCharge
<1>2. HandlersAreSound
  <2>1. \A h \in Handlers : handler[h] = Idle
    BY DEF Init
  <2>2. Sound(Idle, charges, attempts, nextRef)
    BY <1>1 DEF Sound, Called, Accepted
  <2> QED
    BY <1>1, <2>1, <2>2 DEF Init, HandlersAreSound
<1>3. RowsAreSound
  BY DEF Init, RowsAreSound, OneIntentPerKey, Open
<1>4. PspIsSound
  BY <1>1 DEF Init, PspIsSound
<1>5. LedgerIsSound /\ PaidIsAccounted
  BY DEF Init, LedgerIsSound, PaidIsAccounted
<1>6. HistoryIsTyped
  BY DEF Init, HistoryIsTyped
<1> QED
  BY <1>2, <1>3, <1>4, <1>5, <1>6 DEF IInv

(* Charges are made once and attempts are only added. *)
Grows ==
  /\ \A r \in Refs : charges[r].intent # 0 => charges'[r] = charges[r]
  /\ \A i \in Intents, r \in Refs : Recorded(r, i, attempts) => Recorded(r, i, attempts')

LEMMA AccountedStays ==
  ASSUME Grows, NEW r \in Refs, Accounted(r, charges, attempts)
  PROVE  Accounted(r, charges', attempts') /\ charges'[r] = charges[r]
<1>1. charges[r].intent \in Intents /\ charges[r].intent # 0
  BY DEF Accounted, Intents
<1>2. charges'[r] = charges[r]
  BY <1>1 DEF Grows
<1> QED
  BY <1>1, <1>2 DEF Accounted, Grows

(* One request moves, to a sound state, and does not touch the references   *)
(* the others are about to use.                                             *)
Moves(h, run) ==
  /\ Become(h, run) /\ run \in HandlerState /\ Sound(run, charges', attempts', nextRef')
  /\ Grows /\ nextRef' >= nextRef
  /\ \A g \in Handlers \ {h} :
       handler[g].step = "charge" => /\ charges'[handler[g].ref] = charges[handler[g].ref]
                                     /\ (run.step = "charge" => run.ref # handler[g].ref)

LEMMA OneRequestMoves ==
  ASSUME IInv, NEW h \in Handlers, NEW run, Moves(h, run), PspIsSound'
  PROVE  HandlersAreSound'
<1>1. /\ handler' = [handler EXCEPT ![h] = run] /\ run \in HandlerState
      /\ handler \in [Handlers -> HandlerState]
  BY DEF Moves, Become, IInv, HandlersAreSound
<1>2. handler' \in [Handlers -> HandlerState] /\ handler'[h] = run
      /\ \A g \in Handlers \ {h} : handler'[g] = handler[g]
  BY <1>1
<1>3. \A g \in Handlers : Sound(handler'[g], charges', attempts', nextRef')
  <2> SUFFICES ASSUME NEW g \in Handlers PROVE Sound(handler'[g], charges', attempts', nextRef')
    OBVIOUS
  <2>1. CASE g = h
    BY <1>2, <2>1 DEF Moves
  <2>2. CASE g # h
    <3> DEFINE q == handler[g]
    <3>1. handler'[g] = q /\ Sound(q, charges, attempts, nextRef) /\ q \in HandlerState
      BY <1>2, <2>2 DEF IInv, HandlersAreSound
    <3>2. nextRef \in Nat /\ nextRef' \in Nat /\ nextRef' >= nextRef /\ q.ref \in {0} \cup Refs
      BY <3>1 DEF IInv, PspIsSound, Moves, HandlerState
    <3>3. q.step = "charge" => charges'[q.ref] = charges[q.ref]
      BY <2>2 DEF Moves
    <3>4. q.step \in Called => charges'[q.ref] = charges[q.ref]
      BY <3>1 DEF Sound, Moves, Grows, Intents
    <3>5. q.step \in Accepted => Accounted(q.ref, charges', attempts')
      BY <3>1, AccountedStays DEF Sound, Moves, Called, Accepted
    <3> HIDE DEF q
    <3>6. q.step = "charge" => charges'[q.ref].intent = 0 /\ q.ref < nextRef'
      BY <3>1, <3>2, <3>3 DEF Sound, Refs
    <3>7. q.step \in Called => charges'[q.ref].intent = q.intent
      BY <3>1, <3>4 DEF Sound
    <3> QED
      BY <3>1, <3>5, <3>6, <3>7 DEF Sound
  <2> QED
    BY <2>1, <2>2
<1>4. \A p, g \in Handlers :
        handler'[p].step = "charge" /\ handler'[g].step = "charge"
        /\ handler'[p].ref = handler'[g].ref => p = g
  BY <1>2 DEF Moves, IInv, HandlersAreSound
<1> QED
  BY <1>2, <1>3, <1>4 DEF HandlersAreSound

(* What is accounted for stays so. *)
LEMMA TheRestIsSound ==
  ASSUME IInv, Grows
  PROVE  /\ \A r \in ledger : r \in Refs /\ Accounted(r, charges', attempts')
         /\ \A p \in posts : p[1] \in Refs /\ Accounted(p[1], charges', attempts')
         /\ \A i \in Intents :
              status[i] = "succeeded"
                => \E r \in Refs : Accounted(r, charges', attempts') /\ charges'[r].intent = i
<1>1. ledger \subseteq Refs /\ \A p \in posts : p[1] \in Refs
  BY DEF IInv, LedgerIsSound
<1> QED
  BY <1>1, AccountedStays DEF IInv, LedgerIsSound, PaidIsAccounted

(* A step that leaves the PSP and the attempts alone. *)
LEMMA NothingGrows ==
  ASSUME IInv, UNCHANGED <<charges, attempts>>
  PROVE  Grows
BY DEF Grows

(* A step of a request that leaves the rows, the PSP, the attempts and the  *)
(* ledger as they are.                                                      *)
Quiet(h, run) ==
  /\ Become(h, run) /\ run \in HandlerState /\ Sound(run, charges, attempts, nextRef)
  /\ run.step # "charge"
  /\ UNCHANGED <<intentVars, pspVars, attempts, ledgerVars>>
  /\ captured' \subseteq Intents /\ disturbed' \subseteq Intents /\ crashes' \in Nat

LEMMA UnchangedIsSound ==
  ASSUME IInv, UNCHANGED <<intentVars, pspVars, attempts, ledgerVars>>,
         captured' \subseteq Intents, disturbed' \subseteq Intents, crashes' \in Nat
  PROVE  /\ RowsAreSound' /\ PspIsSound' /\ LedgerIsSound' /\ PaidIsAccounted' /\ HistoryIsTyped'
<1>1. RowsAreSound'
  BY DEF IInv, RowsAreSound, OneIntentPerKey, intentVars
<1>2. PspIsSound'
  BY DEF IInv, PspIsSound, pspVars
<1>3. LedgerIsSound'
  BY DEF IInv, LedgerIsSound, ledgerVars, pspVars
<1>4. PaidIsAccounted'
  BY DEF IInv, PaidIsAccounted, intentVars, pspVars
<1>5. HistoryIsTyped'
  BY DEF IInv, HistoryIsTyped
<1> QED
  BY <1>1, <1>2, <1>3, <1>4, <1>5

LEMMA QuietIsSound ==
  ASSUME IInv, NEW h \in Handlers, NEW run, Quiet(h, run)
  PROVE  IInv'
<1>1. RowsAreSound' /\ PspIsSound' /\ LedgerIsSound' /\ PaidIsAccounted' /\ HistoryIsTyped'
  BY UnchangedIsSound DEF Quiet
<1>2. Grows /\ nextRef' = nextRef /\ nextRef \in Nat
  BY DEF Quiet, Grows, pspVars, IInv, PspIsSound
<1>3. Moves(h, run)
  BY <1>2 DEF Moves, Quiet, pspVars
<1>4. HandlersAreSound'
  BY <1>1, <1>3, OneRequestMoves
<1> QED
  BY <1>1, <1>4 DEF IInv

LEMMA IdleIsSound ==
  ASSUME NEW c, NEW a, NEW n
  PROVE  Idle \in HandlerState /\ Idle.step = "idle" /\ Sound(Idle, c, a, n)
<1>1. Idle \in HandlerState /\ Idle.step = "idle"
  BY PaymentsAssumption DEF Idle, HandlerState, Steps
<1>2. Sound(Idle, c, a, n)
  BY <1>1 DEF Sound, Called, Accepted
<1> QED
  BY <1>1, <1>2

(* What is known of a request. *)
LEMMA RequestIsSound ==
  ASSUME IInv, NEW h \in Handlers
  PROVE  handler[h] \in HandlerState /\ Sound(handler[h], charges, attempts, nextRef)
BY DEF IInv, HandlersAreSound

-------------------------------------------------------------------------------
LEMMA FindByKeyIsSound ==
  ASSUME IInv, NEW h \in Handlers, NEW k \in Keys, FindByKey(h, k)
  PROVE  IInv'
<1> DEFINE d == [Idle EXCEPT !.step = "insert", !.key = k]
<1>1. d \in HandlerState /\ d.step = "insert" /\ d.key = k
  BY IdleIsSound DEF HandlerState, Steps
<1>2. Become(h, d)
  BY DEF FindByKey
<1> HIDE DEF d
<1>3. Sound(d, charges, attempts, nextRef)
  BY <1>1 DEF Sound, Called, Accepted
<1>4. Quiet(h, d)
  BY <1>1, <1>2, <1>3 DEF Quiet, FindByKey, IInv, HistoryIsTyped
<1> QED
  BY <1>4, QuietIsSound

LEMMA BeginVoidIsSound ==
  ASSUME IInv, NEW h \in Handlers, NEW i \in Intents, BeginVoid(h, i)
  PROVE  IInv'
<1> DEFINE d == [Idle EXCEPT !.step = "void", !.intent = i]
<1>1. d \in HandlerState /\ d.step = "void" /\ d.intent = i
  BY IdleIsSound DEF HandlerState, Steps
<1>2. Become(h, d)
  BY DEF BeginVoid
<1> HIDE DEF d
<1>3. Sound(d, charges, attempts, nextRef)
  BY <1>1 DEF Sound, Called, Accepted
<1>4. Quiet(h, d)
  BY <1>1, <1>2, <1>3 DEF Quiet, BeginVoid, Disturb, IInv, HistoryIsTyped
<1> QED
  BY <1>4, QuietIsSound

LEMMA CaptureReplaysIsSound ==
  ASSUME IInv, NEW h \in Handlers, NEW i \in Intents, CaptureReplays(h, i)
  PROVE  IInv'
<1>1. RowsAreSound' /\ PspIsSound' /\ LedgerIsSound' /\ PaidIsAccounted' /\ HistoryIsTyped'
  BY UnchangedIsSound DEF CaptureReplays, IInv, HistoryIsTyped
<1>2. HandlersAreSound'
  BY DEF CaptureReplays, IInv, HandlersAreSound, pspVars
<1> QED
  BY <1>1, <1>2 DEF IInv

LEMMA EndIsSound ==
  ASSUME IInv, NEW h \in Handlers, InsertFails(h) \/ RecordAttemptFails(h)
  PROVE  IInv'
<1>1. Quiet(h, Idle)
  BY IdleIsSound DEF Quiet, InsertFails, RecordAttemptFails, End, IInv, HistoryIsTyped
<1> QED
  BY <1>1, QuietIsSound

LEMMA NumberAttemptIsSound ==
  ASSUME IInv, NEW h \in Handlers, NumberAttempt(h)
  PROVE  IInv'
<1> DEFINE c == handler[h]
<1> DEFINE d == [c EXCEPT !.step = "record", !.no = Len(attempts[c.intent]) + 1]
<1>1. c \in HandlerState /\ c.step = "number" /\ Sound(c, charges, attempts, nextRef)
  BY RequestIsSound DEF NumberAttempt, At
<1>2. c.intent \in Intents /\ c.ref \in Refs /\ charges[c.ref].intent = c.intent
  BY <1>1 DEF Sound, Called
<1>3. Len(attempts[c.intent]) + 1 \in Nat
  <2>1. attempts[c.intent] \in Seq(Refs)
    BY <1>2 DEF IInv, HistoryIsTyped
  <2> QED
    BY <2>1
<1>4. d \in HandlerState /\ d.step = "record" /\ d.intent = c.intent /\ d.ref = c.ref
  BY <1>1, <1>3 DEF HandlerState, Steps
<1>5. Become(h, d)
  BY DEF NumberAttempt
<1> HIDE DEF d, c
<1>6. Sound(d, charges, attempts, nextRef)
  BY <1>2, <1>4 DEF Sound, Called, Accepted
<1>7. Quiet(h, d)
  BY <1>4, <1>5, <1>6 DEF Quiet, NumberAttempt, IInv, HistoryIsTyped
<1> QED
  BY <1>7, QuietIsSound

-------------------------------------------------------------------------------
LEMMA InsertIsSound ==
  ASSUME IInv, NEW h \in Handlers, Insert(h)
  PROVE  IInv'
<1>1. /\ Become(h, Idle) /\ UNCHANGED <<pspVars, attempts, ledgerVars, captured, disturbed, crashes>>
      /\ handler[h].key \in Keys /\ nextIntent \in Intents
  BY RequestIsSound DEF Insert, At, End, Sound
<1>2. Grows /\ charges' = charges /\ nextRef' = nextRef /\ nextRef \in Nat /\ PspIsSound'
  BY <1>1 DEF Grows, pspVars, IInv, PspIsSound
<1>3. HandlersAreSound'
  <2>1. Moves(h, Idle)
    BY <1>1, <1>2, IdleIsSound DEF Moves
  <2> QED
    BY <1>2, <2>1, OneRequestMoves
<1>4. RowsAreSound'
  <2>1. /\ key' \in [Intents -> Keys \cup {NoKey}]
        /\ status' \in [Intents -> {"absent", "succeeded", "failed", "voided"} \cup Open]
        /\ nextIntent' \in Nat \ {0} /\ nextIntent' = nextIntent + 1
    BY <1>1 DEF IInv, RowsAreSound, Insert, Open
  <2>2. OneIntentPerKey'
    BY <1>1 DEF IInv, RowsAreSound, OneIntentPerKey, Insert
  <2>3. \A i \in Intents : i >= nextIntent' => status'[i] = "absent"
    BY <1>1, <2>1 DEF IInv, RowsAreSound, Insert, Intents
  <2> QED
    BY <2>1, <2>2, <2>3 DEF RowsAreSound
<1>5. PaidIsAccounted'
  <2> SUFFICES ASSUME NEW i \in Intents, status'[i] = "succeeded"
               PROVE \E r \in Refs : Accounted(r, charges', attempts') /\ charges'[r].intent = i
    BY DEF PaidIsAccounted
  <2>1. status[i] = "succeeded"
    BY DEF Insert, IInv, RowsAreSound
  <2> QED
    BY <1>2, <2>1, TheRestIsSound
<1>6. LedgerIsSound'
  BY <1>1 DEF IInv, LedgerIsSound, ledgerVars, pspVars
<1>7. HistoryIsTyped'
  BY <1>1 DEF IInv, HistoryIsTyped
<1> QED
  BY <1>2, <1>3, <1>4, <1>5, <1>6, <1>7 DEF IInv

(* A step of a capture that concerns the PSP and the attempts only. *)
Rest(h) ==
  /\ UNCHANGED <<intentVars, ledgerVars, crashes>>
  /\ captured' \subseteq Intents /\ disturbed' \subseteq Intents
  /\ attempts' \in [Intents -> Seq(Refs)]

LEMMA CaptureIsSound ==
  ASSUME IInv, NEW h \in Handlers, NEW run, Moves(h, run), Rest(h), PspIsSound'
  PROVE  IInv'
<1>1. HandlersAreSound'
  BY OneRequestMoves
<1>2. RowsAreSound'
  BY DEF IInv, Rest, RowsAreSound, OneIntentPerKey, intentVars
<1>3. LedgerIsSound'
  BY TheRestIsSound DEF IInv, Rest, Moves, LedgerIsSound, ledgerVars
<1>4. PaidIsAccounted'
  BY TheRestIsSound DEF Rest, Moves, PaidIsAccounted, intentVars
<1>5. HistoryIsTyped'
  BY DEF IInv, Rest, HistoryIsTyped
<1> QED
  BY <1>1, <1>2, <1>3, <1>4, <1>5 DEF IInv

LEMMA BeginCaptureIsSound ==
  ASSUME IInv, NEW h \in Handlers, NEW i \in Intents, BeginCapture(h, i)
  PROVE  IInv'
<1> DEFINE d == [Idle EXCEPT !.step = "charge", !.intent = i, !.ref = nextRef]
<1>1. nextRef \in Refs /\ nextRef' = nextRef + 1 /\ UNCHANGED <<charges, attempts>>
      /\ charges[nextRef].intent = 0 /\ nextRef \in Nat /\ nextRef # 0
  BY DEF BeginCapture, IInv, PspIsSound, Refs
<1>2. d \in HandlerState /\ d.step = "charge" /\ d.intent = i /\ d.ref = nextRef
  BY <1>1, IdleIsSound DEF HandlerState, Steps
<1>3. Become(h, d)
  BY DEF BeginCapture
<1> HIDE DEF d
<1>4. PspIsSound'
  BY <1>1 DEF IInv, PspIsSound, Refs
<1>5. Sound(d, charges', attempts', nextRef')
  BY <1>1, <1>2 DEF Sound, Called, Accepted
<1>6. \A g \in Handlers \ {h} :
        handler[g].step = "charge" => /\ charges'[handler[g].ref] = charges[handler[g].ref]
                                      /\ d.ref # handler[g].ref
  <2> SUFFICES ASSUME NEW g \in Handlers, handler[g].step = "charge"
               PROVE d.ref # handler[g].ref
    BY <1>1
  <2>1. handler[g].ref < nextRef /\ handler[g].ref \in Refs
    BY RequestIsSound DEF Sound
  <2> QED
    BY <1>1, <1>2, <2>1 DEF Refs
<1>7. Moves(h, d)
  BY <1>1, <1>2, <1>3, <1>5, <1>6, NothingGrows DEF Moves
<1>8. Rest(h)
  BY DEF Rest, BeginCapture, Disturb, IInv, HistoryIsTyped
<1> QED
  BY <1>4, <1>7, <1>8, CaptureIsSound

LEMMA ChargeIsSound ==
  ASSUME IInv, NEW h \in Handlers, Charge(h)
  PROVE  IInv'
<1> DEFINE c == handler[h]
<1> DEFINE d == [c EXCEPT !.step = "number"]
<1>1. c \in HandlerState /\ c.step = "charge" /\ Sound(c, charges, attempts, nextRef)
  BY RequestIsSound DEF Charge, At
<1>2. c.intent \in Intents /\ c.ref \in Refs /\ charges[c.ref].intent = 0 /\ c.ref < nextRef
  BY <1>1 DEF Sound
<1>3. d \in HandlerState /\ d.step = "number" /\ d.intent = c.intent /\ d.ref = c.ref
  BY <1>1 DEF HandlerState, Steps
<1>4. Become(h, d)
  BY DEF Charge, GoOn
<1>5. PICK ok \in Outcomes : charges' = [charges EXCEPT ![c.ref] = [intent |-> c.intent, ok |-> ok]]
  BY DEF Charge
<1>6. [intent |-> c.intent, ok |-> ok] \in [intent : {0} \cup Intents, ok : BOOLEAN]
  BY <1>2, PaymentsAssumption
<1>7. charges \in [Refs -> [intent : {0} \cup Intents, ok : BOOLEAN]] /\ nextRef \in Nat \ {0}
      /\ nextRef' = nextRef /\ attempts' = attempts
  BY DEF IInv, PspIsSound, Charge
<1>8. \A g \in Handlers \ {h} :
        handler[g].step = "charge" => handler[g].ref # c.ref /\ handler[g].ref \in Refs
  BY <1>1, RequestIsSound DEF IInv, HandlersAreSound, Sound
<1> HIDE DEF d, c
<1>9. /\ charges' \in [Refs -> [intent : {0} \cup Intents, ok : BOOLEAN]]
      /\ charges'[c.ref].intent = c.intent
      /\ \A r \in Refs \ {c.ref} : charges'[r] = charges[r]
  BY <1>2, <1>5, <1>6, <1>7
<1>10. PspIsSound'
  BY <1>2, <1>7, <1>9 DEF IInv, PspIsSound, Refs
<1>11. Grows
  BY <1>2, <1>7, <1>9 DEF Grows
<1>12. Sound(d, charges', attempts', nextRef')
  BY <1>2, <1>3, <1>9 DEF Sound, Called, Accepted
<1>13. Moves(h, d)
  BY <1>3, <1>4, <1>7, <1>8, <1>9, <1>11, <1>12 DEF Moves
<1>14. Rest(h)
  BY <1>7 DEF Rest, Charge, IInv, HistoryIsTyped
<1> QED
  BY <1>10, <1>13, <1>14, CaptureIsSound

LEMMA RecordAttemptIsSound ==
  ASSUME IInv, NEW h \in Handlers, RecordAttempt(h)
  PROVE  IInv'
<1> DEFINE c == handler[h]
<1>1. c \in HandlerState /\ c.step = "record" /\ Sound(c, charges, attempts, nextRef)
  BY RequestIsSound DEF RecordAttempt, At
<1>2. c.intent \in Intents /\ c.ref \in Refs /\ charges[c.ref].intent = c.intent
  BY <1>1 DEF Sound, Called
<1>3. PICK next \in {"succeed", "decline"} :
        Become(h, [c EXCEPT !.step = next]) /\ (next = "succeed" => charges[c.ref].ok)
  BY DEF RecordAttempt, GoOn, Ok
<1> DEFINE d == [c EXCEPT !.step = next]
<1>4. d \in HandlerState /\ d.step = next /\ d.intent = c.intent /\ d.ref = c.ref
  BY <1>1 DEF HandlerState, Steps
<1>5. attempts' = [attempts EXCEPT ![c.intent] = Append(@, c.ref)]
  BY DEF RecordAttempt
<1>6. attempts \in [Intents -> Seq(Refs)] /\ charges' = charges /\ nextRef' = nextRef
      /\ nextRef \in Nat /\ PspIsSound'
  BY DEF IInv, HistoryIsTyped, RecordAttempt, PspIsSound, pspVars
<1> HIDE DEF c
<1>7. /\ attempts' \in [Intents -> Seq(Refs)]
      /\ attempts'[c.intent] = Append(attempts[c.intent], c.ref)
      /\ \A i \in Intents \ {c.intent} : attempts'[i] = attempts[i]
  BY <1>2, <1>5, <1>6
<1>8. attempts[c.intent] \in Seq(Refs)
  BY <1>2, <1>6
<1>9. /\ Recorded(c.ref, c.intent, attempts')
      /\ \A r \in Refs : Recorded(r, c.intent, attempts) => Recorded(r, c.intent, attempts')
  <2> DEFINE s == attempts[c.intent]
  <2>1. s \in Seq(Refs) /\ attempts'[c.intent] = Append(s, c.ref)
    BY <1>7, <1>8
  <2> HIDE DEF s
  <2>2. /\ Len(s) + 1 \in DOMAIN Append(s, c.ref) /\ Append(s, c.ref)[Len(s) + 1] = c.ref
        /\ \A n \in DOMAIN s : n \in DOMAIN Append(s, c.ref) /\ Append(s, c.ref)[n] = s[n]
    BY <1>2, <2>1
  <2>3. Recorded(c.ref, c.intent, attempts')
    BY <2>1, <2>2 DEF Recorded
  <2> QED
    BY <2>1, <2>2, <2>3 DEF Recorded, s
<1>10. Grows
  <2>1. ASSUME NEW i \in Intents, NEW r \in Refs, Recorded(r, i, attempts)
        PROVE  Recorded(r, i, attempts')
    <3>1. CASE i = c.intent
      BY <1>9, <2>1, <3>1
    <3>2. CASE i # c.intent
      BY <1>7, <2>1, <3>2 DEF Recorded
    <3> QED
      BY <3>1, <3>2
  <2> QED
    BY <1>6, <2>1 DEF Grows
<1> HIDE DEF d
<1>11. Sound(d, charges', attempts', nextRef')
  <2>1. next = "succeed" => Accounted(c.ref, charges', attempts')
    BY <1>2, <1>3, <1>6, <1>9 DEF Accounted
  <2> QED
    BY <1>2, <1>4, <1>6, <2>1 DEF Sound, Called, Accepted
<1>12. Moves(h, d)
  <2>1. Become(h, d)
    BY <1>3 DEF d
  <2> QED
    BY <1>4, <1>6, <1>10, <1>11, <2>1 DEF Moves
<1>13. Rest(h)
  BY <1>7 DEF Rest, RecordAttempt, IInv, HistoryIsTyped
<1> QED
  BY <1>6, <1>12, <1>13, CaptureIsSound

-------------------------------------------------------------------------------
(* A status is written, and what counts as paid is accounted for.           *)
Updates(h, i, to) ==
  /\ UpdateStatus(i, to) /\ to \in {"succeeded", "failed", "voided"}
  /\ to = "succeeded" => \E r \in Refs : Accounted(r, charges, attempts) /\ charges[r].intent = i
  /\ UNCHANGED <<key, nextIntent, pspVars, attempts, ledgerVars, captured, disturbed, crashes>>

LEMMA UpdateIsSound ==
  ASSUME IInv, NEW h \in Handlers, NEW run, NEW i \in Intents, NEW to,
         Updates(h, i, to), Become(h, run), run \in HandlerState,
         Sound(run, charges, attempts, nextRef), run.step # "charge"
  PROVE  IInv'
<1>1. /\ Grows /\ charges' = charges /\ attempts' = attempts /\ nextRef' = nextRef
      /\ nextRef \in Nat /\ PspIsSound'
  BY DEF Updates, Grows, pspVars, IInv, PspIsSound
<1>2. HandlersAreSound'
  <2>1. Moves(h, run)
    BY <1>1 DEF Moves
  <2> QED
    BY <1>1, <2>1, OneRequestMoves
<1>3. status' = status \/ (status[i] \in Open /\ status' = [status EXCEPT ![i] = to])
  <2>1. UpdateStatus(i, to)
    BY DEF Updates
  <2>2. CASE status[i] \in Open
    BY <2>1, <2>2 DEF UpdateStatus
  <2>3. CASE status[i] \notin Open
    BY <2>1, <2>3 DEF UpdateStatus
  <2> QED
    BY <2>2, <2>3
<1>4. /\ status \in [Intents -> {"absent", "succeeded", "failed", "voided"} \cup Open]
      /\ key' = key /\ nextIntent' = nextIntent
  BY DEF IInv, RowsAreSound, Updates
<1>5. RowsAreSound'
  <2>1. status' \in [Intents -> {"absent", "succeeded", "failed", "voided"} \cup Open]
    BY <1>3, <1>4 DEF Updates
  <2>2. \A j \in Intents : j >= nextIntent' => status'[j] = "absent"
    BY <1>3, <1>4 DEF IInv, RowsAreSound, Open
  <2> QED
    BY <1>4, <2>1, <2>2 DEF IInv, RowsAreSound, OneIntentPerKey
<1>6. PaidIsAccounted'
  <2> SUFFICES ASSUME NEW j \in Intents, status'[j] = "succeeded"
               PROVE \E r \in Refs : Accounted(r, charges', attempts') /\ charges'[r].intent = j
    BY DEF PaidIsAccounted
  <2>1. CASE status[j] = "succeeded"
    BY <1>1, <2>1, TheRestIsSound
  <2>2. CASE status[j] # "succeeded"
    <3>1. j = i /\ to = "succeeded"
      BY <1>3, <1>4, <2>2
    <3> QED
      BY <1>1, <3>1 DEF Updates
  <2> QED
    BY <2>1, <2>2
<1>7. LedgerIsSound'
  BY <1>1 DEF IInv, LedgerIsSound, ledgerVars, Updates
<1>8. HistoryIsTyped'
  BY DEF IInv, HistoryIsTyped, Updates
<1> QED
  BY <1>1, <1>2, <1>5, <1>6, <1>7, <1>8 DEF IInv

LEMMA DeclineOrVoidIsSound ==
  ASSUME IInv, NEW h \in Handlers, Decline(h) \/ Void(h)
  PROVE  IInv'
<1>1. handler[h].intent \in Intents
  BY RequestIsSound DEF Decline, Void, At, Sound, Called
<1>2. PICK to \in {"failed", "voided"} : UpdateStatus(handler[h].intent, to)
  BY DEF Decline, Void
<1>3. Updates(h, handler[h].intent, to)
  BY <1>2 DEF Updates, Decline, Void
<1>4. Become(h, Idle)
  BY DEF Decline, Void, End
<1>5. Idle \in HandlerState /\ Idle.step # "charge" /\ Sound(Idle, charges, attempts, nextRef)
  BY IdleIsSound
<1> QED
  BY <1>1, <1>3, <1>4, <1>5, UpdateIsSound

LEMMA SucceedIsSound ==
  ASSUME IInv, NEW h \in Handlers, Succeed(h)
  PROVE  IInv'
<1> DEFINE c == handler[h]
<1> DEFINE d == [c EXCEPT !.step = "post"]
<1>1. c \in HandlerState /\ c.step = "succeed" /\ Sound(c, charges, attempts, nextRef)
  BY RequestIsSound DEF Succeed, At
<1>2. /\ c.intent \in Intents /\ c.ref \in Refs /\ charges[c.ref].intent = c.intent
      /\ Accounted(c.ref, charges, attempts)
  BY <1>1 DEF Sound, Called, Accepted
<1>3. d \in HandlerState /\ d.step = "post" /\ d.intent = c.intent /\ d.ref = c.ref
  BY <1>1 DEF HandlerState, Steps
<1>4. Become(h, d)
  BY DEF Succeed, GoOn
<1>5. UpdateStatus(c.intent, "succeeded")
      /\ UNCHANGED <<key, nextIntent, pspVars, attempts, ledgerVars, captured, disturbed, crashes>>
  BY DEF Succeed
<1> HIDE DEF d, c
<1>6. Sound(d, charges, attempts, nextRef)
  BY <1>2, <1>3 DEF Sound, Called, Accepted
<1>7. Updates(h, c.intent, "succeeded")
  BY <1>2, <1>5 DEF Updates
<1>8. d.step # "charge"
  BY <1>3
<1> QED
  BY <1>2, <1>3, <1>4, <1>6, <1>7, <1>8, UpdateIsSound

-------------------------------------------------------------------------------
(* A step of the post: only what is on its way or in the ledger changes.    *)
LedgerMoves ==
  /\ UNCHANGED <<intentVars, pspVars, attempts, disturbed, crashes>>
  /\ ledger' \subseteq Refs /\ posts' \subseteq Refs \X (0 .. Retries)
  /\ \A r \in ledger' : Accounted(r, charges, attempts)
  /\ \A p \in posts' : Accounted(p[1], charges, attempts)
  /\ captured' \subseteq Intents

LEMMA LedgerMoveIsSound ==
  ASSUME IInv, LedgerMoves
  PROVE  /\ RowsAreSound' /\ PspIsSound' /\ LedgerIsSound' /\ PaidIsAccounted' /\ HistoryIsTyped'
         /\ Grows /\ charges' = charges /\ attempts' = attempts /\ nextRef' = nextRef
         /\ nextRef \in Nat
<1>1. /\ Grows /\ charges' = charges /\ attempts' = attempts /\ nextRef' = nextRef
      /\ nextRef \in Nat /\ PspIsSound'
  BY DEF LedgerMoves, Grows, pspVars, IInv, PspIsSound
<1>2. RowsAreSound'
  BY DEF IInv, RowsAreSound, OneIntentPerKey, intentVars, LedgerMoves
<1>3. LedgerIsSound'
  BY <1>1 DEF LedgerMoves, LedgerIsSound
<1>4. PaidIsAccounted'
  BY <1>1 DEF IInv, PaidIsAccounted, intentVars, LedgerMoves
<1>5. HistoryIsTyped'
  BY DEF IInv, HistoryIsTyped, LedgerMoves
<1> QED
  BY <1>1, <1>2, <1>3, <1>4, <1>5

LEMMA PostIsSound ==
  ASSUME IInv, NEW h \in Handlers, NEW run, LedgerMoves, Become(h, run), run \in HandlerState,
         Sound(run, charges, attempts, nextRef), run.step # "charge"
  PROVE  IInv'
<1>1. /\ RowsAreSound' /\ PspIsSound' /\ LedgerIsSound' /\ PaidIsAccounted' /\ HistoryIsTyped'
      /\ Grows /\ charges' = charges /\ attempts' = attempts /\ nextRef' = nextRef
      /\ nextRef \in Nat
  BY LedgerMoveIsSound
<1>2. Moves(h, run)
  BY <1>1 DEF Moves
<1>3. HandlersAreSound'
  BY <1>1, <1>2, OneRequestMoves
<1> QED
  BY <1>1, <1>3 DEF IInv

(* A request that is posting its entry. *)
LEMMA PosterIsSound ==
  ASSUME IInv, NEW h \in Handlers, handler[h].step \in {"post", "await"}
  PROVE  /\ handler[h] \in HandlerState /\ handler[h].intent \in Intents
         /\ handler[h].ref \in Refs /\ handler[h].tries \in 0 .. Retries
         /\ charges[handler[h].ref].intent = handler[h].intent
         /\ Accounted(handler[h].ref, charges, attempts)
<1>1. handler[h] \in HandlerState /\ Sound(handler[h], charges, attempts, nextRef)
  BY RequestIsSound
<1> QED
  BY <1>1 DEF Sound, Called, Accepted, HandlerState

LEMMA SendPostIsSound ==
  ASSUME IInv, NEW h \in Handlers, SendPost(h)
  PROVE  IInv'
<1> DEFINE c == handler[h]
<1> DEFINE d == [c EXCEPT !.step = "await"]
<1>1. /\ c \in HandlerState /\ c.intent \in Intents /\ c.ref \in Refs
      /\ c.tries \in 0 .. Retries /\ charges[c.ref].intent = c.intent
      /\ Accounted(c.ref, charges, attempts)
  BY PosterIsSound DEF SendPost, At
<1>2. d \in HandlerState /\ d.step = "await" /\ d.intent = c.intent /\ d.ref = c.ref
  BY <1>1 DEF HandlerState, Steps
<1>3. Become(h, d) /\ posts' = posts \cup {<<c.ref, c.tries>>}
      /\ UNCHANGED <<intentVars, pspVars, attempts, ledger, captured, disturbed, crashes>>
  BY DEF SendPost, GoOn
<1> HIDE DEF d, c
<1>4. Sound(d, charges, attempts, nextRef)
  BY <1>1, <1>2 DEF Sound, Called, Accepted
<1>5. LedgerMoves
  BY <1>1, <1>3 DEF LedgerMoves, IInv, LedgerIsSound, HistoryIsTyped
<1>6. d.step # "charge"
  BY <1>2
<1> QED
  BY <1>2, <1>3, <1>4, <1>5, <1>6, PostIsSound

LEMMA PostAnsweredIsSound ==
  ASSUME IInv, NEW h \in Handlers, NEW p \in posts, PostAnswered(h, p)
  PROVE  IInv'
<1>1. handler[h].intent \in Intents
  BY PosterIsSound DEF PostAnswered, Awaits, At
<1>2. p[1] \in Refs /\ Accounted(p[1], charges, attempts)
  BY DEF IInv, LedgerIsSound
<1>3. LedgerMoves
  BY <1>1, <1>2 DEF LedgerMoves, PostAnswered, IInv, LedgerIsSound, HistoryIsTyped
<1>4. Become(h, Idle)
  BY DEF PostAnswered, End
<1>5. Idle \in HandlerState /\ Idle.step # "charge" /\ Sound(Idle, charges, attempts, nextRef)
  BY IdleIsSound
<1> QED
  BY <1>3, <1>4, <1>5, PostIsSound

LEMMA PostUnheardIsSound ==
  ASSUME IInv, NEW p \in posts, PostUnheard(p)
  PROVE  IInv'
<1>1. p[1] \in Refs /\ Accounted(p[1], charges, attempts)
  BY DEF IInv, LedgerIsSound
<1>2. LedgerMoves /\ handler' = handler
  BY <1>1 DEF LedgerMoves, PostUnheard, IInv, LedgerIsSound, HistoryIsTyped
<1>3. /\ RowsAreSound' /\ PspIsSound' /\ LedgerIsSound' /\ PaidIsAccounted' /\ HistoryIsTyped'
      /\ charges' = charges /\ attempts' = attempts /\ nextRef' = nextRef
  BY <1>2, LedgerMoveIsSound
<1>4. HandlersAreSound'
  BY <1>2, <1>3 DEF IInv, HandlersAreSound
<1> QED
  BY <1>3, <1>4 DEF IInv

LEMMA PostFailsIsSound ==
  ASSUME IInv, NEW h \in Handlers, PostFails(h)
  PROVE  IInv'
<1>1. LedgerMoves
  BY DEF LedgerMoves, PostFails, IInv, LedgerIsSound, HistoryIsTyped
<1>2. CASE Become(h, Idle)
  <2>1. Idle \in HandlerState /\ Idle.step # "charge" /\ Sound(Idle, charges, attempts, nextRef)
    BY IdleIsSound
  <2> QED
    BY <1>1, <1>2, <2>1, PostIsSound
<1>3. CASE handler[h].tries < Retries /\ TryAgain(h)
  <2> DEFINE c == handler[h]
  <2> DEFINE d == [c EXCEPT !.step = "post", !.tries = @ + 1]
  <2>1. /\ c \in HandlerState /\ c.intent \in Intents /\ c.ref \in Refs
        /\ c.tries \in 0 .. Retries /\ charges[c.ref].intent = c.intent
        /\ Accounted(c.ref, charges, attempts)
    BY PosterIsSound DEF PostFails, At
  <2>2. c.tries + 1 \in 0 .. Retries
    BY <1>3, <2>1, PaymentsAssumption
  <2>3. d \in HandlerState /\ d.step = "post" /\ d.intent = c.intent /\ d.ref = c.ref
    BY <2>1, <2>2 DEF HandlerState, Steps
  <2>4. Become(h, d)
    BY <1>3 DEF TryAgain
  <2> HIDE DEF d, c
  <2>5. Sound(d, charges, attempts, nextRef)
    BY <2>1, <2>3 DEF Sound, Called, Accepted
  <2>6. d.step # "charge"
    BY <2>3
  <2> QED
    BY <1>1, <2>3, <2>4, <2>5, <2>6, PostIsSound
<1> QED
  BY <1>2, <1>3 DEF PostFails, End

-------------------------------------------------------------------------------
LEMMA CrashIsSound ==
  ASSUME IInv, Crash
  PROVE  IInv'
<1>1. RowsAreSound' /\ PspIsSound' /\ LedgerIsSound' /\ PaidIsAccounted' /\ HistoryIsTyped'
  BY UnchangedIsSound DEF Crash, IInv, HistoryIsTyped, WorkedOn
<1>2. \A h \in Handlers : handler'[h] = Idle
  BY DEF Crash
<1>3. handler' \in [Handlers -> HandlerState]
  BY IdleIsSound DEF Crash
<1>4. HandlersAreSound'
  BY <1>2, <1>3, IdleIsSound DEF HandlersAreSound
<1> QED
  BY <1>1, <1>4 DEF IInv

LEMMA RequestKeepsIt ==
  ASSUME IInv, NEW h \in Handlers, Request(h)
  PROVE  IInv'
<1>1. CASE \E k \in Keys : FindByKey(h, k)
  BY <1>1, FindByKeyIsSound
<1>2. CASE \E i \in Intents : BeginCapture(h, i) \/ CaptureReplays(h, i) \/ BeginVoid(h, i)
  BY <1>2, BeginCaptureIsSound, CaptureReplaysIsSound, BeginVoidIsSound
<1> QED
  BY <1>1, <1>2 DEF Request

LEMMA ServeKeepsIt ==
  ASSUME IInv, NEW h \in Handlers, Serve(h)
  PROVE  IInv'
<1>1. CASE Insert(h)
  BY <1>1, InsertIsSound
<1>2. CASE InsertFails(h) \/ RecordAttemptFails(h)
  BY <1>2, EndIsSound
<1>3. CASE Charge(h)
  BY <1>3, ChargeIsSound
<1>4. CASE NumberAttempt(h)
  BY <1>4, NumberAttemptIsSound
<1>5. CASE RecordAttempt(h)
  BY <1>5, RecordAttemptIsSound
<1>6. CASE Decline(h) \/ Void(h)
  BY <1>6, DeclineOrVoidIsSound
<1>7. CASE Succeed(h)
  BY <1>7, SucceedIsSound
<1>8. CASE SendPost(h)
  BY <1>8, SendPostIsSound
<1>9. CASE PostFails(h)
  BY <1>9, PostFailsIsSound
<1>10. CASE \E p \in posts : PostAnswered(h, p)
  BY <1>10, PostAnsweredIsSound
<1> QED
  BY <1>1, <1>2, <1>3, <1>4, <1>5, <1>6, <1>7, <1>8, <1>9, <1>10 DEF Serve

LEMMA StepIsSound == IInv /\ [Next]_vars => IInv'
<1> SUFFICES ASSUME IInv, [Next]_vars PROVE IInv'
  OBVIOUS
<1>1. CASE \E h \in Handlers : Request(h) \/ Serve(h)
  BY <1>1, RequestKeepsIt, ServeKeepsIt
<1>2. CASE \E p \in posts : PostUnheard(p)
  BY <1>2, PostUnheardIsSound
<1>3. CASE Crash
  BY <1>3, CrashIsSound
<1>4. CASE UNCHANGED vars
  <2>1. RowsAreSound' /\ PspIsSound' /\ LedgerIsSound' /\ PaidIsAccounted' /\ HistoryIsTyped'
    BY <1>4, UnchangedIsSound DEF vars, IInv, HistoryIsTyped
  <2>2. HandlersAreSound'
    BY <1>4 DEF vars, pspVars, IInv, HandlersAreSound
  <2> QED
    BY <2>1, <2>2 DEF IInv
<1> QED
  BY <1>1, <1>2, <1>3, <1>4 DEF Next

LEMMA Invariant == Spec => []IInv
<1> QED
  BY InitIsSound, StepIsSound, PTL DEF Spec

-------------------------------------------------------------------------------
(* The types of the rows, the PSP, the ledger and the request handlers.     *)
THEOREM PaymentsTypeCorrect == Spec => []TypeOK
<1>1. IInv => TypeOK
  BY DEF IInv, HandlersAreSound, HandlerState, RowsAreSound, PspIsSound, LedgerIsSound,
         HistoryIsTyped, TypeOK
<1> QED
  BY <1>1, Invariant, PTL

(* paymentIntentRepository.ts:34 and db/migrations: the unique index leaves *)
(* an order, that may ask for its intent many times at once, with one.      *)
THEOREM OneIntentForEachKey == Spec => []OneIntentPerKey
<1>1. IInv => OneIntentPerKey
  BY DEF IInv, RowsAreSound
<1> QED
  BY <1>1, Invariant, PTL

(* capturePayment.ts: what is in the ledger, and every intent that counts   *)
(* as paid, goes back to a charge the PSP accepted and that is on record.   *)
THEOREM MoneyStaysAccounted == Spec => []MoneyIsAccounted
<1>1. IInv => MoneyIsAccounted
  <2> SUFFICES ASSUME IInv PROVE MoneyIsAccounted
    OBVIOUS
  <2>1. \A r \in ledger : charges[r].ok /\ r \in Attempted(charges[r].intent)
    BY DEF IInv, LedgerIsSound, Accounted, Recorded, Attempted
  <2>2. \A i \in Intents : status[i] = "succeeded" => Charged(i) \cap Attempted(i) # {}
    <3> SUFFICES ASSUME NEW i \in Intents, status[i] = "succeeded"
                 PROVE Charged(i) \cap Attempted(i) # {}
      OBVIOUS
    <3>1. PICK r \in Refs : Accounted(r, charges, attempts) /\ charges[r].intent = i
      BY DEF IInv, PaidIsAccounted
    <3>2. r \in Charged(i) /\ r \in Attempted(i)
      BY <3>1 DEF Accounted, Recorded, Charged, Attempted
    <3> QED
      BY <3>2
  <2> QED
    BY <2>1, <2>2 DEF MoneyIsAccounted
<1> QED
  BY <1>1, Invariant, PTL

(* capturePayment.ts and voidPayment.ts: captures and voids race on a       *)
(* status that each has read before, and none leaves a final one.           *)
THEOREM FinalStatusIsFinal == Spec => FinalStatus
<1> DEFINE Stays == \A i \in Intents :
                     status[i] \in {"succeeded", "failed", "voided"} => status'[i] = status[i]
<1>1. IInv /\ [Next]_vars => [Stays]_vars
  <2> SUFFICES ASSUME IInv, Next PROVE Stays
    OBVIOUS
  <2>1. status' = status \/ (\E h \in Handlers : Insert(h))
        \/ \E i \in Intents, to \in {"succeeded", "failed", "voided"} : UpdateStatus(i, to)
    <3>1. CASE \E h \in Handlers : Request(h)
      BY <3>1 DEF Request, FindByKey, BeginCapture, CaptureReplays, BeginVoid, intentVars
    <3>2. CASE \E h \in Handlers : Decline(h) \/ Succeed(h) \/ Void(h)
      BY <3>2, RequestIsSound DEF Decline, Succeed, Void, At, Sound, Called
    <3>3. CASE \E h \in Handlers :
                 \/ InsertFails(h) \/ Charge(h) \/ NumberAttempt(h) \/ RecordAttempt(h)
                 \/ RecordAttemptFails(h) \/ SendPost(h) \/ PostFails(h)
                 \/ \E p \in posts : PostAnswered(h, p)
      BY <3>3 DEF InsertFails, Charge, NumberAttempt, RecordAttempt, RecordAttemptFails, SendPost,
                  PostFails, PostAnswered, intentVars
    <3>4. CASE Crash \/ \E p \in posts : PostUnheard(p)
      BY <3>4 DEF Crash, PostUnheard, intentVars
    <3> QED
      BY <3>1, <3>2, <3>3, <3>4 DEF Next, Serve
  <2>2. CASE status' = status
    BY <2>2
  <2>3. CASE \E h \in Handlers : Insert(h)
    <3>1. nextIntent \in Intents /\ status[nextIntent] = "absent"
          /\ status' = [status EXCEPT ![nextIntent] = "requires_capture"]
      BY <2>3 DEF Insert, IInv, RowsAreSound, Intents
    <3> QED
      BY <3>1 DEF IInv, RowsAreSound
  <2>4. CASE \E i \in Intents, to \in {"succeeded", "failed", "voided"} : UpdateStatus(i, to)
    <3> SUFFICES ASSUME NEW i \in Intents, NEW to, UpdateStatus(i, to) PROVE Stays
      BY <2>4
    <3>1. CASE status[i] \in Open
      BY <3>1 DEF UpdateStatus, Open, IInv, RowsAreSound
    <3>2. CASE status[i] \notin Open
      BY <3>2 DEF UpdateStatus
    <3> QED
      BY <3>1, <3>2
  <2> QED
    BY <2>1, <2>2, <2>3, <2>4
<1> QED
  BY <1>1, Invariant, PTL DEF Spec, FinalStatus

-------------------------------------------------------------------------------
(* What is right of an intent no two requests worked on at the same time.    *)

Capturing == {"charge", "number", "record", "decline", "succeed"}

(* Its request has found it open and counted its attempts: with the status   *)
(* s, the attempts a and the charges c.                                      *)
OnTrack(run, s, a, c) ==
  /\ run.step \in Capturing => s \in Open
  /\ run.step = "record" => run.no = Len(a) + 1
  /\ run.step = "decline" => ~c[run.ref].ok

Alone(i) == \A h, g \in Handlers : handler[h].intent = i /\ handler[g].intent = i => h = g

RequestsOnTrack(i) ==
  \A h \in Handlers :
    handler[h].intent = i => OnTrack(handler[h], status[i], attempts[i], charges)

InHand(r, where) == \E h \in Handlers : handler[h].step \in where /\ handler[h].ref = r

(* A charge is in the hands of its request until it is on record and the     *)
(* status is written.                                                        *)
ChargesInHand(i) ==
  \A r \in Charged(i) :
    /\ status[i] \in Open \cup {"absent"} => InHand(r, {"number", "record", "succeed"})
    /\ r \notin Attempted(i) => InHand(r, {"number", "record"})
    /\ status[i] # "voided"
    /\ \A q \in Charged(i) : q = r

(* It is in the ledger, or a post or a request is about to bring it there.   *)
Kept(r) == r \in ledger \/ (\E p \in posts : p[1] = r) \/ InHand(r, Accepted)

Settled(i) ==
  (i \in captured \/ status[i] = "succeeded") /\ Retries \notin FailingTries
    => \E r \in Charged(i) : Kept(r)

Watched(i) == Alone(i) /\ RequestsOnTrack(i) /\ ChargesInHand(i) /\ Settled(i)

UndisturbedAreWatched == \A i \in Intents \ disturbed : Watched(i)

Unoccupied == \A h \in Handlers : handler[h].step \in {"idle", "insert"} => handler[h].intent = 0

LEMMA NobodyIsDisturbed == Init => Unoccupied /\ UndisturbedAreWatched
<1> SUFFICES ASSUME Init PROVE Unoccupied /\ UndisturbedAreWatched
  OBVIOUS
<1>1. Idle.intent = 0 /\ Idle.step = "idle" /\ NoCharge.intent = 0
  BY DEF Idle, NoCharge
<1>2. /\ \A h \in Handlers : handler[h] = Idle
      /\ \A i \in Intents : status[i] = "absent" /\ i # 0
      /\ \A r \in Refs : charges[r] = NoCharge
      /\ captured = {}
  BY DEF Init, Intents
<1>3. Unoccupied
  BY <1>1, <1>2 DEF Unoccupied
<1>4. ASSUME NEW i \in Intents PROVE Watched(i)
  <2>1. \A h \in Handlers : handler[h].intent # i
    BY <1>1, <1>2
  <2>2. Charged(i) = {}
    BY <1>1, <1>2 DEF Charged
  <2> QED
    BY <1>2, <2>1, <2>2 DEF Watched, Alone, RequestsOnTrack, ChargesInHand, Settled
<1> QED
  BY <1>3, <1>4 DEF UndisturbedAreWatched

(* Whoever has a charge of an intent in hand works on that intent. *)
LEMMA WhoseHand ==
  ASSUME IInv, NEW i \in Intents, NEW r \in Charged(i), NEW g \in Handlers,
         handler[g].step \in Called, handler[g].ref = r
  PROVE  handler[g].intent = i
<1>1. charges[r].intent = i
  BY DEF Charged
<1>2. charges[handler[g].ref].intent = handler[g].intent
  BY RequestIsSound DEF Sound
<1> QED
  BY <1>1, <1>2

(* A step that works on other intents. *)
Beside(i) ==
  /\ \A g \in Handlers :
       handler'[g] = handler[g] \/ (handler[g].intent # i /\ handler'[g].intent # i)
  /\ status'[i] = status[i] \/ (status[i] = "absent" /\ status'[i] = "requires_capture")
  /\ attempts'[i] = attempts[i]
  /\ \A r \in Refs :
       charges'[r] = charges[r] \/ (charges[r].intent # i /\ charges'[r].intent # i)
  /\ ledger \subseteq ledger'
  /\ \A p \in posts : p \in posts' \/ p[1] \in ledger' \/ charges[p[1]].intent # i
  /\ i \in captured' => i \in captured \/ status[i] = "succeeded"

LEMMA BesideIsWatched ==
  ASSUME IInv, NEW i \in Intents, Watched(i), Beside(i)
  PROVE  Watched(i)'
<1>1. \A r \in Refs : r \in Charged(i)' <=> r \in Charged(i)
  BY DEF Beside, Charged
<1>2. Charged(i)' = Charged(i) /\ Charged(i) \subseteq Refs
  BY <1>1 DEF Charged
<1>3. Attempted(i)' = Attempted(i)
  BY DEF Beside, Attempted
<1>4. ASSUME NEW r \in Charged(i), NEW where \in SUBSET Called, InHand(r, where)
      PROVE  InHand(r, where)'
  <2>1. PICK g \in Handlers : handler[g].step \in where /\ handler[g].ref = r
    BY <1>4 DEF InHand
  <2>2. handler[g].intent = i
    BY <2>1, WhoseHand
  <2>3. handler'[g] = handler[g]
    BY <2>2 DEF Beside
  <2> QED
    BY <2>1, <2>3 DEF InHand
<1>5. Alone(i)'
  BY DEF Watched, Alone, Beside
<1>6. RequestsOnTrack(i)'
  <2> SUFFICES ASSUME NEW h \in Handlers, handler'[h].intent = i
               PROVE  OnTrack(handler'[h], status'[i], attempts'[i], charges')
    BY DEF RequestsOnTrack
  <2>1. handler'[h] = handler[h] /\ handler[h].intent = i
    BY DEF Beside
  <2>2. OnTrack(handler[h], status[i], attempts[i], charges)
    BY <2>1 DEF Watched, RequestsOnTrack
  <2>3. handler[h].step = "decline" => charges'[handler[h].ref] = charges[handler[h].ref]
    <3>1. handler[h].step = "decline" =>
            charges[handler[h].ref].intent = i /\ handler[h].ref \in Refs
      BY <2>1, RequestIsSound DEF Sound, Called
    <3> QED
      BY <3>1 DEF Beside
  <2>4. status[i] \in Open => status'[i] \in Open
    BY DEF Beside, Open
  <2> QED
    BY <2>1, <2>2, <2>3, <2>4 DEF OnTrack, Beside
<1>7. ChargesInHand(i)'
  <2> SUFFICES ASSUME NEW r \in Charged(i)
               PROVE  /\ status'[i] \in Open \cup {"absent"}
                           => InHand(r, {"number", "record", "succeed"})'
                      /\ r \notin Attempted(i) => InHand(r, {"number", "record"})'
                      /\ status'[i] # "voided"
                      /\ \A q \in Charged(i) : q = r
    BY <1>2, <1>3 DEF ChargesInHand
  <2>1. /\ status[i] \in Open \cup {"absent"} => InHand(r, {"number", "record", "succeed"})
        /\ r \notin Attempted(i) => InHand(r, {"number", "record"})
        /\ status[i] # "voided"
        /\ \A q \in Charged(i) : q = r
    BY DEF Watched, ChargesInHand
  <2>2. /\ status'[i] \in Open \cup {"absent"} => status[i] \in Open \cup {"absent"}
        /\ status'[i] # "voided"
    BY <2>1 DEF Beside
  <2>3. {"number", "record"} \in SUBSET Called /\ {"number", "record", "succeed"} \in SUBSET Called
    BY DEF Called
  <2> QED
    BY <1>4, <2>1, <2>2, <2>3
<1>8. Settled(i)'
  <2> SUFFICES ASSUME i \in captured \/ status[i] = "succeeded", Retries \notin FailingTries
               PROVE  \E r \in Charged(i) : Kept(r)'
    BY <1>2 DEF Settled, Beside
  <2>1. PICK r \in Charged(i) : Kept(r)
    BY DEF Watched, Settled
  <2>2. charges[r].intent = i
    BY DEF Charged
  <2>3. InHand(r, Accepted) => InHand(r, Accepted)'
    <3>1. Accepted \in SUBSET Called
      BY DEF Accepted, Called
    <3> QED
      BY <1>4, <3>1
  <2>4. (\E p \in posts : p[1] = r) => r \in ledger' \/ \E p \in posts' : p[1] = r
    BY <2>2 DEF Beside
  <2>5. r \in ledger => r \in ledger'
    BY DEF Beside
  <2> QED
    BY <2>1, <2>3, <2>4, <2>5 DEF Kept
<1> QED
  BY <1>5, <1>6, <1>7, <1>8 DEF Watched

(* The request h goes on with its intent i, as run: of what it had in hand   *)
(* it lets nothing go.                                                       *)
TakenOver(i, run) ==
  /\ run.intent = i => OnTrack(run, status'[i], attempts'[i], charges')
  /\ \A r \in Charged(i)' :
       /\ status'[i] \in Open \cup {"absent"} =>
            run.ref = r /\ run.step \in {"number", "record", "succeed"}
       /\ r \notin Attempted(i)' => run.ref = r /\ run.step \in {"number", "record"}
       /\ status'[i] # "voided"
       /\ \A q \in Charged(i)' : q = r

LEMMA TakenOverIsWatched ==
  ASSUME IInv, NEW i \in Intents, NEW h \in Handlers, NEW run, Become(h, run),
         \A g \in Handlers \ {h} : handler[g].intent # i,
         TakenOver(i, run), Settled(i)'
  PROVE  Watched(i)'
<1>1. handler' = [handler EXCEPT ![h] = run] /\ handler \in [Handlers -> HandlerState]
  BY DEF Become, IInv, HandlersAreSound
<1>2. handler'[h] = run /\ \A g \in Handlers \ {h} : handler'[g] = handler[g]
  BY <1>1
<1>3. Alone(i)'
  BY <1>2 DEF Alone
<1>4. RequestsOnTrack(i)'
  BY <1>2 DEF RequestsOnTrack, TakenOver
<1>5. ChargesInHand(i)'
  <2> SUFFICES ASSUME NEW r \in Charged(i)'
               PROVE  /\ status'[i] \in Open \cup {"absent"}
                           => InHand(r, {"number", "record", "succeed"})'
                      /\ r \notin Attempted(i)' => InHand(r, {"number", "record"})'
                      /\ status'[i] # "voided"
                      /\ \A q \in Charged(i)' : q = r
    BY DEF ChargesInHand
  <2>1. /\ run.ref = r /\ run.step \in {"number", "record", "succeed"}
             => InHand(r, {"number", "record", "succeed"})'
        /\ run.ref = r /\ run.step \in {"number", "record"} => InHand(r, {"number", "record"})'
    BY <1>2 DEF InHand
  <2> QED
    BY <2>1 DEF TakenOver
<1> QED
  BY <1>3, <1>4, <1>5 DEF Watched

(* What a request that is alone with its intent has in hand. *)
LEMMA InOwnHand ==
  ASSUME IInv, NEW i \in Intents, Watched(i), NEW h \in Handlers, handler[h].intent = i
  PROVE  /\ \A g \in Handlers \ {h} : handler[g].intent # i
         /\ OnTrack(handler[h], status[i], attempts[i], charges)
         /\ \A r \in Charged(i) :
              /\ status[i] \in Open \cup {"absent"} =>
                   handler[h].ref = r /\ handler[h].step \in {"number", "record", "succeed"}
              /\ r \notin Attempted(i) =>
                   handler[h].ref = r /\ handler[h].step \in {"number", "record"}
              /\ status[i] # "voided"
              /\ \A q \in Charged(i) : q = r
<1>1. \A g \in Handlers \ {h} : handler[g].intent # i
  BY DEF Watched, Alone
<1>2. ASSUME NEW r \in Charged(i), NEW where \in SUBSET Called, InHand(r, where)
      PROVE  handler[h].ref = r /\ handler[h].step \in where
  <2>1. PICK g \in Handlers : handler[g].step \in where /\ handler[g].ref = r
    BY <1>2 DEF InHand
  <2>2. handler[g].intent = i
    BY <2>1, WhoseHand
  <2> QED
    BY <1>1, <2>1, <2>2
<1>3. {"number", "record"} \in SUBSET Called /\ {"number", "record", "succeed"} \in SUBSET Called
  BY DEF Called
<1>4. OnTrack(handler[h], status[i], attempts[i], charges)
  BY DEF Watched, RequestsOnTrack
<1> QED
  BY <1>1, <1>2, <1>3, <1>4 DEF Watched, ChargesInHand

(* A charge that is kept stays so, if the request that moves does not drop it. *)
LEMMA KeptStays ==
  ASSUME IInv, NEW h \in Handlers, NEW run, Become(h, run), NEW r, Kept(r), ledger \subseteq ledger',
         \A p \in posts : p \in posts' \/ p[1] \in ledger' \/ (p[1] = run.ref /\ run.step \in Accepted),
         handler[h].step \in Accepted =>
           (run.ref = handler[h].ref /\ run.step \in Accepted) \/ handler[h].ref \in ledger'
  PROVE  Kept(r)'
<1>1. handler' = [handler EXCEPT ![h] = run] /\ handler \in [Handlers -> HandlerState]
  BY DEF Become, IInv, HandlersAreSound
<1>2. handler'[h] = run /\ \A g \in Handlers \ {h} : handler'[g] = handler[g]
  BY <1>1
<1>3. run.ref = r /\ run.step \in Accepted => Kept(r)'
  BY <1>2 DEF Kept, InHand
<1>4. CASE r \in ledger
  BY <1>4 DEF Kept
<1>5. CASE \E p \in posts : p[1] = r
  BY <1>3, <1>5 DEF Kept
<1>6. CASE InHand(r, Accepted)
  <2>1. PICK g \in Handlers : handler[g].step \in Accepted /\ handler[g].ref = r
    BY <1>6 DEF InHand
  <2>2. CASE g = h
    BY <1>3, <2>1, <2>2 DEF Kept
  <2>3. CASE g # h
    BY <1>2, <2>1, <2>3 DEF Kept, InHand
  <2> QED
    BY <2>2, <2>3
<1> QED
  BY <1>4, <1>5, <1>6 DEF Kept

-------------------------------------------------------------------------------
(* Steps of requests that work on other intents.                             *)
OtherRequest(h, i) ==
  \/ \E k \in Keys : FindByKey(h, k)
  \/ \E j \in Intents : CaptureReplays(h, j)
  \/ \E j \in Intents \ {i} : BeginCapture(h, j) \/ BeginVoid(h, j)
  \/ Serve(h)

LEMMA OthersStayApart ==
  ASSUME IInv, NEW h \in Handlers, NEW i \in Intents, handler[h].intent # i, OtherRequest(h, i)
  PROVE  \A g \in Handlers :
           handler'[g] = handler[g] \/ (handler[g].intent # i /\ handler'[g].intent # i)
<1>1. handler \in [Handlers -> HandlerState] /\ handler[h] \in HandlerState
  BY RequestIsSound DEF IInv, HandlersAreSound
<1>2. ASSUME NEW run, Become(h, run), run.intent # i
      PROVE  \A g \in Handlers :
               handler'[g] = handler[g] \/ (handler[g].intent # i /\ handler'[g].intent # i)
  <2>1. handler'[h] = run /\ \A g \in Handlers \ {h} : handler'[g] = handler[g]
    BY <1>1, <1>2 DEF Become
  <2> QED
    BY <1>2, <2>1
<1>3. Idle.intent = 0 /\ i # 0 /\ Idle \in HandlerState
  BY IdleIsSound DEF Idle, Intents
<1>4. CASE \E k \in Keys : FindByKey(h, k)
  <2>1. PICK k \in Keys : FindByKey(h, k)
    BY <1>4
  <2>2. [Idle EXCEPT !.step = "insert", !.key = k].intent = 0
    BY DEF Idle
  <2> QED
    BY <1>2, <1>3, <2>1, <2>2 DEF FindByKey
<1>5. CASE \E j \in Intents : CaptureReplays(h, j)
  BY <1>5 DEF CaptureReplays
<1>6. CASE \E j \in Intents \ {i} : BeginCapture(h, j) \/ BeginVoid(h, j)
  <2>1. PICK j \in Intents \ {i} : BeginCapture(h, j) \/ BeginVoid(h, j)
    BY <1>6
  <2>2. /\ [Idle EXCEPT !.step = "charge", !.intent = j, !.ref = nextRef].intent = j
        /\ [Idle EXCEPT !.step = "void", !.intent = j].intent = j
    BY DEF Idle
  <2> QED
    BY <1>2, <2>1, <2>2 DEF BeginCapture, BeginVoid
<1>7. CASE Serve(h)
  <2> DEFINE c == handler[h]
  <2>1. PICK run : Become(h, run) /\ run \in
          {Idle, [c EXCEPT !.step = "record", !.no = Len(attempts[c.intent]) + 1],
           [c EXCEPT !.step = "post", !.tries = @ + 1]}
          \cup {[c EXCEPT !.step = s] : s \in Steps}
    BY <1>7 DEF Serve, Insert, InsertFails, Charge, NumberAttempt, RecordAttempt, RecordAttemptFails,
                Decline, Succeed, SendPost, PostFails, PostAnswered, Void, GoOn, End, TryAgain, Steps
  <2>2. run.intent \in {0, c.intent}
    BY <1>1, <1>3, <2>1 DEF HandlerState
  <2> QED
    BY <1>2, <1>3, <2>1, <2>2
<1> QED
  BY <1>4, <1>5, <1>6, <1>7 DEF OtherRequest

LEMMA OthersAreBeside ==
  ASSUME IInv, NEW h \in Handlers, NEW i \in Intents, handler[h].intent # i, OtherRequest(h, i)
  PROVE  Beside(i)
<1>a. \A g \in Handlers :
        handler'[g] = handler[g] \/ (handler[g].intent # i /\ handler'[g].intent # i)
  BY OthersStayApart
<1> DEFINE c == handler[h]
<1>b. /\ c \in HandlerState /\ Sound(c, charges, attempts, nextRef)
      /\ status \in [Intents -> {"absent", "succeeded", "failed", "voided"} \cup Open]
      /\ attempts \in [Intents -> Seq(Refs)]
      /\ charges \in [Refs -> [intent : {0} \cup Intents, ok : BOOLEAN]]
  BY RequestIsSound DEF IInv, RowsAreSound, HistoryIsTyped, PspIsSound
<1>c. c.step \in Called \cup {"charge", "void"} => c.intent \in Intents \ {i}
  BY <1>b DEF Sound
<1> DEFINE Same == /\ status'[i] = status[i] /\ attempts'[i] = attempts[i] /\ charges' = charges
                   /\ ledger' = ledger /\ posts' = posts /\ captured' = captured
<1>d. Same => Beside(i)
  BY <1>a DEF Beside
<1>1. CASE \E k \in Keys : FindByKey(h, k)
  BY <1>1, <1>d DEF FindByKey, intentVars, pspVars, ledgerVars
<1>2. CASE \E j \in Intents : CaptureReplays(h, j)
  BY <1>2, <1>a DEF CaptureReplays, Beside, intentVars, pspVars, ledgerVars
<1>3. CASE \E j \in Intents \ {i} : BeginCapture(h, j) \/ BeginVoid(h, j)
  BY <1>3, <1>d DEF BeginCapture, BeginVoid, intentVars, pspVars, ledgerVars
<1>4. CASE Insert(h)
  <2>1. /\ status[nextIntent] = "absent" /\ nextIntent \in Intents
        /\ status' = [status EXCEPT ![nextIntent] = "requires_capture"]
    BY <1>4 DEF Insert, IInv, RowsAreSound, Intents
  <2>2. status'[i] = status[i] \/ (status[i] = "absent" /\ status'[i] = "requires_capture")
    BY <1>b, <2>1
  <2> QED
    BY <1>4, <1>a, <2>2 DEF Insert, Beside, pspVars, ledgerVars
<1>5. CASE InsertFails(h) \/ RecordAttemptFails(h) \/ NumberAttempt(h)
  BY <1>5, <1>d DEF InsertFails, RecordAttemptFails, NumberAttempt, intentVars, pspVars, ledgerVars
<1>6. CASE Charge(h)
  <2>1. c.step = "charge" /\ c.ref \in Refs /\ charges[c.ref].intent = 0 /\ c.intent # i /\ i # 0
    BY <1>6, <1>b, <1>c DEF Charge, At, Sound, Intents
  <2>2. PICK ok \in Outcomes : charges' = [charges EXCEPT ![c.ref] = [intent |-> c.intent, ok |-> ok]]
    BY <1>6 DEF Charge
  <2>3. \A r \in Refs :
          charges'[r] = charges[r] \/ (charges[r].intent # i /\ charges'[r].intent # i)
    BY <1>b, <2>1, <2>2
  <2> QED
    BY <1>6, <1>a, <2>3 DEF Charge, Beside, intentVars, ledgerVars
<1>7. CASE RecordAttempt(h)
  <2>1. attempts'[i] = attempts[i]
    BY <1>7, <1>b, <1>c DEF RecordAttempt, At, Called
  <2> QED
    BY <1>7, <1>d, <2>1 DEF RecordAttempt, intentVars, pspVars, ledgerVars
<1>8. CASE Decline(h) \/ Succeed(h) \/ Void(h)
  <2>1. PICK to : UpdateStatus(c.intent, to)
    BY <1>8 DEF Decline, Succeed, Void
  <2>2. c.intent # i
    BY <1>8, <1>c DEF Decline, Succeed, Void, At, Called
  <2>3. status'[i] = status[i]
    BY <1>b, <2>1, <2>2 DEF UpdateStatus
  <2> QED
    BY <1>8, <1>d, <2>3 DEF Decline, Succeed, Void, pspVars, ledgerVars
<1>9. CASE SendPost(h)
  BY <1>9, <1>a DEF SendPost, Beside, intentVars, pspVars
<1>10. CASE PostFails(h)
  <2>1. charges[c.ref].intent # i
    BY <1>10, <1>b, <1>c DEF PostFails, At, Sound, Called
  <2>2. \A p \in posts : p \in posts' \/ charges[p[1]].intent # i
    BY <1>10, <2>1 DEF PostFails
  <2> QED
    BY <1>10, <1>a, <2>2 DEF PostFails, Beside, intentVars, pspVars
<1>11. CASE \E p \in posts : PostAnswered(h, p)
  <2>1. PICK p \in posts : PostAnswered(h, p)
    BY <1>11
  <2>2. c.intent # i
    OBVIOUS
  <2> QED
    BY <1>a, <2>1, <2>2 DEF PostAnswered, Beside, intentVars, pspVars
<1> QED
  BY <1>1, <1>2, <1>3, <1>4, <1>5, <1>6, <1>7, <1>8, <1>9, <1>10, <1>11 DEF OtherRequest, Serve

-------------------------------------------------------------------------------
(* Steps of the one request that works on the intent.                        *)

(* Nothing it may lose: the posts, the ledger and the answers stay.          *)
LEMMA SettledStays ==
  ASSUME IInv, NEW i \in Intents, Watched(i), NEW h \in Handlers, NEW run, Become(h, run),
         UNCHANGED <<charges, ledger, captured>>, posts \subseteq posts',
         status'[i] = "succeeded" => status[i] = "succeeded",
         handler[h].step \in Accepted => run.ref = handler[h].ref /\ run.step \in Accepted
  PROVE  Settled(i)'
<1> SUFFICES ASSUME i \in captured \/ status[i] = "succeeded", Retries \notin FailingTries
             PROVE  \E r \in Charged(i) : Kept(r)'
  BY DEF Settled, Charged
<1>1. PICK r \in Charged(i) : Kept(r)
  BY DEF Watched, Settled
<1>2. Kept(r)'
  BY <1>1, KeptStays
<1> QED
  BY <1>2

(* A capture or a void begins, of an intent nobody is working on. *)
LEMMA BeginningIsWatched ==
  ASSUME IInv, NEW h \in Handlers, NEW i \in Intents, Watched(i),
         BeginCapture(h, i) \/ BeginVoid(h, i), i \notin disturbed'
  PROVE  Watched(i)'
<1>1. \A g \in Handlers : handler[g].intent # i
  BY DEF BeginCapture, BeginVoid, Disturb, WorkedOn
<1>2. PICK run : /\ Become(h, run) /\ run.intent = i /\ run.step \in {"charge", "void"}
                 /\ run.step = "charge" => status[i] \in Open
  <2>1. CASE BeginCapture(h, i)
    <3> DEFINE d == [Idle EXCEPT !.step = "charge", !.intent = i, !.ref = nextRef]
    <3>1. d.intent = i /\ d.step = "charge"
      BY DEF Idle
    <3> QED
      BY <2>1, <3>1 DEF BeginCapture
  <2>2. CASE BeginVoid(h, i)
    <3> DEFINE d == [Idle EXCEPT !.step = "void", !.intent = i]
    <3>1. d.intent = i /\ d.step = "void"
      BY DEF Idle
    <3> QED
      BY <2>2, <3>1 DEF BeginVoid
  <2> QED
    BY <2>1, <2>2
<1>3. /\ status' = status /\ charges' = charges /\ attempts' = attempts
      /\ ledger' = ledger /\ posts' = posts /\ captured' = captured
      /\ handler[h].step = "idle"
  BY DEF BeginCapture, BeginVoid, At, intentVars, ledgerVars, pspVars
<1>4. Settled(i)'
  BY <1>2, <1>3, SettledStays DEF Accepted
<1>5. \A r \in Charged(i) :
        /\ status[i] \notin Open \cup {"absent"} /\ r \in Attempted(i) /\ status[i] # "voided"
        /\ \A q \in Charged(i) : q = r
  <2> SUFFICES ASSUME NEW r \in Charged(i)
               PROVE  /\ ~InHand(r, {"number", "record"})
                      /\ ~InHand(r, {"number", "record", "succeed"})
    BY DEF Watched, ChargesInHand
  <2> QED
    BY <1>1, WhoseHand DEF InHand, Called
<1>6. Charged(i)' = Charged(i) /\ Attempted(i)' = Attempted(i)
  BY <1>3 DEF Charged, Attempted
<1>7. OnTrack(run, status[i], attempts[i], charges)
  BY <1>2 DEF OnTrack, Capturing
<1>8. TakenOver(i, run)
  BY <1>3, <1>5, <1>6, <1>7 DEF TakenOver
<1> QED
  BY <1>1, <1>2, <1>4, <1>8, TakenOverIsWatched

(* An intent without a charge has nothing to lose. *)
LEMMA ChargeIsWatched ==
  ASSUME IInv, NEW h \in Handlers, Charge(h), NEW i \in Intents, Watched(i), handler[h].intent = i
  PROVE  Watched(i)'
<1> DEFINE c == handler[h]
<1> DEFINE d == [c EXCEPT !.step = "number"]
<1>1. /\ c \in HandlerState /\ c.step = "charge" /\ c.ref \in Refs
      /\ charges[c.ref].intent = 0 /\ i # 0
  BY RequestIsSound DEF Charge, At, Sound, Intents
<1>2. /\ \A g \in Handlers \ {h} : handler[g].intent # i
      /\ status[i] \in Open /\ Charged(i) = {}
  BY <1>1, InOwnHand DEF OnTrack, Capturing
<1>3. d.step = "number" /\ d.ref = c.ref /\ d.intent = i
  BY <1>1 DEF HandlerState
<1>4. Become(h, d)
  BY DEF Charge, GoOn
<1>5. PICK ok \in Outcomes : charges' = [charges EXCEPT ![c.ref] = [intent |-> c.intent, ok |-> ok]]
  BY DEF Charge
<1> HIDE DEF c, d
<1>6. charges \in [Refs -> [intent : {0} \cup Intents, ok : BOOLEAN]]
  BY DEF IInv, PspIsSound
<1>7. \A r \in Refs : r # c.ref => charges'[r] = charges[r]
  BY <1>1, <1>5, <1>6
<1>8. \A r \in Charged(i)' : r = c.ref
  BY <1>2, <1>7 DEF Charged
<1>9. /\ status' = status /\ attempts' = attempts /\ captured' = captured
  BY DEF Charge, intentVars
<1>10. TakenOver(i, d)
  <2>1. OnTrack(d, status'[i], attempts'[i], charges')
    BY <1>2, <1>3, <1>9 DEF OnTrack
  <2>2. status'[i] # "voided"
    BY <1>2, <1>9 DEF Open
  <2> QED
    BY <1>3, <1>8, <2>1, <2>2 DEF TakenOver
<1>11. Settled(i)'
  BY <1>2, <1>9 DEF Watched, Settled, Open
<1> QED
  BY <1>2, <1>4, <1>10, <1>11, TakenOverIsWatched

LEMMA NumberIsWatched ==
  ASSUME IInv, NEW h \in Handlers, NumberAttempt(h), NEW i \in Intents, Watched(i),
         handler[h].intent = i
  PROVE  Watched(i)'
<1> DEFINE c == handler[h]
<1> DEFINE d == [c EXCEPT !.step = "record", !.no = Len(attempts[c.intent]) + 1]
<1>1. c \in HandlerState /\ c.step = "number" /\ c.intent = i
  BY RequestIsSound DEF NumberAttempt, At
<1>2. d.step = "record" /\ d.ref = c.ref /\ d.intent = i /\ d.no = Len(attempts[i]) + 1
  BY <1>1 DEF HandlerState
<1>3. Become(h, d)
  BY DEF NumberAttempt
<1>4. UNCHANGED <<status, attempts, charges, ledger, posts, captured>>
  BY DEF NumberAttempt, intentVars, pspVars, ledgerVars
<1>5. OnTrack(c, status[i], attempts[i], charges)
  BY InOwnHand
<1> HIDE DEF d
<1>6. OnTrack(d, status[i], attempts[i], charges)
  BY <1>1, <1>2, <1>5 DEF OnTrack, Capturing
<1>7. Charged(i)' = Charged(i) /\ Attempted(i)' = Attempted(i)
  BY <1>4 DEF Charged, Attempted
<1>8. TakenOver(i, d)
  BY <1>1, <1>2, <1>4, <1>6, <1>7, InOwnHand DEF TakenOver
<1>9. Settled(i)'
  BY <1>1, <1>3, <1>4, SettledStays DEF Accepted
<1> QED
  BY <1>3, <1>8, <1>9, InOwnHand, TakenOverIsWatched

(* Nobody else has added an attempt since: the number is free, and recording *)
(* it never fails.                                                           *)
LEMMA RecordIsWatched ==
  ASSUME IInv, NEW h \in Handlers, RecordAttempt(h) \/ RecordAttemptFails(h), NEW i \in Intents,
         Watched(i), handler[h].intent = i
  PROVE  Watched(i)'
<1> DEFINE c == handler[h]
<1>1. c \in HandlerState /\ c.step = "record" /\ c.intent = i /\ c.ref \in Refs
      /\ Sound(c, charges, attempts, nextRef)
  BY RequestIsSound DEF RecordAttempt, RecordAttemptFails, At, Sound, Called
<1>2. /\ OnTrack(c, status[i], attempts[i], charges)
      /\ \A g \in Handlers \ {h} : handler[g].intent # i
      /\ \A r \in Charged(i) : c.ref = r /\ status[i] # "voided"
  <2>1. OnTrack(c, status[i], attempts[i], charges)
    BY InOwnHand
  <2>2. status[i] \in Open
    BY <1>1, <2>1 DEF OnTrack, Capturing
  <2> QED
    BY <2>1, <2>2, InOwnHand
<1>3. c.no = Len(attempts[i]) + 1 /\ status[i] \in Open
  BY <1>1, <1>2 DEF OnTrack, Capturing
<1>4. attempts[i] \in Seq(Refs)
  BY DEF IInv, HistoryIsTyped
<1>5. ~RecordAttemptFails(h)
  BY <1>3, <1>4 DEF RecordAttemptFails
<1>6. RecordAttempt(h)
  BY <1>5
<1> DEFINE next == IF charges[c.ref].ok THEN "succeed" ELSE "decline"
<1> DEFINE d == [c EXCEPT !.step = next]
<1>7. Become(h, d)
  BY <1>6 DEF RecordAttempt, GoOn, Ok
<1>8. d.step = next /\ d.ref = c.ref /\ d.intent = i
  BY <1>1 DEF HandlerState
<1>9. /\ attempts' = [attempts EXCEPT ![i] = Append(@, c.ref)]
      /\ UNCHANGED <<status, charges, ledger, posts, captured>>
  BY <1>1, <1>6 DEF RecordAttempt, intentVars, pspVars, ledgerVars
<1>10. c.ref \in Attempted(i)'
  <2>1. attempts'[i] = Append(attempts[i], c.ref)
    BY <1>9 DEF IInv, HistoryIsTyped
  <2>2. Len(attempts[i]) + 1 \in DOMAIN Append(attempts[i], c.ref)
        /\ Append(attempts[i], c.ref)[Len(attempts[i]) + 1] = c.ref
    BY <1>1, <1>4
  <2> QED
    BY <2>1, <2>2 DEF Attempted
<1>11. Charged(i)' = Charged(i)
  BY <1>9 DEF Charged
<1>12. OnTrack(d, status'[i], attempts'[i], charges')
  BY <1>3, <1>8, <1>9 DEF OnTrack
<1>13. \A r \in Charged(i) : d.step = "succeed"
  BY <1>2, <1>8 DEF Charged
<1> HIDE DEF d, next
<1>14. TakenOver(i, d)
  BY <1>2, <1>8, <1>9, <1>10, <1>11, <1>12, <1>13 DEF TakenOver
<1>15. Settled(i)'
  BY <1>1, <1>7, <1>9, SettledStays DEF Accepted
<1> QED
  BY <1>2, <1>7, <1>14, <1>15, TakenOverIsWatched

(* A declined charge or a void: the intent is closed, and nothing is charged. *)
LEMMA ClosingIsWatched ==
  ASSUME IInv, NEW h \in Handlers, Decline(h) \/ Void(h), NEW i \in Intents, Watched(i),
         handler[h].intent = i
  PROVE  Watched(i)'
<1>1. /\ \A g \in Handlers \ {h} : handler[g].intent # i
      /\ OnTrack(handler[h], status[i], attempts[i], charges)
      /\ handler[h].step \in {"decline", "void"}
  BY InOwnHand DEF Decline, Void, At
<1>2. PICK to \in {"failed", "voided"} : UpdateStatus(i, to)
  BY DEF Decline, Void
<1>3. /\ Become(h, Idle) /\ UNCHANGED <<charges, attempts, ledger, posts, captured>>
  BY DEF Decline, Void, End, pspVars, ledgerVars
<1>4. status'[i] = IF status[i] \in Open THEN to ELSE status[i]
  BY <1>2 DEF UpdateStatus, IInv, RowsAreSound
<1>5. Charged(i)' = Charged(i) /\ Attempted(i)' = Attempted(i)
  BY <1>3 DEF Charged, Attempted
<1>6. \A r \in Charged(i) :
        /\ status[i] \notin Open \cup {"absent"} /\ r \in Attempted(i) /\ status[i] # "voided"
        /\ \A q \in Charged(i) : q = r
  BY <1>1, InOwnHand
<1>7. Idle.intent = 0 /\ i # 0
  BY DEF Idle, Intents
<1>8. TakenOver(i, Idle)
  BY <1>4, <1>5, <1>6, <1>7 DEF TakenOver
<1>9. Settled(i)'
  <2>1. status'[i] = "succeeded" => status[i] = "succeeded"
    BY <1>4
  <2> QED
    BY <1>1, <1>3, <2>1, SettledStays DEF Accepted
<1> QED
  BY <1>1, <1>3, <1>8, <1>9, TakenOverIsWatched

LEMMA SucceedIsWatched ==
  ASSUME IInv, NEW h \in Handlers, Succeed(h), NEW i \in Intents, Watched(i), handler[h].intent = i
  PROVE  Watched(i)'
<1> DEFINE c == handler[h]
<1> DEFINE d == [c EXCEPT !.step = "post"]
<1>1. /\ c \in HandlerState /\ c.step = "succeed" /\ c.intent = i /\ c.ref \in Refs
      /\ charges[c.ref].intent = i /\ charges[c.ref].ok
  BY RequestIsSound DEF Succeed, At, Sound, Called, Accepted, Accounted
<1>2. c.ref \in Charged(i)
  BY <1>1 DEF Charged
<1>3. /\ \A g \in Handlers \ {h} : handler[g].intent # i
      /\ status[i] \in Open
      /\ \A r \in Charged(i) : r \in Attempted(i) /\ \A q \in Charged(i) : q = r
  <2>1. OnTrack(c, status[i], attempts[i], charges)
    BY InOwnHand
  <2> QED
    BY <1>1, <2>1, InOwnHand DEF OnTrack, Capturing
<1>4. d.step = "post" /\ d.ref = c.ref /\ d.intent = i
  BY <1>1 DEF HandlerState
<1>5. /\ Become(h, d) /\ UpdateStatus(i, "succeeded")
      /\ UNCHANGED <<charges, attempts, ledger, posts, captured>>
  BY <1>1 DEF Succeed, GoOn, pspVars, ledgerVars
<1>6. status'[i] = "succeeded"
  BY <1>3, <1>5 DEF UpdateStatus, IInv, RowsAreSound
<1>7. Charged(i)' = Charged(i) /\ Attempted(i)' = Attempted(i)
  BY <1>5 DEF Charged, Attempted
<1> HIDE DEF d
<1>8. TakenOver(i, d)
  <2>1. OnTrack(d, status'[i], attempts'[i], charges')
    BY <1>4 DEF OnTrack, Capturing
  <2> QED
    BY <1>3, <1>6, <1>7, <2>1 DEF TakenOver, Open
<1>9. Settled(i)'
  <2>1. handler \in [Handlers -> HandlerState]
    BY DEF IInv, HandlersAreSound
  <2>2. handler'[h] = d
    BY <1>5, <2>1 DEF Become
  <2>3. PICK ref \in Refs : ref = c.ref
    BY <1>1
  <2>4. Kept(ref)'
    BY <1>4, <2>2, <2>3 DEF Kept, InHand, Accepted
  <2> QED
    BY <1>2, <1>7, <2>3, <2>4 DEF Settled
<1> QED
  BY <1>3, <1>5, <1>8, <1>9, TakenOverIsWatched

(* The post: sent, answered, or given up for good or to be tried again.      *)
LEMMA PostIsWatched ==
  ASSUME IInv, NEW h \in Handlers, NEW i \in Intents, Watched(i), handler[h].intent = i,
         SendPost(h) \/ PostFails(h) \/ \E p \in posts : PostAnswered(h, p)
  PROVE  Watched(i)'
<1> DEFINE c == handler[h]
<1>1. /\ c \in HandlerState /\ c.step \in {"post", "await"} /\ c.intent = i /\ c.ref \in Refs
      /\ charges[c.ref].intent = i /\ charges[c.ref].ok
  BY PosterIsSound DEF SendPost, PostFails, PostAnswered, Awaits, At, Accounted
<1>2. c.ref \in Charged(i)
  BY <1>1 DEF Charged
<1>3. /\ \A g \in Handlers \ {h} : handler[g].intent # i
      /\ \A r \in Charged(i) :
           /\ status[i] \notin Open \cup {"absent"} /\ r \in Attempted(i) /\ status[i] # "voided"
           /\ \A q \in Charged(i) : q = r
  BY <1>1, InOwnHand
<1>4. /\ UNCHANGED <<status, charges, attempts>> /\ ledger \subseteq ledger'
  BY DEF SendPost, PostFails, PostAnswered, intentVars, pspVars
<1>5. Charged(i)' = Charged(i) /\ Attempted(i)' = Attempted(i)
  BY <1>4 DEF Charged, Attempted
<1>6. ASSUME NEW run, run.step \notin Capturing
      PROVE  TakenOver(i, run)
  <2>1. OnTrack(run, status'[i], attempts'[i], charges')
    BY <1>6 DEF OnTrack, Capturing
  <2> QED
    BY <1>3, <1>4, <1>5, <2>1 DEF TakenOver
<1>r. PICK ref \in Refs : ref = c.ref
  BY <1>1
<1>7. ASSUME Retries \notin FailingTries
      PROVE  Kept(ref)'
  <2>1. handler \in [Handlers -> HandlerState]
    BY DEF IInv, HandlersAreSound
  <2>2. CASE SendPost(h)
    <3>1. <<c.ref, c.tries>> \in posts' /\ <<c.ref, c.tries>>[1] = c.ref
      BY <2>2 DEF SendPost
    <3> QED
      BY <1>r, <3>1 DEF Kept
  <2>3. CASE PostFails(h)
    <3>1. c.tries < Retries /\ TryAgain(h)
      <4>1. c.tries # Retries /\ c.tries \in 0 .. Retries /\ Retries \in Nat
        BY <1>1, <1>7, <2>3, PaymentsAssumption DEF PostFails, HandlerState
      <4>2. c.tries < Retries
        BY <4>1
      <4> QED
        BY <2>3, <4>2 DEF PostFails
    <3> DEFINE d == [c EXCEPT !.step = "post", !.tries = @ + 1]
    <3>2. d.step = "post" /\ d.ref = c.ref
      BY <1>1 DEF HandlerState
    <3>3. handler'[h] = d
      BY <2>1, <3>1 DEF TryAgain, Become
    <3> QED
      BY <1>r, <3>2, <3>3 DEF Kept, InHand, Accepted
  <2>4. CASE \E p \in posts : PostAnswered(h, p)
    BY <1>r, <2>4 DEF PostAnswered, Awaits, Kept
  <2> QED
    BY <2>2, <2>3, <2>4
<1>8. Settled(i)'
  BY <1>2, <1>5, <1>7, <1>r DEF Settled
<1>9. PICK run : Become(h, run) /\ run.step \notin Capturing
  <2>1. CASE SendPost(h)
    <3>1. [c EXCEPT !.step = "await"].step = "await"
      BY <1>1 DEF HandlerState
    <3> QED
      BY <2>1, <3>1 DEF SendPost, GoOn, Capturing
  <2>2. Idle.step \notin Capturing
    BY DEF Idle, Capturing
  <2>3. [c EXCEPT !.step = "post", !.tries = @ + 1].step = "post"
    BY <1>1 DEF HandlerState
  <2> QED
    BY <2>1, <2>2, <2>3 DEF PostFails, PostAnswered, TryAgain, End, Capturing
<1> QED
  BY <1>3, <1>6, <1>8, <1>9, TakenOverIsWatched

-------------------------------------------------------------------------------
LEMMA OccupiedStays ==
  ASSUME IInv, Unoccupied, [Next]_vars
  PROVE  Unoccupied'
<1>1. handler \in [Handlers -> HandlerState]
  BY DEF IInv, HandlersAreSound
<1>2. ASSUME NEW h \in Handlers, NEW run, Become(h, run),
             run.step \in {"idle", "insert"} => run.intent = 0
      PROVE  Unoccupied'
  BY <1>1, <1>2 DEF Become, Unoccupied
<1>3. Idle.intent = 0
  BY DEF Idle
<1>4. ASSUME NEW h \in Handlers, Request(h) PROVE Unoccupied'
  <2>1. CASE \E k \in Keys : FindByKey(h, k)
    <3>1. PICK k \in Keys : FindByKey(h, k)
      BY <2>1
    <3>2. [Idle EXCEPT !.step = "insert", !.key = k].intent = 0
      BY DEF Idle
    <3> QED
      BY <1>2, <3>1, <3>2 DEF FindByKey
  <2>2. CASE \E i \in Intents : CaptureReplays(h, i)
    BY <2>2 DEF CaptureReplays, Unoccupied
  <2>3. CASE \E i \in Intents : BeginCapture(h, i) \/ BeginVoid(h, i)
    <3>1. PICK i \in Intents : BeginCapture(h, i) \/ BeginVoid(h, i)
      BY <2>3
    <3>2. /\ [Idle EXCEPT !.step = "charge", !.intent = i, !.ref = nextRef].step = "charge"
          /\ [Idle EXCEPT !.step = "void", !.intent = i].step = "void"
      BY DEF Idle
    <3> QED
      BY <1>2, <3>1, <3>2 DEF BeginCapture, BeginVoid
  <2> QED
    BY <1>4, <2>1, <2>2, <2>3 DEF Request
<1>5. ASSUME NEW h \in Handlers, Serve(h) PROVE Unoccupied'
  <2> DEFINE c == handler[h]
  <2>1. PICK run : Become(h, run) /\ run \in
          {Idle, [c EXCEPT !.step = "record", !.no = Len(attempts[c.intent]) + 1],
           [c EXCEPT !.step = "post", !.tries = @ + 1]}
          \cup {[c EXCEPT !.step = s] : s \in Called}
    BY <1>5 DEF Serve, Insert, InsertFails, Charge, NumberAttempt, RecordAttempt, RecordAttemptFails,
                Decline, Succeed, SendPost, PostFails, PostAnswered, Void, GoOn, End, TryAgain, Called
  <2>2. run = Idle \/ run.step \in Called
    BY <1>1, <2>1 DEF HandlerState, Called
  <2> QED
    BY <1>2, <1>3, <2>1, <2>2 DEF Called
<1>6. CASE Crash
  BY <1>3, <1>6 DEF Crash, Unoccupied
<1>7. CASE (\E p \in posts : PostUnheard(p)) \/ UNCHANGED vars
  BY <1>7 DEF PostUnheard, Unoccupied, vars
<1> QED
  BY <1>4, <1>5, <1>6, <1>7 DEF Next

LEMMA ServeIsWatched ==
  ASSUME IInv, Unoccupied, NEW h \in Handlers, NEW i \in Intents, Watched(i), Serve(h)
  PROVE  Watched(i)'
<1>1. CASE handler[h].intent # i
  BY <1>1, OthersAreBeside, BesideIsWatched DEF OtherRequest
<1>2. CASE handler[h].intent = i
  <2>1. handler[h].step \notin {"idle", "insert"}
    BY <1>2 DEF Unoccupied, Intents
  <2>2. ~Insert(h) /\ ~InsertFails(h)
    BY <2>1 DEF Insert, InsertFails, At
  <2> QED
    BY <1>2, <2>2, ChargeIsWatched, NumberIsWatched, RecordIsWatched, ClosingIsWatched,
       SucceedIsWatched, PostIsWatched DEF Serve
<1> QED
  BY <1>1, <1>2

LEMMA RequestIsWatched ==
  ASSUME IInv, Unoccupied, NEW h \in Handlers, NEW i \in Intents, Watched(i), Request(h),
         i \notin disturbed'
  PROVE  Watched(i)'
<1>a. handler[h].step = "idle"
  BY DEF Request, FindByKey, BeginCapture, CaptureReplays, BeginVoid, At
<1>1. handler[h].intent # i
  BY <1>a DEF Unoccupied, Intents
<1>2. CASE BeginCapture(h, i) \/ BeginVoid(h, i)
  BY <1>2, BeginningIsWatched
<1>3. CASE ~(BeginCapture(h, i) \/ BeginVoid(h, i))
  <2>1. OtherRequest(h, i)
    BY <1>3 DEF Request, OtherRequest
  <2> QED
    BY <1>1, <2>1, OthersAreBeside, BesideIsWatched
<1> QED
  BY <1>2, <1>3

LEMMA UndisturbedStayWatched ==
  ASSUME IInv, Unoccupied, UndisturbedAreWatched, [Next]_vars
  PROVE  UndisturbedAreWatched'
<1> SUFFICES ASSUME NEW i \in Intents, i \notin disturbed'
             PROVE  Watched(i)'
  BY DEF UndisturbedAreWatched
<1>1. disturbed \subseteq disturbed'
  BY DEF Next, Request, Serve, FindByKey, BeginCapture, CaptureReplays, BeginVoid, Disturb,
         Insert, InsertFails, Charge, NumberAttempt, RecordAttempt, RecordAttemptFails,
         Decline, Succeed, SendPost, PostFails, PostAnswered, Void, PostUnheard, Crash, vars
<1>2. Watched(i)
  BY <1>1 DEF UndisturbedAreWatched
<1>3. CASE \E h \in Handlers : Request(h) \/ Serve(h)
  BY <1>2, <1>3, RequestIsWatched, ServeIsWatched
<1>4. CASE \E p \in posts : PostUnheard(p)
  <2>1. Beside(i)
    BY <1>4 DEF PostUnheard, Beside, intentVars, pspVars
  <2> QED
    BY <1>2, <2>1, BesideIsWatched
<1>5. CASE Crash
  <2>1. \A g \in Handlers : handler[g].intent # i /\ handler'[g].intent # i
    BY <1>5 DEF Crash, WorkedOn, Idle, Intents
  <2>2. Beside(i)
    BY <1>5, <2>1 DEF Crash, Beside, intentVars, pspVars, ledgerVars
  <2> QED
    BY <1>2, <2>2, BesideIsWatched
<1>6. CASE UNCHANGED vars
  <2>1. Beside(i)
    BY <1>6 DEF vars, Beside, intentVars, pspVars, ledgerVars
  <2> QED
    BY <1>2, <2>1, BesideIsWatched
<1> QED
  BY <1>3, <1>4, <1>5, <1>6 DEF Next

(* A set whose elements are all the same has at most one. *)
LEMMA AtMostOne ==
  ASSUME NEW S, \A p, q \in S : p = q
  PROVE  Cardinality(S) <= 1
<1>1. CASE S = {}
  BY <1>1, FS_EmptySet
<1>2. CASE S # {}
  <2>1. PICK p \in S : S = {p}
    BY <1>2
  <2>2. Cardinality(S) = 1
    BY <2>1, FS_Singleton
  <2> QED
    BY <2>2
<1> QED
  BY <1>1, <1>2

(* capturePayment.ts, voidPayment.ts and settlementClient.ts:19: as long as  *)
(* no two requests work on an intent at once and no crash cuts one short, it *)
(* is charged at most once, what was answered with 200 is in the ledger or   *)
(* on its way there, every charge is on record and a voided intent is not    *)
(* charged, for any number of requests, retries and lost or late posts.      *)
THEOREM UndisturbedStaysSound == Spec => []UndisturbedIsSound
<1>1. IInv /\ UndisturbedAreWatched => UndisturbedIsSound
  <2> SUFFICES ASSUME IInv, NEW i \in Intents, Watched(i)
               PROVE  /\ Cardinality(Charged(i)) <= 1
                      /\ i \in captured /\ Retries \notin FailingTries
                           => Charged(i) \cap (ledger \cup UnderWay) # {}
                      /\ \A r \in Charged(i) \ Attempted(i) : \E h \in Handlers : handler[h].ref = r
                      /\ status[i] = "voided" => Charged(i) = {}
    BY DEF UndisturbedAreWatched, UndisturbedIsSound
  <2>1. Cardinality(Charged(i)) <= 1
    BY AtMostOne DEF Watched, ChargesInHand
  <2>2. ASSUME i \in captured, Retries \notin FailingTries
        PROVE  Charged(i) \cap (ledger \cup UnderWay) # {}
    <3>1. PICK r \in Charged(i) : Kept(r)
      BY <2>2 DEF Watched, Settled
    <3>2. r \in ledger \cup UnderWay
      BY <3>1 DEF Kept, InHand, UnderWay
    <3> QED
      BY <3>2
  <2>3. \A r \in Charged(i) \ Attempted(i) : \E h \in Handlers : handler[h].ref = r
    BY DEF Watched, ChargesInHand, InHand
  <2>4. status[i] = "voided" => Charged(i) = {}
    BY DEF Watched, ChargesInHand
  <2> QED
    BY <2>1, <2>2, <2>3, <2>4
<1>2. IInv /\ Unoccupied /\ UndisturbedAreWatched /\ [Next]_vars
        => Unoccupied' /\ UndisturbedAreWatched'
  BY OccupiedStays, UndisturbedStayWatched
<1> QED
  BY <1>1, <1>2, NobodyIsDisturbed, Invariant, PTL DEF Spec
====

-------------------------------- MODULE Payments --------------------------------
(***************************************************************************)
(* The payments service: creating, capturing and voiding payment intents   *)
(* in concurrent request handlers, with the PSP, the payment attempts and  *)
(* the ledger entry that goes to the settlement service over HTTP.  Every  *)
(* SQL statement commits by itself and is one action, except the INSERT of *)
(* an attempt, whose SELECT of the highest number comes before.            *)
(*                                                                         *)
(* The idempotency guard around capture has a key that is new in every     *)
(* call (it ends in requestedAt), so it neither waits nor replays and does *)
(* not appear.  The guard around create only takes interleavings away; it  *)
(* is the subject of module Idempotency and does not appear either.        *)
(***************************************************************************)
EXTENDS Naturals, Sequences, FiniteSets

CONSTANTS
  Handlers,     \* concurrent requests
  Keys,         \* idempotency keys of intents, one per order
  Outcomes,     \* what the PSP may answer, {TRUE} when PSP_FAIL_RATE is 0
  Retries,      \* of the ledger post, 3 in the code
  MaxIntents,   \* bound: rows inserted
  MaxCharges,   \* bound: captures that reach the PSP
  FailingTries, \* bound: the attempts to post that may time out or fail
  MaxCrashes,   \* bound: crashes
  NoKey         \* key of an absent row

ASSUME PaymentsAssumption ==
  /\ Outcomes \subseteq BOOLEAN
  /\ NoKey \notin Keys
  /\ Retries \in Nat /\ FailingTries \subseteq 0 .. Retries
  /\ MaxIntents \in Nat /\ MaxCharges \in Nat /\ MaxCrashes \in Nat

Intents == 1 .. MaxIntents
Refs == 1 .. MaxCharges       \* provider references, in the order of requestedAt
Open == {"requires_capture", "processing"}

VARIABLES
  key,         \* payment_intents.idempotency_key
  status,      \* payment_intents.status ("absent": no row)
  nextIntent,  \* next row
  charges,     \* at the PSP: the intent and the outcome of each reference
  nextRef,     \* next reference
  attempts,    \* payment_attempts of an intent, in the order of attempt_no
  ledger,      \* references with a ledger entry in settlement
  posts,       \* ledger posts on their way, <<reference, attempt>>
  handler,     \* what each request handler is doing
  captured,    \* intents whose capture was answered with 200
  disturbed,   \* intents two requests were working on at the same time, or
               \* one when the process died (history)
  crashes

intentVars == <<key, status, nextIntent>>
pspVars == <<charges, nextRef>>
ledgerVars == <<ledger, posts>>
vars == <<intentVars, pspVars, attempts, ledgerVars, handler, captured, disturbed, crashes>>

Idle == [step |-> "idle", intent |-> 0, key |-> NoKey, ref |-> 0, no |-> 0, tries |-> 0]
NoCharge == [intent |-> 0, ok |-> FALSE]

Init ==
  /\ key = [i \in Intents |-> NoKey]
  /\ status = [i \in Intents |-> "absent"]
  /\ nextIntent = 1
  /\ charges = [r \in Refs |-> NoCharge]
  /\ nextRef = 1
  /\ attempts = [i \in Intents |-> <<>>]
  /\ ledger = {} /\ posts = {}
  /\ handler = [h \in Handlers |-> Idle]
  /\ captured = {} /\ disturbed = {}
  /\ crashes = 0

At(h, s) == handler[h].step = s
Become(h, state) == handler' = [handler EXCEPT ![h] = state]
GoOn(h, s) == Become(h, [handler[h] EXCEPT !.step = s])
End(h) == Become(h, Idle)

WorkedOn == Intents \cap {handler[h].intent : h \in Handlers}
Disturb(i) == disturbed' = disturbed \cup ({i} \cap WorkedOn)

-------------------------------------------------------------------------------
(* POST /intents *)

(* findByIdempotencyKey finds nothing; otherwise its row is the answer. *)
FindByKey(h, k) ==
  /\ At(h, "idle")
  /\ \A i \in Intents : key[i] # k
  /\ Become(h, [Idle EXCEPT !.step = "insert", !.key = k])
  /\ UNCHANGED <<intentVars, pspVars, attempts, ledgerVars, captured, disturbed, crashes>>

(* Mutated form: a table without the unique index. *)
InsertAgain(h) ==
  /\ At(h, "insert") /\ nextIntent \in Intents
  /\ key' = [key EXCEPT ![nextIntent] = handler[h].key]
  /\ status' = [status EXCEPT ![nextIntent] = "requires_capture"]
  /\ nextIntent' = nextIntent + 1
  /\ End(h)
  /\ UNCHANGED <<pspVars, attempts, ledgerVars, captured, disturbed, crashes>>

Insert(h) ==
  /\ At(h, "insert") /\ nextIntent \in Intents
  /\ \A i \in Intents : key[i] # handler[h].key
  /\ key' = [key EXCEPT ![nextIntent] = handler[h].key]
  /\ status' = [status EXCEPT ![nextIntent] = "requires_capture"]
  /\ nextIntent' = nextIntent + 1
  /\ End(h)
  /\ UNCHANGED <<pspVars, attempts, ledgerVars, captured, disturbed, crashes>>

(* The unique index on idempotency_key refuses the row: 500. *)
InsertFails(h) ==
  /\ At(h, "insert")
  /\ \E i \in Intents : key[i] = handler[h].key
  /\ End(h)
  /\ UNCHANGED <<intentVars, pspVars, attempts, ledgerVars, captured, disturbed, crashes>>

-------------------------------------------------------------------------------
(* POST /intents/:id/capture *)

(* findById of an intent that can be captured; 404 and 409 change nothing. *)
BeginCapture(h, i) ==
  /\ At(h, "idle")
  /\ status[i] \in Open /\ nextRef \in Refs
  /\ nextRef' = nextRef + 1
  /\ Become(h, [Idle EXCEPT !.step = "charge", !.intent = i, !.ref = nextRef])
  /\ Disturb(i)
  /\ UNCHANGED <<intentVars, charges, attempts, ledgerVars, captured, crashes>>

(* The intent has succeeded already: it is the answer. *)
CaptureReplays(h, i) ==
  /\ At(h, "idle")
  /\ status[i] = "succeeded"
  /\ captured' = captured \cup {i}
  /\ UNCHANGED <<intentVars, pspVars, attempts, ledgerVars, handler, disturbed, crashes>>

(* provider.capture: the reference, and so the charge, is new each time. *)
Charge(h) ==
  /\ At(h, "charge")
  /\ \E ok \in Outcomes :
       charges' = [charges EXCEPT ![handler[h].ref] = [intent |-> handler[h].intent, ok |-> ok]]
  /\ GoOn(h, "number")
  /\ UNCHANGED <<intentVars, nextRef, attempts, ledgerVars, captured, disturbed, crashes>>

(* MAX(attempt_no) + 1 in the snapshot of attempts.record. *)
NumberAttempt(h) ==
  /\ At(h, "number")
  /\ Become(h, [handler[h] EXCEPT !.step = "record", !.no = Len(attempts[handler[h].intent]) + 1])
  /\ UNCHANGED <<intentVars, pspVars, attempts, ledgerVars, captured, disturbed, crashes>>

Ok(h) == charges[handler[h].ref].ok

(* Mutated form: a declined charge goes on like an accepted one. *)
RecordAttemptAsOk(h) ==
  /\ At(h, "record")
  /\ Len(attempts[handler[h].intent]) < handler[h].no
  /\ attempts' = [attempts EXCEPT ![handler[h].intent] = Append(@, handler[h].ref)]
  /\ GoOn(h, "succeed")
  /\ UNCHANGED <<intentVars, pspVars, ledgerVars, captured, disturbed, crashes>>

(* The INSERT of the attempt. *)
RecordAttempt(h) ==
  /\ At(h, "record")
  /\ Len(attempts[handler[h].intent]) < handler[h].no
  /\ attempts' = [attempts EXCEPT ![handler[h].intent] = Append(@, handler[h].ref)]
  /\ GoOn(h, IF Ok(h) THEN "succeed" ELSE "decline")
  /\ UNCHANGED <<intentVars, pspVars, ledgerVars, captured, disturbed, crashes>>

(* Another attempt took the number since: unique violation, 500. *)
RecordAttemptFails(h) ==
  /\ At(h, "record")
  /\ Len(attempts[handler[h].intent]) >= handler[h].no
  /\ End(h)
  /\ UNCHANGED <<intentVars, pspVars, attempts, ledgerVars, captured, disturbed, crashes>>

(* Mutated form: an UPDATE whatever the status is. *)
UpdateStatusBlindly(i, to) == status' = [status EXCEPT ![i] = to]

(* updateStatus(id, ["requires_capture", "processing"], to). *)
UpdateStatus(i, to) ==
  IF status[i] \in Open THEN status' = [status EXCEPT ![i] = to] ELSE UNCHANGED status

(* The charge was declined: failed, if still open, and 402. *)
Decline(h) ==
  /\ At(h, "decline")
  /\ UpdateStatus(handler[h].intent, "failed")
  /\ End(h)
  /\ UNCHANGED <<key, nextIntent, pspVars, attempts, ledgerVars, captured, disturbed, crashes>>

(* Succeeded, if still open; the capture goes on either way. *)
Succeed(h) ==
  /\ At(h, "succeed")
  /\ UpdateStatus(handler[h].intent, "succeeded")
  /\ GoOn(h, "post")
  /\ UNCHANGED <<key, nextIntent, pspVars, attempts, ledgerVars, captured, disturbed, crashes>>

-------------------------------------------------------------------------------
(* postLedgerEntry: POST /ledger/entries with retries *)

SendPost(h) ==
  /\ At(h, "post")
  /\ posts' = posts \cup {<<handler[h].ref, handler[h].tries>>}
  /\ GoOn(h, "await")
  /\ UNCHANGED <<intentVars, pspVars, attempts, ledger, captured, disturbed, crashes>>

Awaits(h, p) == At(h, "await") /\ p = <<handler[h].ref, handler[h].tries>>

(* settlement inserts the entry, or finds it, and the answer arrives: 200. *)
PostAnswered(h, p) ==
  /\ p \in posts /\ Awaits(h, p)
  /\ posts' = posts \ {p}
  /\ ledger' = ledger \cup {p[1]}
  /\ captured' = captured \cup {handler[h].intent}
  /\ End(h)
  /\ UNCHANGED <<intentVars, pspVars, attempts, disturbed, crashes>>

(* settlement does so, and nobody hears of it (any more). *)
PostUnheard(p) ==
  /\ p \in posts
  /\ p[2] \in FailingTries \/ \A h \in Handlers : ~Awaits(h, p)
  /\ posts' = posts \ {p}
  /\ ledger' = ledger \cup {p[1]}
  /\ UNCHANGED <<intentVars, pspVars, attempts, handler, captured, disturbed, crashes>>

(* One more attempt of withRetry. *)
TryAgain(h) ==
  Become(h, [handler[h] EXCEPT !.step = "post", !.tries = @ + 1])

(* Mutated form: answers 200 although the ledger post failed. *)
PostFailsSilently(h) ==
  /\ At(h, "await") /\ handler[h].tries \in FailingTries
  /\ posts' \in {posts, posts \ {<<handler[h].ref, handler[h].tries>>}}
  /\ captured' = captured \cup {handler[h].intent}
  /\ End(h)
  /\ UNCHANGED <<intentVars, pspVars, attempts, ledger, disturbed, crashes>>

(* The post is refused or lost, or times out while it is still on its way: *)
(* again, or LEDGER_POST_FAILED at the last.                               *)
PostFails(h) ==
  /\ At(h, "await") /\ handler[h].tries \in FailingTries
  /\ posts' \in {posts, posts \ {<<handler[h].ref, handler[h].tries>>}}
  /\ IF handler[h].tries < Retries THEN TryAgain(h) ELSE End(h)
  /\ UNCHANGED <<intentVars, pspVars, attempts, ledger, captured, disturbed, crashes>>

-------------------------------------------------------------------------------
(* POST /intents/:id/void *)

(* findById; a voided intent is the answer, an unknown one a 404. *)
BeginVoid(h, i) ==
  /\ At(h, "idle")
  /\ status[i] \notin {"absent", "voided"}
  /\ Become(h, [Idle EXCEPT !.step = "void", !.intent = i])
  /\ Disturb(i)
  /\ UNCHANGED <<intentVars, pspVars, attempts, ledgerVars, captured, crashes>>

(* updateStatus; without a row it is 409. *)
Void(h) ==
  /\ At(h, "void")
  /\ UpdateStatus(handler[h].intent, "voided")
  /\ End(h)
  /\ UNCHANGED <<key, nextIntent, pspVars, attempts, ledgerVars, captured, disturbed, crashes>>

-------------------------------------------------------------------------------
(* The process dies; posts that were sent may still arrive. *)
Crash ==
  /\ crashes < MaxCrashes
  /\ crashes' = crashes + 1
  /\ handler' = [h \in Handlers |-> Idle]
  /\ disturbed' = disturbed \cup WorkedOn
  /\ UNCHANGED <<intentVars, pspVars, attempts, ledgerVars, captured>>

Request(h) ==
  \/ \E k \in Keys : FindByKey(h, k)
  \/ \E i \in Intents : BeginCapture(h, i) \/ CaptureReplays(h, i) \/ BeginVoid(h, i)

(* The next step of a request that is being served. *)
Serve(h) ==
  \/ Insert(h) \/ InsertFails(h)
  \/ Charge(h) \/ NumberAttempt(h) \/ RecordAttempt(h) \/ RecordAttemptFails(h)
  \/ Decline(h) \/ Succeed(h) \/ SendPost(h) \/ PostFails(h)
  \/ \E p \in posts : PostAnswered(h, p)
  \/ Void(h)

Next ==
  \/ \E h \in Handlers : Request(h) \/ Serve(h)
  \/ \E p \in posts : PostUnheard(p)
  \/ Crash

Spec == Init /\ [][Next]_vars

-------------------------------------------------------------------------------
Steps == {"idle", "insert", "charge", "number", "record", "decline", "succeed", "post",
          "await", "void"}

TypeOK ==
  /\ key \in [Intents -> Keys \cup {NoKey}]
  /\ status \in [Intents -> {"absent", "succeeded", "failed", "voided"} \cup Open]
  /\ nextIntent \in Nat \ {0}
  /\ charges \in [Refs -> [intent : {0} \cup Intents, ok : BOOLEAN]]
  /\ nextRef \in Nat \ {0}
  /\ attempts \in [Intents -> Seq(Refs)]
  /\ ledger \subseteq Refs
  /\ posts \subseteq Refs \X (0 .. Retries)
  /\ handler \in [Handlers -> [step : Steps, intent : {0} \cup Intents,
                               key : Keys \cup {NoKey}, ref : {0} \cup Refs,
                               no : Nat, tries : 0 .. Retries]]
  /\ captured \subseteq Intents /\ disturbed \subseteq Intents
  /\ crashes \in Nat

Charged(i) == {r \in Refs : charges[r].intent = i /\ charges[r].ok}
Attempted(i) == {attempts[i][n] : n \in DOMAIN attempts[i]}

(* The references a request is still working on, or whose post is on its   *)
(* way.                                                                    *)
UnderWay == {handler[h].ref : h \in Handlers} \cup {p[1] : p \in posts}

(* However often an order asks for its intent, it has one. *)
OneIntentPerKey ==
  \A i, j \in Intents : key[i] = key[j] /\ key[i] # NoKey => i = j

(* Captures and voids race on a status that each has read before: whoever  *)
(* comes first, an intent never leaves a final status.                     *)
FinalStatus ==
  [][\A i \in Intents :
       status[i] \in {"succeeded", "failed", "voided"} => status'[i] = status[i]]_vars

(* The ledger has an entry only for a charge the PSP accepted and whose    *)
(* attempt is on record, although posts are retried and arrive late        *)
(* (settlementClient.ts:19), and an intent counts as paid only if such a   *)
(* charge was made, whichever of several captures wrote its status last.   *)
MoneyIsAccounted ==
  /\ \A r \in ledger : charges[r].ok /\ r \in Attempted(charges[r].intent)
  /\ \A i \in Intents : status[i] = "succeeded" => Charged(i) \cap Attempted(i) # {}

(* docs/contracts.md:176, "Idempotent per idempotencyKey", and the alert   *)
(* duplicate_charge (:248): capturing an intent again charges nothing.     *)
ChargedOnce == \A i \in Intents : Cardinality(Charged(i)) <= 1

(* What holds instead: an intent is charged twice, charged and answered    *)
(* with 200 but without a ledger entry there or on its way (provided the   *)
(* last attempt to post succeeds), charged without an attempt on record,   *)
(* or voided although charged, only if two of its requests overlapped or a *)
(* crash cut one short; not because of repeated captures, refused charges  *)
(* or posts that fail and arrive late.  docs/contracts.md:174: capture     *)
(* "calls the PSP provider module, records a payment_attempt, posts a      *)
(* `charge` ledger entry to settlement on success".                        *)
UndisturbedIsSound ==
  \A i \in Intents \ disturbed :
    /\ Cardinality(Charged(i)) <= 1
    /\ i \in captured /\ Retries \notin FailingTries => Charged(i) \cap (ledger \cup UnderWay) # {}
    /\ \A r \in Charged(i) \ Attempted(i) : \E h \in Handlers : handler[h].ref = r
    /\ status[i] = "voided" => Charged(i) = {}
===============================================================================

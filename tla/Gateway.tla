-------------------------------- MODULE Gateway --------------------------------
(***************************************************************************)
(* One request of a client on its way through the gateway: api key, rate   *)
(* limit, and the call of the service behind it, which is made again when  *)
(* it is a GET and no answer came.  An attempt that is given up may still  *)
(* be carried out by the service, later; Redis and the gateway may restart. *)
(*                                                                         *)
(* What the services do is left to them: an attempt they get is carried    *)
(* out or rejected.  When the limit is reached depends on everybody who    *)
(* has the key, and is a matter of chance here (see RateLimit).            *)
(***************************************************************************)
EXTENDS Naturals, FiniteSets

CONSTANTS
  Slots,     \* requests at the gateway at the same time
  Retries,   \* how often a GET is repeated
  MaxTrouble \* how often something goes wrong

ASSUME GatewayAssumption == Retries \in Nat /\ MaxTrouble \in Nat

VARIABLES
  keyed,  \* whether Redis has the set of api keys
  call,   \* the request of each slot
  trouble \* what has gone wrong so far

gatewayVars == <<keyed, call, trouble>>

Methods == {"GET", "POST", "PATCH", "DELETE"}
Refusals == {"401", "429", "500"}
Answers == Refusals \cup {"ok", "rejected", "failed", "502", "504"}
InHandler == {"arrived", "known", "forward", "upstream", "carried"}

Free == [at |-> "free", method |-> "GET", attempts |-> 0, late |-> 0, carried |-> 0,
         answer |-> "none"]

GatewayInit == keyed = TRUE /\ call = [s \in Slots |-> Free] /\ trouble = 0

Goes(s, next) == call' = [call EXCEPT ![s] = next]

Answered(s, answer) == [call[s] EXCEPT !.at = "answered", !.answer = answer]

Trouble == trouble < MaxTrouble /\ trouble' = trouble + 1

Calm == UNCHANGED trouble

(* app.ts: the request reaches the handlers of /api. *)
Arrive(s, method) ==
  /\ call[s].at = "free"
  /\ Goes(s, [Free EXCEPT !.at = "arrived", !.method = method])

(* sismember of the set of keys. *)
HasKey == keyed

(* 401 when Redis does not know the key, 500 when it does not answer. *)
Authenticate(s) ==
  /\ call[s].at = "arrived"
  /\ \/ HasKey /\ Goes(s, [call[s] EXCEPT !.at = "known"]) /\ Calm
     \/ ~HasKey /\ Goes(s, Answered(s, "401")) /\ Calm
     \/ Goes(s, Answered(s, "500")) /\ Trouble
  /\ UNCHANGED keyed

(* 429 above the limit. *)
LimitRate(s) ==
  /\ call[s].at = "known"
  /\ \/ Goes(s, [call[s] EXCEPT !.at = "forward"]) /\ Calm
     \/ \E refusal \in {"429", "500"} : Goes(s, Answered(s, refusal)) /\ Trouble
  /\ UNCHANGED keyed

(* forwardOnce: the service gets the request. *)
Forward(s) ==
  /\ call[s].at = "forward"
  /\ Goes(s, [call[s] EXCEPT !.at = "upstream", !.attempts = @ + 1])
  /\ Calm /\ UNCHANGED keyed

(* Mutated form: every request is repeated, not only a GET. *)
RepeatAll(c) == c.attempts < Retries + 1

(* jsonProxyClient.ts:28-36. *)
MayRepeat(c) == c.method = "GET" /\ c.attempts < Retries + 1

(* withRetry, and what forward makes of the last error. *)
Again(s, next, answer) ==
  Goes(s, IF MayRepeat(next) THEN [next EXCEPT !.at = "forward"]
          ELSE [next EXCEPT !.at = "answered", !.answer = answer])

(* It does not: no connection. *)
NoConnection(s) ==
  /\ call[s].at = "forward"
  /\ Again(s, [call[s] EXCEPT !.attempts = @ + 1], "502")
  /\ Trouble /\ UNCHANGED keyed

(* The service carries it out, or rejects it; whatever it says is passed on. *)
Carry(s) ==
  /\ call[s].at = "upstream"
  /\ Goes(s, [call[s] EXCEPT !.at = "carried", !.carried = @ + 1])
  /\ Calm /\ UNCHANGED keyed

Reject(s) ==
  /\ call[s].at = "upstream"
  /\ Goes(s, Answered(s, "rejected"))
  /\ Trouble /\ UNCHANGED keyed

(* Done; or the service failed after it had done the part that matters.     *)
Respond(s) ==
  /\ call[s].at = "carried"
  /\ \/ Goes(s, Answered(s, "ok")) /\ Calm
     \/ Goes(s, Answered(s, "failed")) /\ Trouble
  /\ UNCHANGED keyed

(* A service that was not done when the gateway stopped waiting for it goes *)
(* on by itself.  A read that comes late changes nothing.                   *)
GivenUp(c) ==
  IF c.at = "upstream" /\ c.method # "GET" THEN [c EXCEPT !.late = @ + 1] ELSE c

(* 5 s are over (504), or the connection breaks (502). *)
GiveUp(s) ==
  /\ call[s].at \in {"upstream", "carried"}
  /\ \E answer \in {"502", "504"} : Again(s, GivenUp(call[s]), answer)
  /\ Trouble /\ UNCHANGED keyed

CarryLate(s) ==
  /\ call[s].late > 0
  /\ Goes(s, [call[s] EXCEPT !.late = @ - 1, !.carried = @ + 1])
  /\ Calm /\ UNCHANGED keyed

(* Or it never does. *)
NeverMind(s) ==
  /\ call[s].late > 0
  /\ Goes(s, [call[s] EXCEPT !.late = @ - 1])
  /\ Calm /\ UNCHANGED keyed

(* The set is deleted and filled in one script. *)
SeedKeys == keyed' = TRUE

(* The gateway dies and is started again: the handlers are lost, the keys   *)
(* are put into Redis.                                                      *)
RestartGateway ==
  /\ call' = [s \in Slots |->
                IF call[s].at \in InHandler THEN [GivenUp(call[s]) EXCEPT !.at = "lost"]
                ELSE call[s]]
  /\ SeedKeys
  /\ Trouble

(* Redis keeps nothing (docker-compose.yml:23). *)
RestartRedis == keyed /\ keyed' = FALSE /\ Trouble /\ UNCHANGED call

HandlerStep(s) == Authenticate(s) \/ LimitRate(s) \/ Forward(s) \/ Carry(s) \/ Respond(s)

GatewayStep(s) ==
  \/ HandlerStep(s) \/ NoConnection(s) \/ Reject(s) \/ GiveUp(s) \/ CarryLate(s) \/ NeverMind(s)

(* The client has its answer, or does not want it any more. *)
Leave(s) == call[s].at \in {"answered", "lost"} /\ call[s].late = 0 /\ Goes(s, Free)

GatewayNext ==
  \/ \E s \in Slots : \/ GatewayStep(s)
                      \/ (\E m \in Methods : Arrive(s, m)) /\ UNCHANGED <<keyed, trouble>>
                      \/ Leave(s) /\ UNCHANGED <<keyed, trouble>>
  \/ RestartGateway \/ RestartRedis

GatewaySpec == GatewayInit /\ [][GatewayNext]_gatewayVars

-------------------------------------------------------------------------------
GatewayTypeOK ==
  /\ keyed \in BOOLEAN /\ trouble \in 0 .. MaxTrouble
  /\ call \in [Slots -> [at : {"free", "answered", "lost"} \cup InHandler, method : Methods,
                         attempts : 0 .. Retries + 1, late : 0 .. Retries + 1,
                         carried : 0 .. Retries + 1, answer : Answers \cup {"none"}]]

(* jsonProxyClient.ts:26-54 and the middlewares: whatever restarts, breaks  *)
(* off or comes late, a write reaches the service at most once and a read   *)
(* as often as it is repeated; a request that was refused has not reached   *)
(* it; and an answer of success is of a request that was carried out.       *)
AnswersAreHonest ==
  \A s \in Slots :
    LET c == call[s]
    IN  /\ c.carried + c.late + (IF c.at = "upstream" THEN 1 ELSE 0)
             <= (IF c.method = "GET" THEN Retries + 1 ELSE 1)
        /\ c.answer \in Refusals => c.carried + c.late = 0
        /\ c.answer = "rejected" /\ c.method # "GET" => c.carried + c.late = 0
        /\ c.answer = "ok" => c.carried > 0
===============================================================================

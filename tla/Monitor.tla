-------------------------------- MODULE Monitor --------------------------------
(***************************************************************************)
(* The synthetic monitor: a scheduler that runs scenarios through the      *)
(* gateway, each on a timer, all timers with the same interval and a fixed *)
(* order.  A scenario is a list of stages; the calls of a stage are made   *)
(* at once and awaited together, and the first that throws ends the        *)
(* scenario while the others are still on their way.  A call throws when   *)
(* its 2.5 s are over or the gateway is not there; an answer that is not   *)
(* ok is an alert.  The process may end between any two steps, on a signal *)
(* or by dying; its runs end with it, and it is started again.             *)
(*                                                                         *)
(* Of what the services keep, the model has the price rules the mutation   *)
(* scenario creates and deletes.                                           *)
(***************************************************************************)
EXTENDS Gateway, Sequences

CONSTANTS
  Parallel,     \* calls of a stage that makes several at once
  ClientTries,  \* how often a GET is sent to the gateway
  MaxFires      \* timers that go off

ASSUME MonitorAssumption ==
  /\ Parallel \in Nat \ {0} /\ ClientTries \in Nat \ {0} /\ MaxFires \in Nat
  /\ IsFiniteSet(Slots)

Nobody == "nobody"

Stage(method, calls) == [method |-> method, calls |-> calls]

BrowseCatalog == <<Stage("GET", 1), Stage("GET", Parallel)>>
PriceLookup == <<Stage("GET", 1)>>
OrderBurst == <<Stage("POST", Parallel), Stage("GET", 1)>>
PriceRuleMutation == <<Stage("POST", 1), Stage("GET", 1), Stage("DELETE", 1)>>
PaymentRetryStorm == <<Stage("POST", 1), Stage("POST", Parallel)>>
Cancellations == <<Stage("POST", 1), Stage("POST", 1)>>
SettlementReport == <<Stage("GET", 1)>>

(* The scenarios in the order of their timers. *)
Scenarios == <<"browse-catalog", "price-lookup", "order-burst", "price-rule-mutation",
               "payment-retry-storm", "cancellations", "settlement-report">>

Script(scenario) ==
  CASE scenario = "browse-catalog" -> BrowseCatalog
    [] scenario = "price-lookup" -> PriceLookup
    [] scenario = "order-burst" -> OrderBurst
    [] scenario = "price-rule-mutation" -> PriceRuleMutation
    [] scenario = "payment-retry-storm" -> PaymentRetryStorm
    [] scenario = "cancellations" -> Cancellations
    [] scenario = "settlement-report" -> SettlementReport

(* Where an answer that is an alert does not end the scenario. *)
GoesOn(scenario, stage) ==
  \/ scenario = "order-burst"
  \/ scenario = "price-rule-mutation" /\ stage = 2

VARIABLES
  schedule, \* the scenarios that are scheduled, in the order of their timers
  due,      \* the timer that goes off next
  fires,    \* timers that went off
  stage,    \* for each scenario that runs, the stage it awaits; 0 when it does not run
  client,   \* for each slot, the scenario that awaits it, and how often it has sent it
  alerts,   \* for each scenario, the runs that have alerted
  alerted,  \* whether the run at work has
  rules,    \* price rules the mutation scenario has created and not deleted
  interrupted \* history: its runs that the monitor's end cut short before they alerted

monitorVars == <<schedule, due, fires, stage, client, alerts, alerted, rules, interrupted>>
trafficVars == <<gatewayVars, monitorVars>>

Names == {Scenarios[i] : i \in DOMAIN Scenarios}

NoClient == [by |-> Nobody, tries |-> 0, is |-> "gone"]

MonitorInit(schedules) ==
  /\ schedule \in schedules
  /\ due = 1 /\ fires = 0
  /\ stage = [n \in Names |-> 0]
  /\ client = [s \in Slots |-> NoClient]
  /\ alerts = [n \in Names |-> 0] /\ alerted = [n \in Names |-> FALSE]
  /\ rules = 0 /\ interrupted = 0

Running(n) == stage[n] > 0

(* The slots whose calls the scenario awaits. *)
Awaited(n) == {s \in Slots : client[s].by = n /\ client[s].is = "awaited"}

FreeSlots == {s \in Slots : call[s].at = "free"}

(* What is left of a call of the scenario when its answer has been read: a  *)
(* service that has not got to it yet.                                      *)
Over(s, n) == s \in Awaited(n) /\ call[s].at = "answered"
Kept(s, n) == IF Over(s, n) /\ call[s].late = 0 THEN Free ELSE call[s]
Heard(s, n) ==
  IF ~Over(s, n) THEN client[s]
  ELSE IF call[s].late = 0 THEN NoClient ELSE [client[s] EXCEPT !.is = "gone"]

(* The calls of a stage are sent; which slots they take makes no difference. *)
SendStage(n, which) ==
  LET calls == Script(n)[which].calls
      slots == CHOOSE some \in SUBSET FreeSlots : Cardinality(some) = calls
  IN  /\ Cardinality(FreeSlots) >= calls
      /\ call' = [s \in Slots |->
                    IF s \in slots
                      THEN [Free EXCEPT !.at = "arrived", !.method = Script(n)[which].method]
                      ELSE Kept(s, n)]
      /\ client' = [s \in Slots |->
                      IF s \in slots THEN [by |-> n, tries |-> 1, is |-> "awaited"]
                      ELSE Heard(s, n)]
      /\ stage' = [stage EXCEPT ![n] = which]

(* Mutated form: the scheduler forgets to look whether it still runs. *)
MayAlwaysStart(n) == TRUE

(* runScenario: not while the last run of the scenario is at work. *)
MayStart(n) == ~Running(n)

Fire(n) ==
  /\ fires < MaxFires /\ fires' = fires + 1
  /\ schedule[due] = n
  /\ due' = (due % Len(schedule)) + 1
  /\ IF MayStart(n)
       THEN SendStage(n, 1) /\ alerted' = [alerted EXCEPT ![n] = FALSE]
       ELSE UNCHANGED <<call, client, stage, alerted>>
  /\ UNCHANGED <<keyed, trouble, schedule, alerts, rules, interrupted>>

(* The first alert of a run counts. *)
Alert(n, raised) ==
  /\ alerted' = [alerted EXCEPT ![n] = @ \/ raised]
  /\ alerts' = [alerts EXCEPT ![n] = IF raised /\ ~alerted[n] THEN @ + 1 ELSE @]

(* Mutated form: the statuses of a gateway that waited in vain are allowed. *)
IsErrorOfService(answer) == answer \notin {"ok", "502", "504"}

(* alertOnHttpError: no scenario allows a status the model has. *)
IsError(answer) == answer # "ok"

(* Every call of the stage has its answer, and each that is not ok is an    *)
(* alert; then the next stage, or the end.                                  *)
StageOver(n) ==
  LET bad == \E s \in Awaited(n) : IsError(call[s].answer)
      more == stage[n] < Len(Script(n)) /\ (bad => GoesOn(n, stage[n]))
  IN  /\ Running(n) /\ Awaited(n) # {}
      /\ \A s \in Awaited(n) : call[s].at = "answered"
      /\ Alert(n, bad)
      /\ IF more
           THEN SendStage(n, stage[n] + 1)
           ELSE /\ call' = [s \in Slots |-> Kept(s, n)]
                /\ client' = [s \in Slots |-> Heard(s, n)]
                /\ stage' = [stage EXCEPT ![n] = 0]
      /\ UNCHANGED <<keyed, trouble, schedule, due, fires, rules, interrupted>>

(* Mutated form: an error does not take the scenario out of the running ones. *)
StopRunningOnSuccess(n) == stage' = stage

(* The finally of runScenario. *)
StopRunning(n) == stage' = [stage EXCEPT ![n] = 0]

(* The call in slot s throws: its scenario ends with an alert, and the      *)
(* other calls of its stage go on with nobody to hear their answers.        *)
Throw(s) ==
  LET n == client[s].by
  IN  IF client[s].is = "awaited"
        THEN /\ client' = [t \in Slots |->
                            IF t = s THEN [client[t] EXCEPT !.is = "gone"]
                            ELSE IF t \in Awaited(n) THEN [client[t] EXCEPT !.is = "orphan"]
                            ELSE client[t]]
             /\ StopRunning(n) /\ Alert(n, TRUE)
        ELSE /\ client' = [client EXCEPT ![s].is = "gone"]
             /\ UNCHANGED <<stage, alerts, alerted>>

(* The gateway was not there, or went away: a GET is sent again. *)
ClientLost(s) ==
  /\ client[s].is # "gone" /\ call[s].at = "lost"
  /\ IF call[s].method = "GET" /\ client[s].tries < ClientTries
       THEN /\ call' = [call EXCEPT ![s] = [Free EXCEPT !.at = "arrived"]]
            /\ client' = [client EXCEPT ![s].tries = @ + 1]
            /\ UNCHANGED <<stage, alerts, alerted>>
       ELSE Throw(s) /\ UNCHANGED call
  /\ UNCHANGED <<keyed, trouble, schedule, due, fires, rules, interrupted>>

(* gatewayClient.ts:43: 2.5 s are over; the gateway goes on with its part. *)
ClientAborts(s) ==
  /\ client[s].is # "gone" /\ call[s].at \in InHandler
  /\ Trouble
  /\ Throw(s)
  /\ UNCHANGED <<keyed, call, schedule, due, fires, rules, interrupted>>

(* Nobody awaits the answer, or has to.  An orphan of browse-catalog still  *)
(* alerts when it is not ok, for a run that has alerted before.             *)
Forget(s) ==
  /\ client[s].is # "awaited" /\ (client[s].is = "orphan" => call[s].at = "answered")
  /\ Leave(s)
  /\ client' = [client EXCEPT ![s] = NoClient]
  /\ UNCHANGED <<keyed, trouble, schedule, due, fires, stage, alerts, alerted, rules, interrupted>>

(* SIGTERM, SIGINT or a crash: nobody waits for the scenario at work, nor   *)
(* for what it has to clean up.  The gateway goes on with the calls; Docker *)
(* starts the monitor again (docker-compose.yml:149).                       *)
RestartMonitor ==
  /\ Trouble
  /\ due' = 1 /\ stage' = [n \in Names |-> 0]
  /\ client' = [s \in Slots |-> [client[s] EXCEPT !.is = "gone"]]
  /\ interrupted' = interrupted + (IF Running("price-rule-mutation")
                                       /\ ~alerted["price-rule-mutation"] THEN 1 ELSE 0)
  /\ UNCHANGED <<keyed, call, schedule, fires, alerts, alerted, rules>>

(* A step of the gateway and the services: what is carried out of the       *)
(* mutation scenario creates or deletes a rule.                             *)
Work(s) ==
  LET carriedNow == call'[s].carried > call[s].carried /\ client[s].by = "price-rule-mutation"
  IN  /\ GatewayStep(s)
      /\ rules' = IF carriedNow /\ call[s].method = "POST" THEN rules + 1
                  ELSE IF carriedNow /\ call[s].method = "DELETE" THEN rules - 1
                  ELSE rules
      /\ UNCHANGED <<schedule, due, fires, stage, client, alerts, alerted, interrupted>>

TrafficNext ==
  \/ \E n \in Names : Fire(n) \/ StageOver(n)
  \/ \E s \in Slots : Work(s) \/ ClientLost(s) \/ ClientAborts(s) \/ Forget(s)
  \/ (RestartGateway \/ RestartRedis) /\ UNCHANGED monitorVars
  \/ RestartMonitor

(* Whatever the timers are, and their order. *)
TrafficSpec ==
  GatewayInit /\ MonitorInit(Seq(Names) \ {<<>>}) /\ [][TrafficNext]_trafficVars

(* The gateway's handlers go on, the client hears of what became of its     *)
(* call, and what a stage waited for is followed by the next one.  Nothing  *)
(* has to go wrong to make it end.                                          *)
TrafficFairness ==
  /\ \A s \in Slots : WF_trafficVars(Work(s) \/ ClientLost(s) \/ Forget(s))
  /\ \A n \in Names : WF_trafficVars(StageOver(n))

-------------------------------------------------------------------------------
TrafficTypeOK ==
  /\ GatewayTypeOK
  /\ schedule \in Seq(Names) /\ due \in 1 .. Len(schedule) /\ fires \in 0 .. MaxFires
  /\ stage \in [Names -> 0 .. 3]
  /\ client \in [Slots -> [by : Names \cup {Nobody}, tries : 0 .. ClientTries,
                           is : {"awaited", "orphan", "gone"}]]
  /\ alerts \in [Names -> 0 .. MaxFires] /\ alerted \in [Names -> BOOLEAN]
  /\ rules \in 0 .. MaxFires /\ interrupted \in 0 .. MaxTrouble

(* priceRuleMutation.ts:14-41 and shutdown in index.ts:38-45: a rule that   *)
(* is left behind (it would price the product until 2027) belongs to a run  *)
(* that has alerted, however late the rule was created and whatever came    *)
(* after, or to one that the end of the monitor cut short; no other way out *)
(* of the scenario hides it.                                                *)
LeftoverRulesAreAlerted ==
  rules <= alerts["price-rule-mutation"] + interrupted
             + (IF Running("price-rule-mutation") THEN 1 ELSE 0)

(* scheduler.ts:21-40: the calls a scenario awaits are those of one stage   *)
(* of one run; a call of an earlier run is still on its way only if that    *)
(* run made several at once and alerted.                                    *)
CallsBelongToTheirRun ==
  \A n \in Names :
    /\ IF Running(n)
         THEN /\ Cardinality(Awaited(n)) = Script(n)[stage[n]].calls
              /\ \A s \in Awaited(n) : call[s].method = Script(n)[stage[n]].method
         ELSE Awaited(n) = {}
    /\ (\E s \in Slots : client[s].by = n /\ client[s].is = "orphan") =>
         alerts[n] > 0 /\ \E i \in DOMAIN Script(n) : Script(n)[i].calls > 1

(* Timers go off a bounded number of times.  Then every scenario ends, with *)
(* what it was for or with an error, and its timer would find it ready to   *)
(* run (scheduler.ts:27-39).                                                *)
ScenariosEnd == <>[](\A n \in Names : ~Running(n))
===============================================================================

------------------------------ MODULE MCFunctions ------------------------------
(***************************************************************************)
(* Enumerates small calls of the pure functions of inventory, catalog and *)
(* the gateway, one call per behaviour.                                    *)
(***************************************************************************)
EXTENDS Allocation, Pricing, RateLimit

CONSTANTS
  MaxAvailable,  \* largest |on_hand - reserved| of a candidate row
  MaxQty,        \* largest quantity of a line
  MaxLines,      \* largest number of lines in a request
  MaxBase,       \* largest base price
  Values,        \* values of rules, by type
  Rates,         \* exchange rates, quotients
  MaxRules,      \* largest number of active rules
  MaxRequests,   \* largest number of requests with a key
  Horizon        \* ticks in which they come

(* What priceRuleSchemas.ts lets through; a rate of 0 is a failed lookup. *)
ASSUME FunctionsAssumption ==
  /\ MaxAvailable \in Nat /\ MaxQty \in Nat /\ MaxLines \in Nat /\ MaxBase \in Nat
  /\ MaxRules \in Nat /\ MaxRequests \in Nat /\ Horizon \in Nat
  /\ DOMAIN Values = {"percent_off", "fixed_off", "override"}
  /\ Values["percent_off"] \subseteq 0 .. BasisPoints
  /\ Values["fixed_off"] \subseteq Nat /\ Values["override"] \subseteq Nat \ {0}
  /\ Rates \subseteq Nat \X (Nat \ {0})

RuleValues ==
  [percent_off |-> {0, 1500, 3333, 5000, 9999, 10000}, fixed_off |-> {0, 5, 30},
   override |-> {1, 30, 60}]

(* A failed lookup, halves, and a rate above one. *)
SomeRates == {<<0, 1>>, <<1, 2>>, <<11, 10>>}

VARIABLES invoked, returned, result

functionVars == <<invoked, returned, result>>

Plans == [fn : {"plan"}, qty : 1 .. MaxQty,
          available : [Warehouses -> -1 .. MaxAvailable]]
Requests == [fn : {"normalize"},
             lines : BoundedSeq([product : Products, qty : 1 .. MaxQty], MaxLines)]

(* At most one rule, of every kind. *)
SingleRules == UNION {[id : {1}, type : {t}, value : Values[t], priority : {0}, created : {1}]
                        : t \in DOMAIN Values}
Quotes == [fn : {"price"}, base : 0 .. MaxBase, rules : {<<>>} \cup {<<r>> : r \in SingleRules},
           tier : Tiers, rate : Rates]

(* Several, in any order, that differ in what the choice depends on. *)
Rivals == [id : 1 .. MaxRules, type : {"override"}, value : {1}, priority : {0, 1},
           created : {1, 2}]
Selections == [fn : {"choose"},
            rules : {s \in BoundedSeq(Rivals, MaxRules) :
                       \A i, j \in DOMAIN s : s[i].id = s[j].id => i = j}]

(* Times at which requests come, one after another. *)
Arrivals == [fn : {"limit"},
             times : {t \in BoundedSeq(0 .. Horizon, MaxRequests) :
                        \A i \in 2 .. Len(t) : t[i - 1] <= t[i]}]

FunctionsInit ==
  /\ invoked \in Plans \cup Requests \cup Quotes \cup Selections \cup Arrivals
  /\ returned = FALSE /\ result = <<>>

Return(fn, value) ==
  /\ ~returned /\ invoked.fn = fn
  /\ result' = value
  /\ returned' = TRUE
  /\ UNCHANGED invoked

CallPlan == invoked.fn = "plan" /\ Return("plan", PlanAllocations(invoked.qty, invoked.available))

CallNormalize == invoked.fn = "normalize" /\ Return("normalize", NormalizeLines(invoked.lines))

CallPrice ==
  /\ invoked.fn = "price"
  /\ \E local \in UnitPrices(invoked.base, invoked.rules, invoked.tier) :
       Return("price", [local |-> local, converted |-> ConvertCents(local, invoked.rate)])

CallChoose == invoked.fn = "choose" /\ Return("choose", WinningRule(invoked.rules))

CallLimit == invoked.fn = "limit" /\ Return("limit", Decisions(invoked.times))

FunctionsNext == CallPlan \/ CallNormalize \/ CallPrice \/ CallChoose \/ CallLimit

FunctionsSpec == FunctionsInit /\ [][FunctionsNext]_functionVars

Returned(fn) == returned /\ invoked.fn = fn

-------------------------------------------------------------------------------
(* The quantities of a plan as a function, the way GreedyPlans has them. *)
AsFunction(plan) ==
  [w \in Warehouses |->
     SumFunction([i \in {j \in DOMAIN plan : plan[j].warehouse = w} |-> plan[i].qty])]

(* planAllocations (allocation.ts:4-39) returns the one greedy plan that    *)
(* covers the quantity whenever the warehouses together have it, and throws *)
(* INSUFFICIENT_STOCK exactly when they do not.  A plan never names a       *)
(* warehouse twice and has no empty allocation, which insertLine would      *)
(* store.                                                                   *)
(* normalizeReservationLines (stockMath.ts:5-16): strictly increasing       *)
(* product ids, and for each product the total of its lines; so duplicate   *)
(* lines cannot make the reservation lock or count a product twice.         *)
AllocationIsRight ==
  /\ Returned("plan") =>
       LET has == SumFunction([w \in Warehouses |->
                    IF invoked.available[w] > 0 THEN invoked.available[w] ELSE 0])
       IN  /\ result.ok <=> has >= invoked.qty
           /\ GreedyPlans(invoked.qty, invoked.available)
                = IF result.ok THEN {AsFunction(result.lines)} ELSE {}
           /\ \A i, j \in DOMAIN result.lines :
                /\ result.lines[i].qty > 0
                /\ result.lines[i].warehouse = result.lines[j].warehouse => i = j
  /\ Returned("normalize") =>
       /\ \A i, j \in DOMAIN result : i < j => result[i].product < result[j].product
       /\ \A p \in Products :
            LET asked == {i \in DOMAIN invoked.lines : invoked.lines[i].product = p}
                kept == {i \in DOMAIN result : result[i].product = p}
            IN  SumFunction([i \in kept |-> result[i].qty])
                  = SumFunction([i \in asked |-> invoked.lines[i].qty])

(* The price without any rounding, times BasisPoints * 100. *)
ExactPrice ==
  Percent[invoked.tier] *
    IF invoked.rules = <<>> THEN invoked.base * BasisPoints
    ELSE LET r == Head(invoked.rules)
         IN  CASE r.type = "percent_off" -> invoked.base * (BasisPoints - r.value)
               [] r.type = "fixed_off" ->
                    BasisPoints * IF r.value > invoked.base THEN 0 ELSE invoked.base - r.value
               [] r.type = "override" -> BasisPoints * r.value

AbsValue(n) == IF n < 0 THEN -n ELSE n

(* computeLocalUnitPrice (pricingEngine.ts:16-27) and convertCents; the     *)
(* tier applies to an override too, as pricingEngine.test.ts:22-33 asks;    *)
(* the assertion of the monitor (priceRuleMutation.ts:10,30-34) takes the   *)
(* override for the price of the platinum tier, and so disagrees with the   *)
(* code and with this.  The price is rounded after the rule and again for   *)
(* the tier, and a third time when it is converted.  The first two never    *)
(* add up to a cent; the third adds half a cent to what the rate makes of   *)
(* them; and rounding never makes a discounted price exceed the base price  *)
(* or fall below zero.                                                      *)
(* selectWinningRule (ruleSelection.ts): in whatever order the rules come,  *)
(* the winner is one of them, none has a higher priority, none of its       *)
(* priority is newer, and of those created with it it has the last id.      *)
PricingIsRight ==
  /\ Returned("price") =>
       LET unit == BasisPoints * 100
           off == AbsValue(result.local * unit - ExactPrice)
           type == IF invoked.rules = <<>> THEN "none" ELSE Head(invoked.rules).type
       IN  /\ off < unit
           /\ 2 * AbsValue(result.converted * invoked.rate[2] * unit - ExactPrice * invoked.rate[1])
                <= unit * invoked.rate[2] + 2 * off * invoked.rate[1]
           /\ result.local >= 0 /\ (type # "override" => result.local <= invoked.base)
  /\ Returned("choose") =>
       LET given == {invoked.rules[i] : i \in DOMAIN invoked.rules}
           top == {r \in given : \A s \in given : s.priority <= r.priority}
           newest == {r \in top : \A s \in top : s.created <= r.created}
       IN  IF given = {} THEN result = NoRule
           ELSE {result} = {r \in newest : \A s \in newest : s.id <= r.id}

(* rateLimiter.ts and INCREMENT_WINDOW_SCRIPT: of the requests with a key   *)
(* that come within any window's length at most twice the limit are         *)
(* allowed, and whoever keeps asking, refused or not, gets the whole limit  *)
(* in every window; a counter lives no longer than the window, so it is     *)
(* never left for good.  A client that is refused and waits as long as it   *)
(* is told comes at most half a second too early; in the last half second   *)
(* of a window it is told to wait for a whole one.                          *)
LimiterBounds ==
  Returned("limit") =>
    LET times == invoked.times
        allowed == {i \in DOMAIN times : result[i].allowed}
        span == Window * Second
        counter == Counters(times)
        left(i) == counter[i].expires - times[i]
    IN  /\ \A i \in DOMAIN times :
             /\ Cardinality({j \in allowed : j >= i /\ times[j] < times[i] + span}) <= 2 * Limit
             /\ left(i) \in 1 .. span
             /\ ~result[i].allowed =>
                  /\ Cardinality({j \in allowed : j < i /\ times[j] > times[i] - span}) >= Limit
                  /\ 2 * (left(i) - result[i].retryAfter * Second) <= Second
                  /\ result[i].retryAfter = Window \/ result[i].retryAfter * Second <= left(i) + Second \div 2
===============================================================================

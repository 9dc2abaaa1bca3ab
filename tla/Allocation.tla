------------------------------ MODULE Allocation ------------------------------
(***************************************************************************)
(* The pure part of the inventory service: how the lines of a reservation  *)
(* request are merged (services/inventory/src/domain/stockMath.ts) and how *)
(* a quantity of one product is spread over the warehouses that have it    *)
(* (services/inventory/src/domain/allocation.ts).                          *)
(*                                                                         *)
(* Warehouses and products are naturals: the code orders them by id, and   *)
(* only the order of the ids matters.                                      *)
(***************************************************************************)
EXTENDS Integers, Sequences, FiniteSets, SequencesExt, Sorting

CONSTANTS
  Warehouses,   \* warehouse ids, ordered as localeCompare orders them
  Products      \* product ids, ordered likewise

ASSUME IdsAreNumbered ==
  Warehouses \subseteq Nat /\ Products \subseteq Nat /\ IsFiniteSet(Warehouses)

(* A row of stock_levels: its primary key. *)
Rows == Warehouses \X Products
Warehouse(r) == r[1]
Product(r) == r[2]

(* A line of a request, as reservationSchemas.ts lets it through. *)
Line == [product : Products, qty : Nat \ {0}]

-------------------------------------------------------------------------------
(* Mutated form: the last line of a product wins. *)
DemandLastWins(lines) ==
  FoldLeft(LAMBDA total, line : [total EXCEPT ![line.product] = line.qty],
           [p \in Products |-> 0], lines)

(* Quantities of the same product are added up; a product that is asked    *)
(* for on no line has quantity 0.                                          *)
Demand(lines) ==
  FoldLeft(LAMBDA total, line : [total EXCEPT ![line.product] = @ + line.qty],
           [p \in Products |-> 0], lines)

(* normalizeReservationLines: one line per product, in the order of ids. *)
NormalizeLines(lines) ==
  LET total == Demand(lines)
      asked == Sorted(SetToSeq({p \in Products : total[p] > 0}), <)
  IN  [i \in DOMAIN asked |-> [product |-> asked[i], qty |-> total[asked[i]]]]

(* The order in which candidates are used: most available first, then the  *)
(* smaller id.  available is what the SELECT returned for each warehouse.   *)
UsedBefore(available, a, b) ==
  \/ available[a] > available[b]
  \/ available[a] = available[b] /\ a < b

(* Mutated form: takes the candidates in the order of their ids. *)
PlanAllocationsById(qty, available) ==
  LET candidates == Sorted(SetToSeq({w \in DOMAIN available : available[w] > 0}), <)
      Take(plan, w) ==
        LET allocated == IF plan.remaining < available[w]
                         THEN plan.remaining ELSE available[w]
        IN  IF plan.remaining = 0
            THEN plan
            ELSE [remaining |-> plan.remaining - allocated,
                  lines |-> Append(plan.lines, [warehouse |-> w, qty |-> allocated])]
      planned == FoldLeft(Take, [remaining |-> qty, lines |-> <<>>], candidates)
  IN  [ok |-> planned.remaining = 0, lines |-> planned.lines]

(* planAllocations: take from each candidate in turn as much as it has or  *)
(* as is still needed, until nothing is needed.  It throws                 *)
(* INSUFFICIENT_STOCK (ok = FALSE) when the candidates do not suffice.     *)
PlanAllocations(qty, available) ==
  LET candidates == Sorted(SetToSeq({w \in DOMAIN available : available[w] > 0}),
                           LAMBDA a, b : UsedBefore(available, a, b))
      Take(plan, w) ==
        LET allocated == IF plan.remaining < available[w]
                         THEN plan.remaining ELSE available[w]
        IN  IF plan.remaining = 0
            THEN plan
            ELSE [remaining |-> plan.remaining - allocated,
                  lines |-> Append(plan.lines, [warehouse |-> w, qty |-> allocated])]
      planned == FoldLeft(Take, [remaining |-> qty, lines |-> <<>>], candidates)
  IN  [ok |-> planned.remaining = 0, lines |-> planned.lines]

-------------------------------------------------------------------------------
(* The same plan by what it satisfies instead of by the loop, as a function *)
(* from warehouses to quantities: nothing beyond what is available, exactly *)
(* the quantity asked, and a warehouse is touched only after the ones used  *)
(* before it are exhausted.                                                 *)
IsGreedyPlan(qty, available, plan) ==
  /\ \A w \in DOMAIN available : plan[w] > 0 => plan[w] <= available[w]
  /\ SumFunction(plan) = qty
  /\ \A v, w \in DOMAIN available :
       UsedBefore(available, v, w) /\ plan[w] > 0 /\ available[v] > 0
         => plan[v] = available[v]

GreedyPlans(qty, available) ==
  {plan \in [DOMAIN available -> 0 .. qty] : IsGreedyPlan(qty, available, plan)}
===============================================================================

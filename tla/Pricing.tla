-------------------------------- MODULE Pricing --------------------------------
(***************************************************************************)
(* The pure part of the catalog: which of the active rules of a product    *)
(* sets its price, and how the price follows from it, the customer's tier  *)
(* and the exchange rate.                                                  *)
(*                                                                         *)
(* Amounts are cents.  The code multiplies binary doubles and rounds; here *)
(* the products are exact quotients n / d.  For the multipliers of the     *)
(* tiers both round alike; a percentage, of which there are 10001, may be  *)
(* a little off as a double, so an exact half may go either way.           *)
(***************************************************************************)
EXTENDS Integers, Sequences, Sorting

(* A rule that is active: ids and times of creation are numbered. *)
Rule == [id : Nat, type : {"percent_off", "fixed_off", "override"},
         value : Nat, priority : Int, created : Nat]

NoRule == [id |-> 0, type |-> "none", value |-> 0, priority |-> 0, created |-> 0]

(* Mutated form: the oldest of equal priority comes first. *)
ComesBeforeByAge(a, b) ==
  \/ a.priority > b.priority
  \/ a.priority = b.priority /\ a.created < b.created
  \/ a.priority = b.priority /\ a.created = b.created /\ a.id > b.id

ComesBefore(a, b) ==
  \/ a.priority > b.priority
  \/ a.priority = b.priority /\ a.created > b.created
  \/ a.priority = b.priority /\ a.created = b.created /\ a.id > b.id

WinningRule(rules) == IF rules = <<>> THEN NoRule ELSE Head(Sorted(rules, ComesBefore))

-------------------------------------------------------------------------------
Floor(n, d) == n \div d
Parity(n) == n % 2

(* Mutated form: cents are cut off. *)
CutOff(n, d) == Floor(n, d)

(* n / d to the nearest cent, a half to the even one. *)
RoundHalfEven(n, d) ==
  LET floor == Floor(n, d)
      twice == 2 * (n - floor * d)
  IN  IF twice < d \/ (twice = d /\ Parity(floor) = 0) THEN floor ELSE floor + 1

IsHalf(n, d) == 2 * (n - Floor(n, d) * d) = d

BasisPoints == 10000
NotBelowZero(n) == IF n < 0 THEN 0 ELSE n

(* What a base price may be after a rule: one amount, or the two around a  *)
(* half.                                                                   *)
AfterRule(base, rule) ==
  CASE rule.type = "none" -> {base}
    [] rule.type = "percent_off" ->
         LET n == base * NotBelowZero(BasisPoints - rule.value)
         IN  IF IsHalf(n, BasisPoints)
             THEN {Floor(n, BasisPoints), Floor(n, BasisPoints) + 1}
             ELSE {RoundHalfEven(n, BasisPoints)}
    [] rule.type = "fixed_off" -> {NotBelowZero(base - rule.value)}
    [] rule.type = "override" -> {rule.value}

Tiers == {"standard", "gold", "platinum"}
Percent == [standard |-> 100, gold |-> 97, platinum |-> 95]

ForTier(cents, tier) == RoundHalfEven(cents * Percent[tier], 100)

UnitPrices(base, rules, tier) == {ForTier(c, tier) : c \in AfterRule(base, WinningRule(rules))}

(* A price in another currency; rate is a quotient, <<0, 1>> when the      *)
(* lookup failed.                                                          *)
ConvertCents(cents, rate) == RoundHalfEven(cents * rate[1], rate[2])
===============================================================================

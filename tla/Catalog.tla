-------------------------------- MODULE Catalog --------------------------------
(***************************************************************************)
(* The catalog's read-through caches of one product and of its prices,     *)
(* against changes of the product and of its price rules: every Redis      *)
(* command, SQL statement and rate lookup is an action.                    *)
(*                                                                         *)
(* What a price is made of is its data here: the version of the product,   *)
(* the version of the set of active rules, and whether the exchange rate   *)
(* was found.  How they make a number of cents is module Pricing.          *)
(***************************************************************************)
EXTENDS Naturals, Sequences, FiniteSets

CONSTANTS
  Readers,      \* GET /products/:id/price requests
  Writers,      \* PATCH /products/:id, POST and DELETE /price-rules requests
  PriceChunks,  \* the keys of the prices as invalidation deletes them: a DEL each
  Foreign,      \* keys of prices in another currency than the product's
  Product,      \* key of the product
  MaxChanges,   \* bound: changes of product and rules
  MaxFaults     \* bound: failing lookups, writers that throw, crashes

PriceKeys == UNION {PriceChunks[i] : i \in DOMAIN PriceChunks}
Keys == PriceKeys \cup {Product}

ASSUME CatalogAssumption ==
  /\ PriceChunks \in Seq(SUBSET PriceKeys) /\ PriceChunks # <<>>
  /\ Product \notin PriceKeys
  /\ Foreign \subseteq PriceKeys
  /\ MaxChanges \in Nat /\ MaxFaults \in Nat

VARIABLES
  product,   \* version of the row in products
  rules,     \* version of the set of active rules
  cached,    \* what Redis has under each key
  reader,    \* what each reader is doing
  writer,    \* what each writer is doing
  excused,   \* keys whose value may be stale, and why: see StaleIsExcused (history)
  faults

dbVars == <<product, rules>>
vars == <<dbVars, cached, reader, writer, excused, faults>>

(* Versions count from 1; the fields of a value that say nothing are 0. *)
Nothing == [product |-> 0, rules |-> 0, rate |-> FALSE]
OnlyProduct(v) == [Nothing EXCEPT !.product = v]

IdleReader == [step |-> "idle", key |-> Product, value |-> Nothing, suspect |-> FALSE]
IdleWriter == [step |-> "idle", op |-> "update", left |-> <<>>]

Init ==
  /\ product = 1 /\ rules = 1
  /\ cached = [k \in Keys |-> Nothing]
  /\ reader = [h \in Readers |-> IdleReader]
  /\ writer = [w \in Writers |-> IdleWriter]
  /\ excused = {} /\ faults = 0

At(h, s) == reader[h].step = s
Reads(h, s, value) == reader' = [reader EXCEPT ![h] = [@ EXCEPT !.step = s, !.value = value]]
Stored == {k \in Keys : cached[k] # Nothing}
Writing == \E w \in Writers : writer[w].step # "idle"

(* A reader that is under way while something changes is suspect. *)
Suspected == [h \in Readers |-> IF At(h, "idle") THEN reader[h]
                                ELSE [reader[h] EXCEPT !.suspect = TRUE]]

-------------------------------------------------------------------------------
(* getPrice: getProductById, then withCache around the computation *)

(* GET of the product; not there, it is loaded. *)
ReadProduct(h, k) ==
  /\ At(h, "idle")
  /\ reader' = [reader EXCEPT ![h] =
       [step |-> IF cached[Product] = Nothing THEN "loadProduct" ELSE "readPrice",
        key |-> k, value |-> cached[Product],
        suspect |-> Writing \/ (cached[Product] # Nothing /\ Product \in excused)]]
  /\ UNCHANGED <<dbVars, cached, writer, excused, faults>>

(* findById. *)
LoadProduct(h) ==
  /\ At(h, "loadProduct")
  /\ Reads(h, "storeProduct", OnlyProduct(product))
  /\ UNCHANGED <<dbVars, cached, writer, excused, faults>>

(* Mutated form: whatever is stored is stored under the key of the product. *)
PutAsProduct(h, k, v, fine) ==
  /\ cached' = [cached EXCEPT ![Product] = v]
  /\ UNCHANGED excused

(* SET k v EX 60, by a reader that stands behind v or does not. *)
Put(h, k, v, fine) ==
  /\ cached' = [cached EXCEPT ![k] = v]
  /\ excused' = IF fine /\ ~reader[h].suspect THEN excused \ {k} ELSE excused \cup {k}

StoreProduct(h) ==
  /\ At(h, "storeProduct")
  /\ Put(h, Product, reader[h].value, TRUE)
  /\ Reads(h, "readPrice", reader[h].value)
  /\ UNCHANGED <<dbVars, writer, faults>>

(* GET of the price; if it is there it is the answer. *)
ReadPrice(h) ==
  /\ At(h, "readPrice")
  /\ IF cached[reader[h].key] = Nothing
     THEN Reads(h, "loadRules", reader[h].value)
     ELSE reader' = [reader EXCEPT ![h] = IdleReader]
  /\ UNCHANGED <<dbVars, cached, writer, excused, faults>>

(* findActiveByProduct; a price in the product's currency is complete. *)
LoadRules(h) ==
  /\ At(h, "loadRules")
  /\ Reads(h, IF reader[h].key \in Foreign THEN "convert" ELSE "storePrice",
           [reader[h].value EXCEPT !.rules = rules])
  /\ UNCHANGED <<dbVars, cached, writer, excused, faults>>

Convert(h) ==
  /\ At(h, "convert")
  /\ Reads(h, "storePrice", [reader[h].value EXCEPT !.rate = TRUE])
  /\ UNCHANGED <<dbVars, cached, writer, excused, faults>>

(* getFxRate catches every error and answers with the rate 0: the payments *)
(* service is away.  (KRW is looked up as KWR and always fails; the keys   *)
(* are those of the other currencies.)                                     *)
ConvertByZero(h) ==
  /\ At(h, "convert") /\ faults < MaxFaults
  /\ faults' = faults + 1
  /\ Reads(h, "storePrice", reader[h].value)
  /\ UNCHANGED <<dbVars, cached, writer, excused>>

StorePrice(h) ==
  /\ At(h, "storePrice")
  /\ Put(h, reader[h].key, reader[h].value, reader[h].key \in Foreign => reader[h].value.rate)
  /\ reader' = [reader EXCEPT ![h] = IdleReader]
  /\ UNCHANGED <<dbVars, writer, faults>>

(* Redis or PostgreSQL fails: 500, and nothing is stored. *)
ReadThrows(h) ==
  /\ ~At(h, "idle") /\ faults < MaxFaults
  /\ faults' = faults + 1
  /\ reader' = [reader EXCEPT ![h] = IdleReader]
  /\ UNCHANGED <<dbVars, cached, writer, excused>>

-------------------------------------------------------------------------------
(* updateProduct, createPriceRule and deletePriceRule: DEL, change, DEL *)

(* Mutated form: a change of the product invalidates the product alone. *)
ChunksOfProduct(op) == IF op = "deleteRule" THEN PriceChunks ELSE <<{Product}>>

(* invalidateProductCaches: what a change deletes, a chunk at a time.  A   *)
(* new rule deletes the product, which has not changed, and no price.      *)
Chunks(op) ==
  CASE op = "update" -> <<{Product} \cup Head(PriceChunks)>> \o Tail(PriceChunks)
    [] op = "createRule" -> <<{Product}>>
    [] op = "deleteRule" -> PriceChunks

Ops == {"update", "createRule", "deleteRule"}

Writes(w, s, left) == writer' = [writer EXCEPT ![w] = [@ EXCEPT !.step = s, !.left = left]]

Returns(w) == writer' = [writer EXCEPT ![w] = IdleWriter]

(* The product or the rule is found. *)
BeginWrite(w, op) ==
  /\ writer[w].step = "idle" /\ product + rules < MaxChanges + 2
  /\ writer' = [writer EXCEPT ![w] = [step |-> "before", op |-> op, left |-> Chunks(op)]]
  /\ reader' = Suspected
  /\ UNCHANGED <<dbVars, cached, excused, faults>>

(* DEL of the next chunk; after the last, the change or the end. *)
Invalidate(w) ==
  /\ writer[w].step \in {"before", "after", "again"}
  /\ LET keys == Head(writer[w].left)
         left == Tail(writer[w].left)
     IN  /\ cached' = [k \in Keys |-> IF k \in keys THEN Nothing ELSE cached[k]]
         /\ excused' = excused \ keys
         /\ IF left # <<>> THEN Writes(w, writer[w].step, left)
            ELSE IF writer[w].step = "before" THEN Writes(w, "change", <<>>)
            ELSE Returns(w)
  /\ UNCHANGED <<dbVars, reader, faults>>

(* The UPDATE, INSERT or DELETE.  Nobody invalidates prices for a new rule. *)
Change(w) ==
  /\ writer[w].step = "change" /\ product + rules < MaxChanges + 2
  /\ IF writer[w].op = "update"
     THEN product' = product + 1 /\ UNCHANGED rules
     ELSE rules' = rules + 1 /\ UNCHANGED product
  /\ excused' = IF writer[w].op = "createRule" THEN excused \cup (Stored \ {Product}) ELSE excused
  /\ Writes(w, "after", Chunks(writer[w].op))
  /\ UNCHANGED <<cached, reader, faults>>

(* The SKU is taken, or the product is gone by now; or the rule is gone,   *)
(* and the prices are invalidated again all the same.                      *)
ChangesNothing(w) ==
  /\ writer[w].step = "change"
  /\ IF writer[w].op = "deleteRule" THEN Writes(w, "again", Chunks("deleteRule")) ELSE Returns(w)
  /\ UNCHANGED <<dbVars, cached, reader, excused, faults>>

(* What was changed and not invalidated stays in the cache. *)
Abandoned(ws) == IF \E w \in ws : writer[w].step = "after" THEN excused \cup Stored ELSE excused

(* Redis or PostgreSQL fails: 500. *)
WriteThrows(w) ==
  /\ writer[w].step # "idle" /\ faults < MaxFaults
  /\ faults' = faults + 1
  /\ excused' = Abandoned({w})
  /\ Returns(w)
  /\ UNCHANGED <<dbVars, cached, reader>>

-------------------------------------------------------------------------------
(* A rule starts or ends: findActiveByProduct asks for the time of day. *)
RuleTurns ==
  /\ product + rules < MaxChanges + 2
  /\ rules' = rules + 1
  /\ excused' = excused \cup (Stored \ {Product})
  /\ reader' = Suspected
  /\ UNCHANGED <<product, cached, writer, faults>>

(* Mutated form: prices are stored without EX. *)
ExpireProduct(k) ==
  /\ k = Product /\ cached[k] # Nothing
  /\ cached' = [cached EXCEPT ![k] = Nothing]
  /\ excused' = excused \ {k}
  /\ UNCHANGED <<dbVars, reader, writer, faults>>

(* A value is gone 60 s after it was stored. *)
Expire(k) ==
  /\ cached[k] # Nothing
  /\ cached' = [cached EXCEPT ![k] = Nothing]
  /\ excused' = excused \ {k}
  /\ UNCHANGED <<dbVars, reader, writer, faults>>

(* The process dies; Redis and PostgreSQL do not. *)
Crash ==
  /\ faults < MaxFaults
  /\ faults' = faults + 1
  /\ excused' = Abandoned(Writers)
  /\ reader' = [h \in Readers |-> IdleReader]
  /\ writer' = [w \in Writers |-> IdleWriter]
  /\ UNCHANGED <<dbVars, cached>>

(* The next step of a reader or a writer that has begun. *)
Read(h) ==
  \/ LoadProduct(h) \/ StoreProduct(h) \/ ReadPrice(h) \/ LoadRules(h)
  \/ Convert(h) \/ ConvertByZero(h) \/ StorePrice(h)
  \/ ReadThrows(h)

Write(w) == Invalidate(w) \/ Change(w) \/ ChangesNothing(w) \/ WriteThrows(w)

Next ==
  \/ \E h \in Readers : Read(h) \/ \E k \in PriceKeys : ReadProduct(h, k)
  \/ \E w \in Writers : Write(w) \/ \E op \in Ops : BeginWrite(w, op)
  \/ RuleTurns
  \/ \E k \in Keys : Expire(k)
  \/ Crash

Spec == Init /\ [][Next]_vars

(* Requests that have begun go on, and Redis expires what it has.  Nobody  *)
(* has to ask for a price or to change one.                                *)
FairSpec ==
  /\ Spec
  /\ \A h \in Readers : WF_vars(Read(h))
  /\ \A w \in Writers : WF_vars(Write(w))
  /\ \A k \in Keys : WF_vars(Expire(k))

-------------------------------------------------------------------------------
Value == [product : Nat, rules : Nat, rate : BOOLEAN]

(* A product says nothing of rules; a price has a product and rules. *)
TypeOK ==
  /\ product \in Nat \ {0} /\ rules \in Nat \ {0}
  /\ cached \in [Keys -> Value]
  /\ \A k \in Stored : cached[k].product # 0 /\ (k = Product <=> cached[k].rules = 0)
  /\ reader \in [Readers -> [step : {"idle", "loadProduct", "storeProduct", "readPrice",
                                     "loadRules", "convert", "storePrice"},
                             key : Keys, value : Value, suspect : BOOLEAN]]
  /\ writer \in [Writers -> [step : {"idle", "before", "change", "after", "again"},
                             op : Ops, left : Seq(SUBSET Keys)]]
  /\ excused \subseteq Keys
  /\ faults \in Nat

(* A value that would be another one if it were computed now. *)
Stale(k) ==
  /\ cached[k] # Nothing
  /\ \/ cached[k].product # product
     \/ k # Product /\ cached[k].rules # rules
     \/ k \in Foreign /\ ~cached[k].rate

(* The stale_price alert (docs/contracts.md:247).  When no change is under *)
(* way, a stale value has one of these causes: a rule was created, started *)
(* or ended since; a writer threw or died between its change and the end   *)
(* of its second invalidation; the rate was not found; or the value was    *)
(* stored by a reader that a change had overtaken, or computed from a      *)
(* product of that kind.  In particular the two invalidations of an update *)
(* or a deletion leave nothing behind, however their chunks interleave     *)
(* with readers, with each other and with expiry.                          *)
StaleIsExcused == ~Writing => \A k \in Keys : Stale(k) => k \in excused

(* Whatever the cause, when changes and faults have ended a stale price    *)
(* does not outlive the values that were there: in the end all cached      *)
(* prices are right: no value is put back for good by a late reader.       *)
PricesSettle == <>[](\A k \in Keys : ~Stale(k))
===============================================================================

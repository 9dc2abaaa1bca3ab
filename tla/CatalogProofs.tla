------------------------------- MODULE CatalogProofs -------------------------------
(***************************************************************************)
(* The catalog answers with a stale price only for a reason, when nobody   *)
(* is changing anything: for any number of readers, writers, keys and      *)
(* chunks in which the keys of the prices are deleted.                     *)
(***************************************************************************)
EXTENDS Catalog, SequenceTheorems, TLAPS

ReaderState ==
  [step : {"idle", "loadProduct", "storeProduct", "readPrice", "loadRules", "convert", "storePrice"},
   key : Keys, value : Value, suspect : BOOLEAN]
WriterState == [step : {"idle", "before", "change", "after", "again"}, op : Ops, left : Seq(SUBSET Keys)]

(* What a reader has loaded by the time it is at a step.                     *)
HasProduct == {"storeProduct", "readPrice", "loadRules", "convert", "storePrice"}
HasRules == {"convert", "storePrice"}

Loaded(r) ==
  /\ r.step # "idle" => r.key \in PriceKeys
  /\ r.step \in HasProduct => r.value.product # 0
  /\ r.step \in HasProduct => (r.step \in HasRules <=> r.value.rules # 0)

(* A reader nothing has overtaken has seen what is there, of product p and   *)
(* rules s, while nobody writes.                                             *)
Sees(r, p, s, writing) ==
  r.step # "idle" /\ ~r.suspect =>
    /\ ~writing
    /\ r.step \in HasProduct => r.value.product = p
    /\ r.step \in HasRules => r.value.rules = s

(* A writer has something left to delete, and a key is deleted by what is    *)
(* left.                                                                     *)
Deletes(left, k) == \E n \in DOMAIN left : k \in left[n]
Doomed(k) == \E w \in Writers : writer[w].step = "after" /\ Deletes(writer[w].left, k)

ReadersAreRight ==
  \A h \in Readers : Loaded(reader[h]) /\ Sees(reader[h], product, rules, Writing)
WritersAreRight ==
  \A w \in Writers : writer[w].step \in {"before", "after", "again"} => writer[w].left # <<>>

(* A stale value is excused, or about to be deleted.                         *)
StaleIsWatched == \A k \in Keys : Stale(k) => k \in excused \/ Doomed(k)

IInv == TypeOK /\ ReadersAreRight /\ WritersAreRight /\ StaleIsWatched

-------------------------------------------------------------------------------
LEMMA NothingIs ==
  /\ Nothing \in Value /\ Nothing.product = 0 /\ Nothing.rules = 0
  /\ \A v \in Nat : /\ OnlyProduct(v) \in Value /\ OnlyProduct(v).product = v
                    /\ OnlyProduct(v).rules = 0
BY DEF Nothing, Value, OnlyProduct

LEMMA KeysAre ==
  /\ Product \in Keys /\ Product \notin PriceKeys /\ PriceKeys \subseteq Keys
  /\ Foreign \subseteq PriceKeys /\ \A k \in Keys : k = Product \/ k \in PriceKeys
BY CatalogAssumption DEF Keys

LEMMA Known ==
  ASSUME IInv
  PROVE  /\ product \in Nat \ {0} /\ rules \in Nat \ {0}
         /\ cached \in [Keys -> Value]
         /\ reader \in [Readers -> ReaderState] /\ writer \in [Writers -> WriterState]
         /\ excused \subseteq Keys /\ faults \in Nat
         /\ \A k \in Stored : cached[k].product # 0 /\ (k = Product <=> cached[k].rules = 0)
BY DEF IInv, TypeOK, ReaderState, WriterState

LEMMA TypedAgain ==
  ASSUME product' \in Nat \ {0}, rules' \in Nat \ {0}, cached' \in [Keys -> Value],
         reader' \in [Readers -> ReaderState], writer' \in [Writers -> WriterState],
         excused' \subseteq Keys, faults' \in Nat,
         \A k \in Stored' : cached'[k].product # 0 /\ (k = Product <=> cached'[k].rules = 0)
  PROVE  TypeOK'
BY DEF TypeOK, ReaderState, WriterState

LEMMA Begun == Init => IInv
<1> SUFFICES ASSUME Init PROVE IInv
  OBVIOUS
<1>1. IdleReader \in ReaderState /\ IdleReader.step = "idle"
  BY NothingIs, KeysAre DEF IdleReader, ReaderState
<1>2. IdleWriter \in WriterState /\ IdleWriter.step = "idle"
  BY DEF IdleWriter, WriterState, Ops
<1>3. /\ product = 1 /\ rules = 1 /\ excused = {} /\ faults = 0
      /\ cached = [k \in Keys |-> Nothing]
      /\ reader = [h \in Readers |-> IdleReader] /\ writer = [w \in Writers |-> IdleWriter]
  BY DEF Init
<1>4. Stored = {}
  BY <1>3 DEF Stored
<1>5. TypeOK
  BY <1>1, <1>2, <1>3, <1>4, NothingIs DEF TypeOK, ReaderState, WriterState
<1>6. ReadersAreRight
  BY <1>1, <1>3 DEF ReadersAreRight, Loaded, Sees, HasProduct, HasRules
<1>7. WritersAreRight
  BY <1>2, <1>3 DEF WritersAreRight
<1>8. StaleIsWatched
  BY <1>3 DEF StaleIsWatched, Stale
<1> QED
  BY <1>5, <1>6, <1>7, <1>8 DEF IInv

LEMMA IdleIs ==
  /\ IdleReader \in ReaderState /\ IdleReader.step = "idle"
  /\ Loaded(IdleReader) /\ \A p, s, b : Sees(IdleReader, p, s, b)
  /\ IdleWriter \in WriterState /\ IdleWriter.step = "idle"
<1>1. IdleReader \in ReaderState /\ IdleReader.step = "idle"
  BY NothingIs, KeysAre DEF IdleReader, ReaderState
<1>2. Loaded(IdleReader) /\ \A p, s, b : Sees(IdleReader, p, s, b)
  BY <1>1 DEF Loaded, Sees, HasProduct, HasRules
<1>3. IdleWriter \in WriterState /\ IdleWriter.step = "idle"
  BY DEF IdleWriter, WriterState, Ops
<1> QED
  BY <1>1, <1>2, <1>3

-------------------------------------------------------------------------------
(* Readers *)

(* A reader goes on, right in what it has seen. *)
ReaderMoves(h, d) ==
  /\ reader' = [reader EXCEPT ![h] = d] /\ d \in ReaderState
  /\ Loaded(d) /\ Sees(d, product, rules, Writing)
  /\ UNCHANGED <<dbVars, writer>>

LEMMA ReaderMovesRight ==
  ASSUME IInv, NEW h \in Readers, NEW d, ReaderMoves(h, d)
  PROVE  /\ reader' \in [Readers -> ReaderState] /\ ReadersAreRight' /\ WritersAreRight'
         /\ product' = product /\ rules' = rules /\ writer' = writer
<1>1. /\ reader' \in [Readers -> ReaderState] /\ reader'[h] = d
      /\ \A g \in Readers \ {h} : reader'[g] = reader[g]
  BY Known DEF ReaderMoves
<1>2. product' = product /\ rules' = rules /\ writer' = writer /\ (Writing' <=> Writing)
  BY DEF ReaderMoves, dbVars, Writing
<1>3. ASSUME NEW g \in Readers PROVE Loaded(reader'[g]) /\ Sees(reader'[g], product', rules', Writing')
  <2>1. Loaded(reader'[g]) /\ Sees(reader'[g], product, rules, Writing)
    BY <1>1 DEF ReaderMoves, IInv, ReadersAreRight
  <2> QED
    BY <1>2, <2>1 DEF Sees
<1>4. ReadersAreRight'
  BY <1>3 DEF ReadersAreRight
<1>5. WritersAreRight'
  BY <1>2 DEF IInv, WritersAreRight
<1> QED
  BY <1>1, <1>2, <1>4, <1>5

LEMMA QuietReaderIsRight ==
  ASSUME IInv, NEW h \in Readers, NEW d, ReaderMoves(h, d), UNCHANGED <<cached, excused>>,
         faults' \in Nat
  PROVE  IInv'
<1>1. /\ reader' \in [Readers -> ReaderState] /\ ReadersAreRight' /\ WritersAreRight'
      /\ product' = product /\ rules' = rules /\ writer' = writer
  BY ReaderMovesRight
<1>2. Stored' = Stored
  BY DEF Stored
<1>3. TypeOK'
  BY <1>1, <1>2, Known, TypedAgain
<1>4. StaleIsWatched'
  BY <1>1 DEF IInv, StaleIsWatched, Stale, Doomed
<1> QED
  BY <1>1, <1>3, <1>4 DEF IInv

LEMMA ReadsIs ==
  ASSUME IInv, NEW h \in Readers, NEW v \in Value,
         NEW s \in {"idle", "loadProduct", "storeProduct", "readPrice", "loadRules", "convert",
                    "storePrice"},
         Reads(h, s, v)
  PROVE  \E d \in ReaderState :
           /\ reader' = [reader EXCEPT ![h] = d] /\ d.step = s /\ d.value = v
           /\ d.key = reader[h].key /\ d.suspect = reader[h].suspect
<1>1. PICK c \in ReaderState : c = reader[h]
  BY Known
<1> DEFINE d == [c EXCEPT !.step = s, !.value = v]
<1>2. reader' = [reader EXCEPT ![h] = d]
  BY <1>1 DEF Reads
<1>3. d \in ReaderState /\ d.step = s /\ d.value = v /\ d.key = c.key /\ d.suspect = c.suspect
  BY DEF ReaderState, Value
<1> HIDE DEF d
<1> QED
  BY <1>1, <1>2, <1>3

LEMMA ReaderIs ==
  ASSUME IInv, NEW h \in Readers
  PROVE  /\ reader[h] \in ReaderState /\ reader[h].value \in Value /\ reader[h].key \in Keys
         /\ Loaded(reader[h]) /\ Sees(reader[h], product, rules, Writing)
<1>1. reader[h] \in ReaderState
  BY Known
<1>2. reader[h].value \in Value /\ reader[h].key \in Keys
  BY <1>1 DEF ReaderState
<1> QED
  BY <1>1, <1>2 DEF IInv, ReadersAreRight

(* When nobody writes, what is cached and not excused is up to date. *)
LEMMA FreshIs ==
  ASSUME IInv, ~Writing, cached[Product] # Nothing, Product \notin excused
  PROVE  cached[Product].product = product
<1>1. ~Doomed(Product)
  BY DEF Writing, Doomed
<1> QED
  BY <1>1, KeysAre DEF IInv, StaleIsWatched, Stale

LEMMA ReadProductIsRight ==
  ASSUME IInv, NEW h \in Readers, NEW k \in PriceKeys, ReadProduct(h, k)
  PROVE  IInv'
<1> DEFINE found == cached[Product] # Nothing
<1> DEFINE suspect == Writing \/ (found /\ Product \in excused)
<1> DEFINE d == [step |-> IF cached[Product] = Nothing THEN "loadProduct" ELSE "readPrice",
                 key |-> k, value |-> cached[Product], suspect |-> suspect]
<1>1. /\ reader' = [reader EXCEPT ![h] = d]
      /\ UNCHANGED <<dbVars, cached, writer, excused, faults>>
  BY DEF ReadProduct
<1>2. cached[Product] \in Value /\ suspect \in BOOLEAN /\ k \in Keys
  BY Known, KeysAre
<1> HIDE DEF suspect
<1>3. /\ d \in ReaderState /\ d.key = k /\ d.value = cached[Product] /\ d.suspect = suspect
      /\ d.step = IF found THEN "readPrice" ELSE "loadProduct"
  BY <1>2 DEF ReaderState
<1> HIDE DEF d
<1>4. Loaded(d)
  <2>1. found => cached[Product].product # 0 /\ cached[Product].rules = 0
    BY Known, KeysAre DEF Stored
  <2> QED
    BY <1>3, <2>1 DEF Loaded, HasProduct, HasRules
<1>5. Sees(d, product, rules, Writing)
  <2>1. found /\ ~suspect => cached[Product].product = product
    BY FreshIs DEF suspect
  <2> QED
    BY <1>3, <2>1 DEF Sees, HasProduct, HasRules, suspect
<1>6. ReaderMoves(h, d)
  BY <1>1, <1>3, <1>4, <1>5 DEF ReaderMoves
<1> QED
  BY <1>1, <1>6, Known, QuietReaderIsRight

LEMMA LoadProductIsRight ==
  ASSUME IInv, NEW h \in Readers, LoadProduct(h)
  PROVE  IInv'
<1>1. OnlyProduct(product) \in Value /\ OnlyProduct(product).product = product
      /\ OnlyProduct(product).rules = 0 /\ product # 0
  BY Known, NothingIs
<1>2. PICK d \in ReaderState :
        /\ reader' = [reader EXCEPT ![h] = d] /\ d.step = "storeProduct"
        /\ d.value = OnlyProduct(product) /\ d.key = reader[h].key /\ d.suspect = reader[h].suspect
  BY <1>1, ReadsIs DEF LoadProduct
<1>3. reader[h].step = "loadProduct" /\ UNCHANGED <<dbVars, cached, writer, excused, faults>>
  BY DEF LoadProduct, At
<1>4. Loaded(d) /\ Sees(d, product, rules, Writing)
  BY <1>1, <1>2, <1>3, ReaderIs DEF Loaded, Sees, HasProduct, HasRules
<1>5. ReaderMoves(h, d)
  BY <1>2, <1>3, <1>4 DEF ReaderMoves
<1> QED
  BY <1>3, <1>5, Known, QuietReaderIsRight

LEMMA EndIsRight ==
  ASSUME IInv, NEW h \in Readers, reader' = [reader EXCEPT ![h] = IdleReader],
         UNCHANGED <<dbVars, cached, writer, excused>>, faults' \in Nat
  PROVE  IInv'
<1>1. ReaderMoves(h, IdleReader)
  BY IdleIs DEF ReaderMoves
<1> QED
  BY <1>1, QuietReaderIsRight

LEMMA ReadPriceIsRight ==
  ASSUME IInv, NEW h \in Readers, ReadPrice(h)
  PROVE  IInv'
<1>1. reader[h].step = "readPrice" /\ UNCHANGED <<dbVars, cached, writer, excused, faults>>
  BY DEF ReadPrice, At
<1>2. CASE Reads(h, "loadRules", reader[h].value)
  <2>1. PICK d \in ReaderState :
          /\ reader' = [reader EXCEPT ![h] = d] /\ d.step = "loadRules"
          /\ d.value = reader[h].value /\ d.key = reader[h].key /\ d.suspect = reader[h].suspect
    BY <1>2, ReaderIs, ReadsIs
  <2>2. Loaded(d) /\ Sees(d, product, rules, Writing)
    BY <1>1, <2>1, ReaderIs DEF Loaded, Sees, HasProduct, HasRules
  <2>3. ReaderMoves(h, d)
    BY <1>1, <2>1, <2>2 DEF ReaderMoves
  <2> QED
    BY <1>1, <2>3, Known, QuietReaderIsRight
<1>3. CASE reader' = [reader EXCEPT ![h] = IdleReader]
  BY <1>1, <1>3, Known, EndIsRight
<1> QED
  BY <1>2, <1>3 DEF ReadPrice

LEMMA LoadRulesIsRight ==
  ASSUME IInv, NEW h \in Readers, LoadRules(h)
  PROVE  IInv'
<1> DEFINE v == [reader[h].value EXCEPT !.rules = rules]
<1>1. reader[h].step = "loadRules" /\ UNCHANGED <<dbVars, cached, writer, excused, faults>>
  BY DEF LoadRules, At
<1>2. v \in Value /\ v.product = reader[h].value.product /\ v.rules = rules /\ rules # 0
  BY Known, ReaderIs DEF Value
<1>3. PICK s \in {"convert", "storePrice"} : Reads(h, s, v)
  BY DEF LoadRules
<1> HIDE DEF v
<1>4. PICK d \in ReaderState :
        /\ reader' = [reader EXCEPT ![h] = d] /\ d.step = s
        /\ d.value = v /\ d.key = reader[h].key /\ d.suspect = reader[h].suspect
  BY <1>2, <1>3, ReadsIs
<1>5. Loaded(d) /\ Sees(d, product, rules, Writing)
  BY <1>1, <1>2, <1>4, ReaderIs DEF Loaded, Sees, HasProduct, HasRules
<1>6. ReaderMoves(h, d)
  BY <1>1, <1>4, <1>5 DEF ReaderMoves
<1> QED
  BY <1>1, <1>6, Known, QuietReaderIsRight

LEMMA ConvertIsRight ==
  ASSUME IInv, NEW h \in Readers, Convert(h) \/ ConvertByZero(h)
  PROVE  IInv'
<1>1. reader[h].step = "convert" /\ UNCHANGED <<dbVars, cached, writer, excused>> /\ faults' \in Nat
  BY Known DEF Convert, ConvertByZero, At
<1>2. PICK v \in Value : /\ Reads(h, "storePrice", v)
                         /\ v.product = reader[h].value.product
                         /\ v.rules = reader[h].value.rules
  <2>1. LET v == [reader[h].value EXCEPT !.rate = TRUE]
        IN  v \in Value /\ v.product = reader[h].value.product /\ v.rules = reader[h].value.rules
    BY ReaderIs DEF Value
  <2> QED
    BY <2>1, ReaderIs DEF Convert, ConvertByZero
<1>3. PICK d \in ReaderState :
        /\ reader' = [reader EXCEPT ![h] = d] /\ d.step = "storePrice"
        /\ d.value = v /\ d.key = reader[h].key /\ d.suspect = reader[h].suspect
  BY <1>2, ReadsIs
<1>4. Loaded(d) /\ Sees(d, product, rules, Writing)
  BY <1>1, <1>2, <1>3, ReaderIs DEF Loaded, Sees, HasProduct, HasRules
<1>5. ReaderMoves(h, d)
  BY <1>1, <1>3, <1>4 DEF ReaderMoves
<1> QED
  BY <1>1, <1>5, QuietReaderIsRight

LEMMA ReadThrowsIsRight ==
  ASSUME IInv, NEW h \in Readers, ReadThrows(h)
  PROVE  IInv'
<1>1. faults' \in Nat
  BY Known DEF ReadThrows
<1>2. /\ reader' = [reader EXCEPT ![h] = IdleReader]
      /\ UNCHANGED <<dbVars, cached, writer, excused>>
  BY DEF ReadThrows
<1> QED
  BY <1>1, <1>2, EndIsRight


(* What a reader that nothing has overtaken stores is up to date. *)
UpToDate(k, v) ==
  /\ v.product = product
  /\ k # Product => v.rules = rules
  /\ k \in Foreign => v.rate

LEMMA PutIsRight ==
  ASSUME IInv, NEW h \in Readers, NEW d, ReaderMoves(h, d),
         NEW k \in Keys, NEW v \in Value, NEW fine \in BOOLEAN, Put(h, k, v, fine),
         v.product # 0, k = Product <=> v.rules = 0,
         fine /\ ~reader[h].suspect => UpToDate(k, v), faults' = faults
  PROVE  IInv'
<1>1. /\ reader' \in [Readers -> ReaderState] /\ ReadersAreRight' /\ WritersAreRight'
      /\ product' = product /\ rules' = rules /\ writer' = writer
  BY ReaderMovesRight
<1>2. /\ cached' \in [Keys -> Value] /\ cached'[k] = v
      /\ \A j \in Keys \ {k} : cached'[j] = cached[j]
  BY Known DEF Put
<1>3. /\ excused' = IF fine /\ ~reader[h].suspect THEN excused \ {k} ELSE excused \cup {k}
      /\ excused' \subseteq Keys
  BY Known DEF Put
<1>4. ASSUME NEW j \in Stored'
      PROVE  cached'[j].product # 0 /\ (j = Product <=> cached'[j].rules = 0)
  <2>1. j \in Keys /\ (j # k => j \in Stored)
    BY <1>2 DEF Stored
  <2> QED
    BY <1>2, <2>1, Known
<1>5. TypeOK'
  BY <1>1, <1>2, <1>3, <1>4, Known, TypedAgain
<1>6. ASSUME NEW j \in Keys, Stale(j)' PROVE j \in excused' \/ Doomed(j)'
  <2>1. CASE j = k
    <3>1. fine /\ ~reader[h].suspect => ~Stale(k)'
      BY <1>1, <1>2 DEF Stale, UpToDate
    <3> QED
      BY <1>3, <1>6, <2>1, <3>1
  <2>2. CASE j # k
    <3>1. Stale(j)
      BY <1>1, <1>2, <1>6, <2>2 DEF Stale
    <3>2. j \in excused \/ Doomed(j)
      BY <3>1 DEF IInv, StaleIsWatched
    <3> QED
      BY <1>1, <1>3, <2>2, <3>2 DEF Doomed
  <2> QED
    BY <2>1, <2>2
<1>7. StaleIsWatched'
  BY <1>6 DEF StaleIsWatched, Keys, PriceKeys
<1> QED
  BY <1>1, <1>5, <1>7 DEF IInv

LEMMA StoreProductIsRight ==
  ASSUME IInv, NEW h \in Readers, StoreProduct(h)
  PROVE  IInv'
<1>1. /\ reader[h].step = "storeProduct" /\ faults' = faults /\ UNCHANGED <<dbVars, writer>>
      /\ Put(h, Product, reader[h].value, TRUE) /\ Reads(h, "readPrice", reader[h].value)
  BY DEF StoreProduct, At
<1>2. PICK d \in ReaderState :
        /\ reader' = [reader EXCEPT ![h] = d] /\ d.step = "readPrice"
        /\ d.value = reader[h].value /\ d.key = reader[h].key /\ d.suspect = reader[h].suspect
  BY <1>1, ReaderIs, ReadsIs
<1>3. Loaded(d) /\ Sees(d, product, rules, Writing)
  BY <1>1, <1>2, ReaderIs DEF Loaded, Sees, HasProduct, HasRules
<1>4. ReaderMoves(h, d)
  BY <1>1, <1>2, <1>3 DEF ReaderMoves
<1>5. reader[h].value.product # 0 /\ reader[h].value.rules = 0
  <2>1. reader[h].value.rules \in Nat
    BY ReaderIs DEF Value
  <2> QED
    BY <1>1, <2>1, ReaderIs DEF Loaded, HasProduct, HasRules
<1>6. ~reader[h].suspect => UpToDate(Product, reader[h].value)
  BY <1>1, ReaderIs, KeysAre DEF Sees, HasProduct, HasRules, UpToDate
<1> QED
  BY <1>1, <1>4, <1>5, <1>6, ReaderIs, KeysAre, PutIsRight

LEMMA StorePriceIsRight ==
  ASSUME IInv, NEW h \in Readers, StorePrice(h)
  PROVE  IInv'
<1> DEFINE fine == reader[h].key \in Foreign => reader[h].value.rate
<1>1. /\ reader[h].step = "storePrice" /\ faults' = faults /\ UNCHANGED <<dbVars, writer>>
      /\ Put(h, reader[h].key, reader[h].value, fine)
      /\ reader' = [reader EXCEPT ![h] = IdleReader]
  BY DEF StorePrice, At
<1>2. ReaderMoves(h, IdleReader)
  BY <1>1, IdleIs DEF ReaderMoves
<1>3. reader[h].value.product # 0 /\ reader[h].value.rules # 0 /\ reader[h].key \in PriceKeys
  BY <1>1, ReaderIs DEF Loaded, HasProduct, HasRules
<1>4. reader[h].key # Product
  BY <1>3, KeysAre
<1>5. fine /\ ~reader[h].suspect => UpToDate(reader[h].key, reader[h].value)
  BY <1>1, ReaderIs DEF Sees, HasProduct, HasRules, UpToDate
<1>6. fine \in BOOLEAN
  BY ReaderIs DEF Value
<1> HIDE DEF fine
<1> QED
  BY <1>1, <1>2, <1>3, <1>4, <1>5, <1>6, ReaderIs, PutIsRight

-------------------------------------------------------------------------------
(* Writers *)

(* What a change deletes: an update every key, a rule that is deleted every  *)
(* price; and there is something to delete.                                  *)
LEMMA ChunksDelete ==
  ASSUME NEW op \in Ops
  PROVE  /\ Chunks(op) \in Seq(SUBSET Keys) /\ Chunks(op) # <<>>
         /\ op = "update" => \A k \in Keys : Deletes(Chunks(op), k)
         /\ op = "deleteRule" => \A k \in PriceKeys : Deletes(Chunks(op), k)
<1>1. /\ PriceChunks \in Seq(SUBSET Keys) /\ PriceChunks # <<>>
      /\ DOMAIN PriceChunks = 1 .. Len(PriceChunks) /\ Len(PriceChunks) \in Nat
  <2>1. PriceChunks \in Seq(SUBSET PriceKeys) /\ SUBSET PriceKeys \subseteq SUBSET Keys
    BY CatalogAssumption DEF Keys
  <2> HIDE DEF PriceKeys
  <2> QED
    BY <2>1, CatalogAssumption
<1>2. \A k \in PriceKeys : \E n \in 1 .. Len(PriceChunks) : k \in PriceChunks[n]
  BY <1>1 DEF PriceKeys
<1>3. CASE op = "createRule"
  BY <1>3, KeysAre DEF Chunks
<1>4. CASE op = "deleteRule"
  BY <1>1, <1>2, <1>4 DEF Chunks, Deletes
<1>5. CASE op = "update"
  <2> DEFINE first == {Product} \cup Head(PriceChunks)
  <2> DEFINE rest == Tail(PriceChunks)
  <2>1. /\ Head(PriceChunks) \in SUBSET Keys /\ rest \in Seq(SUBSET Keys)
        /\ Len(rest) = Len(PriceChunks) - 1
        /\ \A n \in 1 .. Len(rest) : rest[n] = PriceChunks[n + 1]
    BY <1>1, HeadTailProperties
  <2>2. Head(PriceChunks) = PriceChunks[1]
    OBVIOUS
  <2>3. first \in SUBSET Keys
    BY <2>1, KeysAre
  <2> HIDE DEF first, rest
  <2>4. <<first>> \in Seq(SUBSET Keys) /\ Len(<<first>>) = 1 /\ <<first>>[1] = first
    BY <2>3
  <2> DEFINE one == <<first>>
  <2> HIDE DEF one
  <2>5. one \in Seq(SUBSET Keys) /\ Len(one) = 1 /\ one[1] = first
    BY <2>4 DEF one
  <2> DEFINE K == SUBSET Keys
  <2> HIDE DEF K
  <2>6. /\ one \o rest \in Seq(K)
        /\ Len(one \o rest) = Len(one) + Len(rest)
        /\ \A n \in 1 .. Len(one) + Len(rest) :
             (one \o rest)[n] = IF n <= Len(one) THEN one[n] ELSE rest[n - Len(one)]
    <3>1. one \in Seq(K) /\ rest \in Seq(K)
      BY <2>1, <2>5 DEF K
    <3> QED
      BY ONLY <3>1, ConcatProperties
  <2> DEFINE all == one \o rest
  <2> HIDE DEF all
  <2>7. /\ all \in Seq(SUBSET Keys) /\ Len(all) = Len(PriceChunks)
        /\ DOMAIN all = 1 .. Len(PriceChunks)
    <3>1. all \in Seq(SUBSET Keys) /\ Len(all) = 1 + Len(rest)
      BY <2>5, <2>6 DEF all, K
    <3>2. Len(all) = Len(PriceChunks)
      BY <1>1, <2>1, <3>1
    <3> QED
      BY <3>1, <3>2
  <2>8. all[1] = first /\ \A n \in 2 .. Len(PriceChunks) : all[n] = PriceChunks[n]
    <3>1. Len(PriceChunks) # 0
      BY <1>1
    <3>2. all[1] = first
      BY <1>1, <2>1, <2>5, <2>6, <3>1 DEF all
    <3>3. ASSUME NEW n \in 2 .. Len(PriceChunks) PROVE all[n] = PriceChunks[n]
      <4>1. all[n] = rest[n - 1]
        BY <1>1, <2>1, <2>5, <2>6 DEF all
      <4>2. n - 1 \in 1 .. Len(rest) /\ (n - 1) + 1 = n
        BY <1>1, <2>1
      <4> QED
        BY <2>1, <4>1, <4>2
    <3> QED
      BY <3>2, <3>3
  <2>9. ASSUME NEW k \in Keys PROVE Deletes(all, k)
    <3>1. CASE k = Product
      <4>1. 1 \in 1 .. Len(PriceChunks)
        BY <1>1
      <4> QED
        BY <2>7, <2>8, <3>1, <4>1 DEF Deletes, first
    <3>2. CASE k \in PriceKeys
      <4>1. PICK n \in 1 .. Len(PriceChunks) : k \in PriceChunks[n]
        BY <1>2, <3>2
      <4>2. k \in all[n]
        BY <2>2, <2>7, <2>8, <4>1 DEF first
      <4> QED
        BY <2>7, <2>8, <4>1, <4>2 DEF Deletes
    <3> QED
      BY <3>1, <3>2, KeysAre
  <2>10. all # <<>>
    BY <1>1, <2>7
  <2>11. Chunks(op) = all
    BY <1>5 DEF Chunks, all, one, first, rest
  <2> QED
    BY <1>5, <2>7, <2>9, <2>10, <2>11
<1> QED
  BY <1>3, <1>4, <1>5 DEF Ops

(* What is left when one chunk has been deleted.                             *)
LEMMA RestDeletes ==
  ASSUME NEW left \in Seq(SUBSET Keys), left # <<>>
  PROVE  /\ Head(left) \in SUBSET Keys /\ Tail(left) \in Seq(SUBSET Keys)
         /\ \A k : Deletes(left, k) => k \in Head(left) \/ Deletes(Tail(left), k)
         /\ \A k : Tail(left) = <<>> => ~Deletes(Tail(left), k)
<1>1. /\ Head(left) \in SUBSET Keys /\ Tail(left) \in Seq(SUBSET Keys)
      /\ Len(Tail(left)) = Len(left) - 1
      /\ \A i \in 1 .. Len(Tail(left)) : Tail(left)[i] = left[i + 1]
  BY HeadTailProperties
<1>2. Head(left) = left[1] /\ Len(left) \in Nat /\ Len(left) # 0 /\ DOMAIN left = 1 .. Len(left)
  OBVIOUS
<1>3. ASSUME NEW k, Deletes(left, k), k \notin Head(left) PROVE Deletes(Tail(left), k)
  <2>1. PICK n \in 1 .. Len(left) : k \in left[n]
    BY <1>2, <1>3 DEF Deletes
  <2>2. n # 1
    BY <1>2, <1>3, <2>1
  <2>3. n - 1 \in 1 .. Len(Tail(left)) /\ (n - 1) + 1 = n
    BY <1>1, <1>2, <2>1, <2>2
  <2>4. Tail(left)[n - 1] = left[n]
    BY <1>1, <2>3
  <2>5. DOMAIN Tail(left) = 1 .. Len(Tail(left))
    BY <1>1
  <2> QED
    BY <2>1, <2>3, <2>4, <2>5 DEF Deletes
<1> QED
  BY <1>1, <1>3 DEF Deletes

LEMMA WriterIs ==
  ASSUME IInv, NEW w \in Writers
  PROVE  /\ writer[w] \in WriterState /\ writer[w].op \in Ops
         /\ writer[w].left \in Seq(SUBSET Keys)
         /\ writer[w].step \in {"before", "after", "again"} => writer[w].left # <<>>
<1>1. writer[w] \in WriterState
  BY Known
<1>2. writer[w].op \in Ops /\ writer[w].left \in Seq(SUBSET Keys)
  BY <1>1 DEF WriterState
<1> QED
  BY <1>1, <1>2 DEF IInv, WritersAreRight

(* A writer goes on, with something to delete where it deletes.              *)
WriterMoves(w, d) ==
  /\ writer' = [writer EXCEPT ![w] = d] /\ d \in WriterState
  /\ d.step \in {"before", "after", "again"} => d.left # <<>>

LEMMA WriterMovesRight ==
  ASSUME IInv, NEW w \in Writers, NEW d, WriterMoves(w, d)
  PROVE  /\ writer' \in [Writers -> WriterState] /\ WritersAreRight' /\ writer'[w] = d
         /\ \A x \in Writers \ {w} : writer'[x] = writer[x]
<1>1. /\ writer' \in [Writers -> WriterState] /\ writer'[w] = d
      /\ \A x \in Writers \ {w} : writer'[x] = writer[x]
  BY Known DEF WriterMoves
<1>2. WritersAreRight'
  BY <1>1 DEF IInv, WritersAreRight, WriterMoves
<1> QED
  BY <1>1, <1>2

LEMMA WritesIs ==
  ASSUME IInv, NEW w \in Writers, NEW s \in {"idle", "before", "change", "after", "again"},
         NEW left \in Seq(SUBSET Keys), Writes(w, s, left),
         s \in {"before", "after", "again"} => left # <<>>
  PROVE  \E d \in WriterState : /\ WriterMoves(w, d) /\ d.step = s /\ d.left = left
                                /\ d.op = writer[w].op
<1>1. PICK c \in WriterState : c = writer[w]
  BY Known
<1> DEFINE d == [c EXCEPT !.step = s, !.left = left]
<1>2. writer' = [writer EXCEPT ![w] = d]
  BY <1>1 DEF Writes
<1>3. d \in WriterState /\ d.step = s /\ d.left = left /\ d.op = c.op
  BY DEF WriterState
<1> HIDE DEF d
<1> QED
  BY <1>1, <1>2, <1>3 DEF WriterMoves

LEMMA ReturnsIs ==
  ASSUME NEW w \in Writers, Returns(w)
  PROVE  WriterMoves(w, IdleWriter) /\ IdleWriter.step = "idle"
BY IdleIs DEF Returns, WriterMoves

(* While a writer is under way, a reader that is under way is suspect, so    *)
(* nothing a writer does turns a reader wrong.                               *)
LEMMA ReadersStayRight ==
  ASSUME IInv, UNCHANGED reader, Writing \/ UNCHANGED <<product, rules>>, Writing' => Writing
  PROVE  ReadersAreRight'
<1>1. ASSUME NEW h \in Readers PROVE Loaded(reader[h]) /\ Sees(reader[h], product', rules', Writing')
  <2>1. Loaded(reader[h]) /\ Sees(reader[h], product, rules, Writing)
    BY DEF IInv, ReadersAreRight
  <2>2. CASE Writing
    BY <2>1, <2>2 DEF Sees
  <2>3. CASE UNCHANGED <<product, rules>>
    BY <2>1, <2>3 DEF Sees
  <2> QED
    BY <2>1, <2>2, <2>3
<1> QED
  BY <1>1 DEF ReadersAreRight

LEMMA WhoWrites ==
  ASSUME IInv, NEW w \in Writers, NEW d, WriterMoves(w, d), writer[w].step # "idle"
  PROVE  Writing /\ (Writing' => Writing)
BY DEF Writing

(* What was typed in the cache and is not touched stays so.                  *)
LEMMA FewerAreStored ==
  ASSUME IInv, cached' \in [Keys -> Value],
         \A k \in Keys : cached'[k] = cached[k] \/ cached'[k] = Nothing
  PROVE  \A k \in Stored' : cached'[k].product # 0 /\ (k = Product <=> cached'[k].rules = 0)
<1> SUFFICES ASSUME NEW k \in Stored'
             PROVE  cached'[k].product # 0 /\ (k = Product <=> cached'[k].rules = 0)
  OBVIOUS
<1>1. k \in Stored /\ cached'[k] = cached[k]
  BY DEF Stored
<1> QED
  BY <1>1, Known

(* Everyone who is under way has been told: nobody has seen anything that    *)
(* may change.                                                               *)
LEMMA SuspectedAreRight ==
  ASSUME IInv, reader' = Suspected
  PROVE  reader' \in [Readers -> ReaderState] /\ ReadersAreRight'
<1>1. ASSUME NEW h \in Readers
      PROVE  /\ reader'[h] \in ReaderState /\ Loaded(reader'[h])
             /\ \A p, s, b : Sees(reader'[h], p, s, b)
  <2>1. CASE reader[h].step = "idle"
    <3>1. reader'[h] = reader[h]
      BY <2>1 DEF Suspected, At
    <3> QED
      BY <2>1, <3>1, ReaderIs DEF Sees
  <2>2. CASE reader[h].step # "idle"
    <3>1. PICK c \in ReaderState : c = reader[h]
      BY ReaderIs
    <3> DEFINE d == [c EXCEPT !.suspect = TRUE]
    <3>2. reader'[h] = d
      BY <2>2, <3>1 DEF Suspected, At
    <3>3. d \in ReaderState /\ d.step = c.step /\ d.value = c.value /\ d.key = c.key /\ d.suspect
      BY DEF ReaderState, Value
    <3> HIDE DEF d
    <3> QED
      BY <3>1, <3>2, <3>3, ReaderIs DEF Loaded, Sees
  <2> QED
    BY <2>1, <2>2
<1>2. reader' = [h \in Readers |-> reader'[h]]
  BY DEF Suspected
<1>3. reader' \in [Readers -> ReaderState]
  BY <1>1, <1>2
<1>4. ReadersAreRight'
  BY <1>1 DEF ReadersAreRight
<1> QED
  BY <1>3, <1>4

LEMMA BeginWriteIsRight ==
  ASSUME IInv, NEW w \in Writers, NEW op \in Ops, BeginWrite(w, op)
  PROVE  IInv'
<1> DEFINE d == [step |-> "before", op |-> op, left |-> Chunks(op)]
<1>1. /\ writer[w].step = "idle" /\ writer' = [writer EXCEPT ![w] = d] /\ reader' = Suspected
      /\ UNCHANGED <<product, rules, cached, excused, faults>>
  BY DEF BeginWrite, dbVars
<1>2. d \in WriterState /\ d.step = "before" /\ d.left # <<>>
  BY ChunksDelete DEF WriterState
<1> HIDE DEF d
<1>3. WriterMoves(w, d)
  BY <1>1, <1>2 DEF WriterMoves
<1>4. /\ writer' \in [Writers -> WriterState] /\ WritersAreRight' /\ writer'[w] = d
      /\ \A x \in Writers \ {w} : writer'[x] = writer[x]
  BY <1>3, WriterMovesRight
<1>5. reader' \in [Readers -> ReaderState] /\ ReadersAreRight'
  BY <1>1, SuspectedAreRight
<1>6. Stored' = Stored
  BY <1>1 DEF Stored
<1>7. TypeOK'
  BY <1>1, <1>4, <1>5, <1>6, Known, TypedAgain
<1>8. \A k : Doomed(k) => Doomed(k)'
  BY <1>1, <1>4 DEF Doomed
<1>9. StaleIsWatched'
  BY <1>1, <1>8 DEF IInv, StaleIsWatched, Stale
<1> QED
  BY <1>4, <1>5, <1>7, <1>9 DEF IInv

LEMMA InvalidateIsRight ==
  ASSUME IInv, NEW w \in Writers, Invalidate(w)
  PROVE  IInv'
<1> DEFINE keys == Head(writer[w].left)
<1> DEFINE left == Tail(writer[w].left)
<1>1. /\ writer[w].step \in {"before", "after", "again"}
      /\ cached' = [k \in Keys |-> IF k \in keys THEN Nothing ELSE cached[k]]
      /\ excused' = excused \ keys
      /\ UNCHANGED <<product, rules, reader, faults>>
  BY DEF Invalidate, dbVars
<1>2. \/ left # <<>> /\ Writes(w, writer[w].step, left)
      \/ left = <<>> /\ writer[w].step = "before" /\ Writes(w, "change", <<>>)
      \/ left = <<>> /\ Returns(w)
  BY DEF Invalidate
<1>3. /\ keys \in SUBSET Keys /\ left \in Seq(SUBSET Keys)
      /\ \A k : Deletes(writer[w].left, k) => k \in keys \/ Deletes(left, k)
      /\ \A k : left = <<>> => ~Deletes(left, k)
  BY <1>1, WriterIs, RestDeletes
<1> HIDE DEF keys, left
(* What the writer goes on with deletes what it was to delete and has not.   *)
<1>4. PICK d : /\ WriterMoves(w, d)
               /\ \A k : writer[w].step = "after" /\ Deletes(writer[w].left, k) /\ k \notin keys
                           => d.step = "after" /\ Deletes(d.left, k)
  <2>1. CASE left # <<>> /\ Writes(w, writer[w].step, left)
    <3>1. PICK s \in {"idle", "before", "change", "after", "again"} : s = writer[w].step
      BY <1>1
    <3>2. PICK d \in WriterState : WriterMoves(w, d) /\ d.step = s /\ d.left = left
      BY <1>3, <2>1, <3>1, WritesIs
    <3> QED
      BY <1>3, <3>1, <3>2
  <2>2. CASE left = <<>> /\ writer[w].step = "before" /\ Writes(w, "change", <<>>)
    <3>1. <<>> \in Seq(SUBSET Keys)
      OBVIOUS
    <3>2. PICK d \in WriterState : WriterMoves(w, d)
      BY <2>2, <3>1, WritesIs
    <3> QED
      BY <2>2, <3>2
  <2>3. CASE left = <<>> /\ Returns(w)
    BY <1>3, <2>3, ReturnsIs
  <2> QED
    BY <1>2, <2>1, <2>2, <2>3
<1>5. /\ writer' \in [Writers -> WriterState] /\ WritersAreRight' /\ writer'[w] = d
      /\ \A x \in Writers \ {w} : writer'[x] = writer[x]
  BY <1>4, WriterMovesRight
<1>6. ReadersAreRight'
  BY <1>1, <1>4, WhoWrites, ReadersStayRight
<1>7. /\ cached' \in [Keys -> Value]
      /\ \A k \in Keys : cached'[k] = IF k \in keys THEN Nothing ELSE cached[k]
  BY <1>1, Known, NothingIs
<1>8. TypeOK'
  <2>1. \A k \in Stored' : cached'[k].product # 0 /\ (k = Product <=> cached'[k].rules = 0)
    BY <1>7, FewerAreStored
  <2>2. excused' \subseteq Keys
    BY <1>1, Known
  <2> QED
    BY <1>1, <1>5, <1>7, <2>1, <2>2, Known, TypedAgain
<1>9. ASSUME NEW k \in Keys, Stale(k)' PROVE k \in excused' \/ Doomed(k)'
  <2>1. k \notin keys /\ cached'[k] = cached[k]
    BY <1>7, <1>9 DEF Stale
  <2>2. Stale(k)
    BY <1>1, <1>9, <2>1 DEF Stale
  <2>3. CASE k \in excused
    BY <1>1, <2>1, <2>3
  <2>4. CASE Doomed(k)
    <3>1. PICK x \in Writers : writer[x].step = "after" /\ Deletes(writer[x].left, k)
      BY <2>4 DEF Doomed
    <3>2. writer'[x].step = "after" /\ Deletes(writer'[x].left, k)
      BY <1>4, <1>5, <2>1, <3>1
    <3> QED
      BY <3>2 DEF Doomed
  <2> QED
    BY <2>2, <2>3, <2>4 DEF IInv, StaleIsWatched
<1>10. StaleIsWatched'
  BY <1>9 DEF StaleIsWatched, Keys, PriceKeys
<1> QED
  BY <1>5, <1>6, <1>8, <1>10 DEF IInv

LEMMA ChangeIsRight ==
  ASSUME IInv, NEW w \in Writers, Change(w)
  PROVE  IInv'
<1>1. PICK op \in Ops : op = writer[w].op
  BY WriterIs
<1>2. /\ writer[w].step = "change" /\ Writes(w, "after", Chunks(op))
      /\ UNCHANGED <<cached, reader, faults>>
      /\ excused' = IF op = "createRule" THEN excused \cup (Stored \ {Product}) ELSE excused
      /\ IF op = "update" THEN product' = product + 1 /\ rules' = rules
         ELSE rules' = rules + 1 /\ product' = product
  BY <1>1 DEF Change
<1>3. /\ Chunks(op) \in Seq(SUBSET Keys) /\ Chunks(op) # <<>>
      /\ op = "update" => \A k \in Keys : Deletes(Chunks(op), k)
      /\ op = "deleteRule" => \A k \in PriceKeys : Deletes(Chunks(op), k)
  BY ChunksDelete
<1>4. PICK d \in WriterState : WriterMoves(w, d) /\ d.step = "after" /\ d.left = Chunks(op)
  BY <1>2, <1>3, WritesIs
<1>5. /\ writer' \in [Writers -> WriterState] /\ WritersAreRight' /\ writer'[w] = d
      /\ \A x \in Writers \ {w} : writer'[x] = writer[x]
  BY <1>4, WriterMovesRight
<1>6. ReadersAreRight'
  BY <1>2, <1>4, WhoWrites, ReadersStayRight
<1>7. Stored' = Stored /\ Stored \subseteq Keys
  BY <1>2 DEF Stored
<1>8. product' \in Nat \ {0} /\ rules' \in Nat \ {0}
  <2>1. \A n \in Nat : n + 1 \in Nat \ {0}
    OBVIOUS
  <2> QED
    BY <1>2, <2>1, Known
<1>9. excused \subseteq excused' /\ excused' \subseteq Keys
  BY <1>2, <1>7, Known
<1>10. TypeOK'
  BY <1>2, <1>5, <1>7, <1>8, <1>9, Known, TypedAgain
<1>11. \A k : Deletes(Chunks(op), k) => Doomed(k)'
  BY <1>4, <1>5 DEF Doomed
<1>12. \A k : Doomed(k) => Doomed(k)'
  BY <1>2, <1>5 DEF Doomed
<1>13. ASSUME NEW k \in Keys, Stale(k)' PROVE k \in excused' \/ Doomed(k)'
  <2>1. CASE Stale(k)
    BY <1>9, <1>12, <2>1 DEF IInv, StaleIsWatched
  <2>2. CASE ~Stale(k)
    <3>1. k \in Stored /\ (op = "update" \/ k # Product)
      BY <1>2, <1>13, <2>2 DEF Stale, Stored
    <3>2. CASE op = "update"
      BY <1>3, <1>11, <3>2
    <3>3. CASE op = "deleteRule"
      BY <1>3, <1>11, <3>1, <3>3, KeysAre
    <3>4. CASE op = "createRule"
      BY <1>2, <3>1, <3>4
    <3> QED
      BY <3>2, <3>3, <3>4 DEF Ops
  <2> QED
    BY <2>1, <2>2
<1>14. StaleIsWatched'
  BY <1>13 DEF StaleIsWatched, Keys, PriceKeys
<1> QED
  BY <1>5, <1>6, <1>10, <1>14 DEF IInv

(* A writer that returns leaves no stale value that nobody excuses, if it    *)
(* has excused what it had to delete.                                        *)
LEMMA ReturnIsRight ==
  ASSUME IInv, NEW w \in Writers, writer[w].step # "idle", Returns(w),
         UNCHANGED <<dbVars, cached, reader>>, faults' \in Nat,
         excused' = Abandoned({w})
  PROVE  IInv'
<1>1. /\ UNCHANGED <<product, rules, cached, reader>>
      /\ WriterMoves(w, IdleWriter)
  BY ReturnsIs DEF dbVars
<1>2. /\ writer' \in [Writers -> WriterState] /\ WritersAreRight'
      /\ \A x \in Writers \ {w} : writer'[x] = writer[x]
  BY <1>1, WriterMovesRight
<1>3. ReadersAreRight'
  BY <1>1, WhoWrites, ReadersStayRight
<1>4. Stored' = Stored /\ Stored \subseteq Keys
  BY <1>1 DEF Stored
<1>5. /\ excused \subseteq excused' /\ excused' \subseteq Keys
      /\ writer[w].step = "after" => Stored \subseteq excused'
  BY <1>4, Known DEF Abandoned
<1>6. TypeOK'
  BY <1>1, <1>2, <1>4, <1>5, Known, TypedAgain
<1>7. ASSUME NEW k \in Keys, Stale(k)' PROVE k \in excused' \/ Doomed(k)'
  <2>1. Stale(k) /\ k \in Stored
    BY <1>1, <1>7 DEF Stale, Stored
  <2>2. CASE k \in excused
    BY <1>5, <2>2
  <2>3. CASE Doomed(k)
    <3>1. PICK x \in Writers : writer[x].step = "after" /\ Deletes(writer[x].left, k)
      BY <2>3 DEF Doomed
    <3>2. CASE x = w
      BY <1>5, <2>1, <3>1, <3>2
    <3>3. CASE x # w
      BY <1>2, <3>1, <3>3 DEF Doomed
    <3> QED
      BY <3>2, <3>3
  <2> QED
    BY <2>1, <2>2, <2>3 DEF IInv, StaleIsWatched
<1>8. StaleIsWatched'
  BY <1>7 DEF StaleIsWatched, Keys, PriceKeys
<1> QED
  BY <1>2, <1>3, <1>6, <1>8 DEF IInv

LEMMA ChangesNothingIsRight ==
  ASSUME IInv, NEW w \in Writers, ChangesNothing(w)
  PROVE  IInv'
<1>1. /\ writer[w].step = "change" /\ excused' = excused
      /\ UNCHANGED <<dbVars, cached, reader>> /\ faults' = faults /\ faults' \in Nat
      /\ \/ Returns(w)
         \/ Writes(w, "again", Chunks("deleteRule"))
  BY Known DEF ChangesNothing
<1>2. CASE Returns(w)
  <2>1. Abandoned({w}) = excused
    BY <1>1 DEF Abandoned
  <2> QED
    BY <1>1, <1>2, <2>1, ReturnIsRight
<1>3. CASE Writes(w, "again", Chunks("deleteRule"))
  <2>1. Chunks("deleteRule") \in Seq(SUBSET Keys) /\ Chunks("deleteRule") # <<>>
    BY ChunksDelete DEF Ops
  <2>2. PICK d \in WriterState : WriterMoves(w, d) /\ d.step = "again"
    BY <1>3, <2>1, WritesIs
  <2>3. /\ writer' \in [Writers -> WriterState] /\ WritersAreRight'
        /\ \A x \in Writers \ {w} : writer'[x] = writer[x]
    BY <2>2, WriterMovesRight
  <2>4. /\ UNCHANGED <<product, rules, cached, reader>>
        /\ Stored' = Stored
    BY <1>1 DEF Stored, dbVars
  <2>5. ReadersAreRight'
    BY <1>1, <2>2, <2>4, WhoWrites, ReadersStayRight
  <2>6. TypeOK'
    BY <1>1, <2>3, <2>4, Known, TypedAgain
  <2>7. \A k : Doomed(k) => Doomed(k)'
    BY <1>1, <2>3 DEF Doomed
  <2>8. StaleIsWatched'
    BY <1>1, <2>4, <2>7 DEF IInv, StaleIsWatched, Stale
  <2> QED
    BY <2>3, <2>5, <2>6, <2>8 DEF IInv
<1> QED
  BY <1>1, <1>2, <1>3

LEMMA WriteThrowsIsRight ==
  ASSUME IInv, NEW w \in Writers, WriteThrows(w)
  PROVE  IInv'
<1>1. faults' \in Nat
  BY Known DEF WriteThrows
<1>2. /\ writer[w].step # "idle" /\ Returns(w) /\ excused' = Abandoned({w})
      /\ UNCHANGED <<dbVars, cached, reader>>
  BY DEF WriteThrows
<1> QED
  BY <1>1, <1>2, ReturnIsRight

-------------------------------------------------------------------------------
(* The world *)

LEMMA RuleTurnsIsRight ==
  ASSUME IInv, RuleTurns
  PROVE  IInv'
<1>1. /\ rules' = rules + 1 /\ excused' = excused \cup (Stored \ {Product})
      /\ reader' = Suspected /\ UNCHANGED <<product, cached, writer, faults>>
  BY DEF RuleTurns
<1>2. reader' \in [Readers -> ReaderState] /\ ReadersAreRight'
  BY <1>1, SuspectedAreRight
<1>3. Stored' = Stored /\ Stored \subseteq Keys
  BY <1>1 DEF Stored
<1>4. rules' \in Nat \ {0}
  <2>1. \A n \in Nat : n + 1 \in Nat \ {0}
    OBVIOUS
  <2> QED
    BY <1>1, <2>1, Known
<1>5. TypeOK'
  BY <1>1, <1>2, <1>3, <1>4, Known, TypedAgain
<1>6. WritersAreRight'
  BY <1>1 DEF IInv, WritersAreRight
<1>7. ASSUME NEW k \in Keys, Stale(k)' PROVE k \in excused' \/ Doomed(k)'
  <2>1. CASE k \in Stored /\ k # Product
    BY <1>1, <2>1
  <2>2. CASE ~(k \in Stored /\ k # Product)
    <3>1. Stale(k)
      BY <1>1, <1>7, <2>2 DEF Stale, Stored
    <3> QED
      BY <1>1, <3>1 DEF IInv, StaleIsWatched, Doomed
  <2> QED
    BY <2>1, <2>2
<1>8. StaleIsWatched'
  BY <1>7 DEF StaleIsWatched, Keys, PriceKeys
<1> QED
  BY <1>2, <1>5, <1>6, <1>8 DEF IInv

LEMMA ExpireIsRight ==
  ASSUME IInv, NEW k \in Keys, Expire(k)
  PROVE  IInv'
<1>1. /\ cached' = [cached EXCEPT ![k] = Nothing] /\ excused' = excused \ {k}
      /\ UNCHANGED <<product, rules, reader, writer, faults>>
  BY DEF Expire, dbVars
<1>2. /\ cached' \in [Keys -> Value] /\ cached'[k] = Nothing
      /\ \A j \in Keys \ {k} : cached'[j] = cached[j]
  BY <1>1, Known, NothingIs
<1>3. TypeOK'
  <2>1. \A j \in Stored' : cached'[j].product # 0 /\ (j = Product <=> cached'[j].rules = 0)
    BY <1>2, FewerAreStored
  <2>2. excused' \subseteq Keys
    BY <1>1, Known
  <2> QED
    BY <1>1, <1>2, <2>1, <2>2, Known, TypedAgain
<1>4. ReadersAreRight' /\ WritersAreRight'
  BY <1>1 DEF IInv, ReadersAreRight, WritersAreRight, Writing
<1>5. ASSUME NEW j \in Keys, Stale(j)' PROVE j \in excused' \/ Doomed(j)'
  <2>1. j # k /\ cached'[j] = cached[j]
    BY <1>2, <1>5 DEF Stale
  <2>2. Stale(j)
    BY <1>1, <1>5, <2>1 DEF Stale
  <2> QED
    BY <1>1, <2>1, <2>2 DEF IInv, StaleIsWatched, Doomed
<1>6. StaleIsWatched'
  BY <1>5 DEF StaleIsWatched, Keys, PriceKeys
<1> QED
  BY <1>3, <1>4, <1>6 DEF IInv

LEMMA CrashIsRight ==
  ASSUME IInv, Crash
  PROVE  IInv'
<1>1. faults' \in Nat
  BY Known DEF Crash
<1>2. /\ excused' = Abandoned(Writers) /\ UNCHANGED <<product, rules, cached>>
      /\ reader' = [h \in Readers |-> IdleReader] /\ writer' = [w \in Writers |-> IdleWriter]
  BY DEF Crash, dbVars
<1>3. reader' \in [Readers -> ReaderState] /\ writer' \in [Writers -> WriterState]
  BY <1>2, IdleIs
<1>4. ReadersAreRight'
  BY <1>2, IdleIs DEF ReadersAreRight
<1>5. WritersAreRight'
  BY <1>2, IdleIs DEF WritersAreRight
<1>6. Stored' = Stored /\ Stored \subseteq Keys
  BY <1>2 DEF Stored
<1>7. /\ excused \subseteq excused' /\ excused' \subseteq Keys
      /\ (\E w \in Writers : writer[w].step = "after") => Stored \subseteq excused'
  BY <1>2, <1>6, Known DEF Abandoned
<1>8. TypeOK'
  BY <1>1, <1>2, <1>3, <1>6, <1>7, Known, TypedAgain
<1>9. ASSUME NEW k \in Keys, Stale(k)' PROVE k \in excused'
  <2>1. Stale(k) /\ k \in Stored
    BY <1>2, <1>9 DEF Stale, Stored
  <2> QED
    BY <1>7, <2>1 DEF IInv, StaleIsWatched, Doomed
<1>10. StaleIsWatched'
  BY <1>9 DEF StaleIsWatched, Keys, PriceKeys
<1> QED
  BY <1>4, <1>5, <1>8, <1>10 DEF IInv

-------------------------------------------------------------------------------
LEMMA StepIsRight ==
  ASSUME IInv, [Next]_vars
  PROVE  IInv'
<1>1. CASE \E h \in Readers : Read(h)
  BY <1>1, LoadProductIsRight, StoreProductIsRight, ReadPriceIsRight, LoadRulesIsRight,
     ConvertIsRight, StorePriceIsRight, ReadThrowsIsRight DEF Read
<1>2. CASE \E h \in Readers, k \in PriceKeys : ReadProduct(h, k)
  BY <1>2, ReadProductIsRight
<1>3. CASE \E w \in Writers : Write(w)
  BY <1>3, InvalidateIsRight, ChangeIsRight, ChangesNothingIsRight, WriteThrowsIsRight DEF Write
<1>4. CASE \E w \in Writers, op \in Ops : BeginWrite(w, op)
  BY <1>4, BeginWriteIsRight
<1>5. CASE RuleTurns
  BY <1>5, RuleTurnsIsRight
<1>6. CASE \E k \in Keys : Expire(k)
  BY <1>6, ExpireIsRight
<1>7. CASE Crash
  BY <1>7, CrashIsRight
<1>8. CASE UNCHANGED vars
  <2>1. UNCHANGED <<product, rules, cached, reader, writer, excused, faults>>
    BY <1>8 DEF vars, dbVars
  <2> QED
    BY <2>1 DEF IInv, TypeOK, ReadersAreRight, WritersAreRight, StaleIsWatched, Stored, Writing,
       Stale, Doomed
<1> QED
  BY <1>1, <1>2, <1>3, <1>4, <1>5, <1>6, <1>7, <1>8 DEF Next

(* The inductive invariant holds in every behaviour.                         *)
THEOREM CatalogInvariant == Spec => []IInv
<1>1. Init => IInv
  BY Begun
<1>2. IInv /\ [Next]_vars => IInv'
  BY StepIsRight
<1> QED
  BY <1>1, <1>2, PTL DEF Spec

(* Versions, caches, readers and writers are what the code keeps them to be: *)
(* a product in the cache says nothing of rules, a price always does.        *)
THEOREM CatalogTypeCorrect == Spec => []TypeOK
<1>1. IInv => TypeOK
  BY DEF IInv
<1> QED
  BY <1>1, CatalogInvariant, PTL

(* However readers, writers, their chunks and expiry interleave, when nobody *)
(* is changing anything a stale value in the cache has one of the causes     *)
(* StaleIsExcused lists: the invalidation before and after an update or the  *)
(* deletion of a rule leaves nothing else behind.                            *)
THEOREM StalePricesAreExcused == Spec => []StaleIsExcused
<1>1. IInv => StaleIsExcused
  BY DEF IInv, StaleIsWatched, StaleIsExcused, Doomed, Writing
<1> QED
  BY <1>1, CatalogInvariant, PTL
===============================================================================

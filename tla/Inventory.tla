------------------------------- MODULE Inventory -------------------------------
(***************************************************************************)
(* The inventory service: reservations, stock adjustments and the expiry   *)
(* job, as transactions that PostgreSQL runs concurrently under READ       *)
(* COMMITTED.  Each SQL statement that reads or writes a shared row is one  *)
(* action.  Inserts and updates nobody else can see before COMMIT (the new *)
(* reservation and its lines, movements, the status of a locked            *)
(* reservation) are folded into the neighbouring visible statement.        *)
(*                                                                         *)
(* A stock row has a committed version, stock[r], and at most one newer    *)
(* uncommitted version, newest[r], that belongs to the transaction holding *)
(* the row lock.  An UPDATE waits for the lock; a SELECT never does.       *)
(***************************************************************************)
EXTENDS Allocation

CONSTANTS
  Clients,       \* request handlers: concurrent HTTP requests
  Ticks,         \* runs of the expiry job; setInterval lets them overlap
  InitStock,     \* [Rows -> StockLevel], what db/seed inserts
  Demands,       \* the normalized requests clients make, [Products -> Nat]
  Deltas,        \* the adjustments clients make
  ClientOps,     \* the kinds of request clients make
  MaxRes,        \* bound: number of reservations
  MaxAdjusts,    \* bound: number of adjustments
  MaxCrashes,    \* bound: number of crashes of the process
  MaxPerTick,    \* MAX_EXPIRED_RESERVATIONS_PER_TICK
  NoTx           \* holder of a free lock

StockLevel == [onHand : Int, reserved : Int]

Ops == {"create", "commit", "release", "adjust"}

Txs == Clients \cup Ticks
Res == 1 .. MaxRes

NoProducts == [p \in Products |-> 0]
NoRows == [r \in Rows |-> 0]

ASSUME InventoryAssumption ==
  /\ InitStock \in [Rows -> [onHand : Nat, reserved : {0}]]
  /\ Demands \subseteq [Products -> Nat] \ {NoProducts}
  /\ Deltas \subseteq Int \ {0}
  /\ ClientOps \subseteq Ops
  /\ MaxRes \in Nat /\ MaxAdjusts \in Nat /\ MaxCrashes \in Nat
  /\ MaxPerTick \in Nat \ {0}
  /\ NoTx \notin Txs
  /\ Clients \cap Ticks = {}

VARIABLES
  stock,       \* stock_levels, committed
  newest,      \* stock_levels, newest version of each row
  rowLock,     \* transaction holding the row lock of a stock row
  status,      \* stock_reservations.status, committed ("absent": no row)
  lines,       \* stock_reservation_lines.qty by stock row, committed
  resLock,     \* transaction holding the FOR UPDATE lock of a reservation
  moved,       \* stock_movements of reason reservation_commit, committed
  adjusted,    \* stock_movements of adjustments, summed per row, committed
  tx,          \* what each transaction is doing
  batch,       \* what each tick has listed and not yet released
  demand,      \* what each reservation was asked to hold
  nextRes,     \* next reservation id, in the order of expires_at
  expiredUpTo, \* reservations with expires_at <= now()
  adjusts,     \* number of adjustments begun
  crashes,     \* number of crashes
  overwritten  \* a commit has overwritten a row it had not seen (history)

stockVars == <<stock, newest, rowLock>>
resVars == <<status, lines, resLock, demand, nextRes>>
moveVars == <<moved, adjusted>>
otherVars == <<expiredUpTo, adjusts, crashes, overwritten>>
vars == <<stockVars, resVars, moveVars, tx, batch, otherVars>>

-------------------------------------------------------------------------------
(* A transaction: the operation, the next statement, the reservation, the  *)
(* product quantities not planned yet, what the last SELECT returned, the  *)
(* row quantities not applied yet, those applied, and the adjusted row.    *)
Idle == [op |-> "idle", step |-> "update", res |-> 0, want |-> NoProducts,
         available |-> [w \in Warehouses |-> 0], todo |-> NoRows, done |-> NoRows,
         seen |-> [onHand |-> 0, reserved |-> 0], delta |-> NoRows]

TxState ==
  [op : Ops \cup {"idle"}, step : {"select", "update"}, res : {0} \cup Res,
   want : [Products -> Nat], available : [Warehouses -> Int], todo : [Rows -> Nat],
   done : [Rows -> Nat], seen : StockLevel, delta : [Rows -> Int]]

Init ==
  /\ stock = InitStock /\ newest = InitStock
  /\ rowLock = [r \in Rows |-> NoTx]
  /\ status = [i \in Res |-> "absent"]
  /\ lines = [i \in Res |-> NoRows]
  /\ resLock = [i \in Res |-> NoTx]
  /\ moved = [i \in Res |-> NoRows]
  /\ adjusted = NoRows
  /\ tx = [t \in Txs |-> Idle]
  /\ batch = [t \in Txs |-> {}]
  /\ demand = [i \in Res |-> NoProducts]
  /\ nextRes = 1
  /\ expiredUpTo = 0
  /\ adjusts = 0
  /\ crashes = 0
  /\ overwritten = FALSE

-------------------------------------------------------------------------------
(* The version of a row a statement of t sees. *)
View(t, r) == IF rowLock[r] = t THEN newest[r] ELSE stock[r]

Lockable(t, r) == rowLock[r] \in {NoTx, t}

(* The UPDATE of row r by t, when it need not wait. *)
WriteRow(t, r, level) ==
  /\ Lockable(t, r)
  /\ rowLock' = [rowLock EXCEPT ![r] = t]
  /\ newest' = [newest EXCEPT ![r] = level]
  /\ UNCHANGED stock

(* The row quantities of r are applied; the transaction goes on with s. *)
Advance(t, r, s) ==
  tx' = [tx EXCEPT ![t] = [tx[t] EXCEPT !.todo = [tx[t].todo EXCEPT ![r] = 0],
                                        !.done = [tx[t].done EXCEPT ![r] = tx[t].todo[r]],
                                        !.step = s]]

(* Locks go when a transaction ends. *)
Unlock(t) ==
  /\ rowLock' = [r \in Rows |-> IF rowLock[r] = t THEN NoTx ELSE rowLock[r]]
  /\ resLock' = [i \in Res |-> IF resLock[i] = t THEN NoTx ELSE resLock[i]]
  /\ tx' = [tx EXCEPT ![t] = Idle]

(* COMMIT makes the rows t wrote visible. *)
CommitTx(t) ==
  /\ stock' = [r \in Rows |-> View(t, r)]
  /\ UNCHANGED newest
  /\ Unlock(t)

(* ROLLBACK, because the handler threw or PostgreSQL failed a statement.   *)
(* A tick that throws forgets the rest of its batch.                       *)
Rollback(t) ==
  /\ newest' = [r \in Rows |-> IF rowLock[r] = t THEN stock[r] ELSE newest[r]]
  /\ UNCHANGED stock
  /\ Unlock(t)
  /\ batch' = [batch EXCEPT ![t] = {}]
  /\ UNCHANGED <<status, lines, demand, nextRes, moveVars, otherVars>>

(* Row order: lines are listed ORDER BY product_id, warehouse_id; a new    *)
(* reservation goes through a product's rows as planAllocations returned   *)
(* them.                                                                   *)
Before(t, r, q) ==
  IF tx[t].op = "create"
  THEN UsedBefore(tx[t].available, Warehouse(r), Warehouse(q))
  ELSE \/ Product(r) < Product(q)
       \/ Product(r) = Product(q) /\ Warehouse(r) < Warehouse(q)

Pending(t) == {r \in Rows : tx[t].todo[r] > 0}

IsNext(t, r) == r \in Pending(t) /\ \A q \in Pending(t) \ {r} : Before(t, r, q)

AllDone(t) == tx[t].todo = NoRows /\ tx[t].want = NoProducts

(* A client sends a request of kind o. *)
Asks(t, o) == t \in Clients /\ tx[t].op = "idle" /\ o \in ClientOps

-------------------------------------------------------------------------------
(* createReservation *)

(* BEGIN and createPending; expires_at is the clock plus the fixed TTL, so *)
(* reservations expire in the order of this insert.                        *)
BeginCreate(t, d) ==
  /\ Asks(t, "create")
  /\ nextRes \in Res
  /\ nextRes' = nextRes + 1
  /\ demand' = [demand EXCEPT ![nextRes] = d]
  /\ tx' = [tx EXCEPT ![t] = [Idle EXCEPT !.op = "create", !.res = nextRes, !.want = d]]
  /\ UNCHANGED <<stockVars, status, lines, resLock, moveVars, batch, otherVars>>

(* The next product to plan, in the order of the normalized lines. *)
IsNextProduct(t, p) ==
  /\ tx[t].want[p] > 0
  /\ \A q \in Products : tx[t].want[q] > 0 => p <= q

Candidates(t, p) ==
  [w \in Warehouses |-> View(t, <<w, p>>).onHand - View(t, <<w, p>>).reserved]

(* listAvailableForProduct and planAllocations for the next product. *)
Plan(t, p) ==
  /\ tx[t].op = "create" /\ tx[t].todo = NoRows
  /\ IsNextProduct(t, p)
  /\ \E plan \in GreedyPlans(tx[t].want[p], Candidates(t, p)) :
       tx' = [tx EXCEPT ![t] =
                [tx[t] EXCEPT !.want = [tx[t].want EXCEPT ![p] = 0],
                              !.available = Candidates(t, p),
                              !.todo = [r \in Rows |-> IF Product(r) = p
                                                       THEN plan[Warehouse(r)] ELSE 0]]]
  /\ UNCHANGED <<stockVars, resVars, moveVars, batch, otherVars>>

(* planAllocations throws: the SELECT showed too little stock. *)
PlanFails(t, p) ==
  /\ tx[t].op = "create" /\ tx[t].todo = NoRows
  /\ IsNextProduct(t, p)
  /\ GreedyPlans(tx[t].want[p], Candidates(t, p)) = {}
  /\ Rollback(t)

(* The guard of the UPDATE in reserveAvailable. *)
CanReserve(level, qty) == level.onHand - level.reserved >= qty

(* Mutated form: an UPDATE without the guard. *)
ReserveUnguarded(t, r) ==
  /\ tx[t].op = "create" /\ IsNext(t, r)
  /\ WriteRow(t, r, [View(t, r) EXCEPT !.reserved = @ + tx[t].todo[r]])
  /\ Advance(t, r, "update")
  /\ UNCHANGED <<resVars, moveVars, batch, otherVars>>

(* reserveAvailable and insertLine for the next allocation. *)
Reserve(t, r) ==
  /\ tx[t].op = "create" /\ IsNext(t, r)
  /\ CanReserve(View(t, r), tx[t].todo[r])
  /\ WriteRow(t, r, [View(t, r) EXCEPT !.reserved = @ + tx[t].todo[r]])
  /\ Advance(t, r, "update")
  /\ UNCHANGED <<resVars, moveVars, batch, otherVars>>

(* Mutated form: goes on with the next allocation instead of throwing. *)
ReserveSkips(t, r) ==
  /\ tx[t].op = "create" /\ IsNext(t, r)
  /\ ~CanReserve(View(t, r), tx[t].todo[r])
  /\ tx' = [tx EXCEPT ![t].todo[r] = 0]
  /\ UNCHANGED <<stockVars, resVars, moveVars, batch, otherVars>>

(* No row matched.  The row may be locked: a version that fails the guard  *)
(* in the statement's snapshot is skipped without waiting.                 *)
ReserveFails(t, r) ==
  /\ tx[t].op = "create" /\ IsNext(t, r)
  /\ ~CanReserve(View(t, r), tx[t].todo[r])
  /\ Rollback(t)

(* listLines and COMMIT: the reservation exists from here on. *)
FinishCreate(t) ==
  /\ tx[t].op = "create" /\ AllDone(t)
  /\ status' = [status EXCEPT ![tx[t].res] = "pending"]
  /\ lines' = [lines EXCEPT ![tx[t].res] = tx[t].done]
  /\ CommitTx(t)
  /\ UNCHANGED <<demand, nextRes, moveVars, batch, otherVars>>

-------------------------------------------------------------------------------
(* Mutated form: reads the reservation without FOR UPDATE. *)
BeginOnUnlocked(t, i, o, s) ==
  /\ status[i] = "pending"
  /\ resLock' = [resLock EXCEPT ![i] = t]
  /\ tx' = [tx EXCEPT ![t] = [Idle EXCEPT !.op = o, !.step = s, !.res = i,
                                          !.todo = lines[i]]]
  /\ UNCHANGED <<stockVars, status, lines, demand, nextRes, moveVars, batch, otherVars>>

(* Mutated form: no early return for a reservation that is committed. *)
BeginOnCommitted(t, i, o, s) ==
  /\ resLock[i] = NoTx
  /\ status[i] \in {"pending", "committed"}
  /\ resLock' = [resLock EXCEPT ![i] = t]
  /\ tx' = [tx EXCEPT ![t] = [Idle EXCEPT !.op = o, !.step = s, !.res = i,
                                          !.todo = lines[i]]]
  /\ UNCHANGED <<stockVars, status, lines, demand, nextRes, moveVars, batch, otherVars>>

(* findByIdForUpdate and listLines of a pending reservation.  The wait for *)
(* the lock is before BEGIN here: the transaction holds nothing yet.       *)
BeginOn(t, i, o, s) ==
  /\ resLock[i] = NoTx
  /\ status[i] = "pending"
  /\ resLock' = [resLock EXCEPT ![i] = t]
  /\ tx' = [tx EXCEPT ![t] = [Idle EXCEPT !.op = o, !.step = s, !.res = i,
                                          !.todo = lines[i]]]
  /\ UNCHANGED <<stockVars, status, lines, demand, nextRes, moveVars, batch, otherVars>>

(* Requests that change nothing: an unknown reservation (404), committing  *)
(* a committed one or releasing a released one (the stored result again),  *)
(* committing a released one or releasing a committed one (409).           *)
AnswerUnchanged(t, i, o) ==
  /\ Asks(t, o) /\ o \in {"commit", "release"}
  /\ resLock[i] = NoTx
  /\ status[i] # "pending"
  /\ UNCHANGED vars

(* commitReservation *)
BeginCommit(t, i) == Asks(t, "commit") /\ BeginOn(t, i, "commit", "select")

(* The SELECT of commitReserved, which takes no lock. *)
ReadLevel(t, r) ==
  /\ tx[t].op = "commit" /\ tx[t].step = "select" /\ IsNext(t, r)
  /\ View(t, r).reserved >= tx[t].todo[r]
  /\ View(t, r).onHand >= tx[t].todo[r]
  /\ tx' = [tx EXCEPT ![t] = [tx[t] EXCEPT !.step = "update", !.seen = View(t, r)]]
  /\ UNCHANGED <<stockVars, resVars, moveVars, batch, otherVars>>

(* commitReserved returns null: INSUFFICIENT_STOCK. *)
ReadLevelFails(t, r) ==
  /\ tx[t].op = "commit" /\ tx[t].step = "select" /\ IsNext(t, r)
  /\ \/ View(t, r).reserved < tx[t].todo[r]
     \/ View(t, r).onHand < tx[t].todo[r]
  /\ Rollback(t)

(* Mutated form: leaves the reserved quantity. *)
WriteLevelKeepsReserved(t, r) ==
  /\ tx[t].op = "commit" /\ tx[t].step = "update" /\ IsNext(t, r)
  /\ WriteRow(t, r, [tx[t].seen EXCEPT !.onHand = @ - tx[t].todo[r]])
  /\ Advance(t, r, "select")
  /\ UNCHANGED <<resVars, moveVars, batch, otherVars>>

(* The UPDATE of commitReserved stores what it computed from the SELECT,   *)
(* whatever the row holds by now; then the movement is inserted.           *)
WriteLevel(t, r) ==
  /\ tx[t].op = "commit" /\ tx[t].step = "update" /\ IsNext(t, r)
  /\ WriteRow(t, r, [onHand |-> tx[t].seen.onHand - tx[t].todo[r],
                     reserved |-> tx[t].seen.reserved - tx[t].todo[r]])
  /\ Advance(t, r, "select")
  /\ overwritten' = (overwritten \/ tx[t].seen # View(t, r))
  /\ UNCHANGED <<resVars, moveVars, batch, expiredUpTo, adjusts, crashes>>

(* Mutated form: books the movement with the wrong sign. *)
FinishCommitWrongSign(t) ==
  /\ tx[t].op = "commit" /\ AllDone(t)
  /\ status' = [status EXCEPT ![tx[t].res] = "committed"]
  /\ moved' = [moved EXCEPT ![tx[t].res] =
                 [r \in Rows |-> moved[tx[t].res][r] - tx[t].done[r]]]
  /\ CommitTx(t)
  /\ UNCHANGED <<lines, demand, nextRes, adjusted, batch, otherVars>>

(* setStatus and COMMIT. *)
FinishCommit(t) ==
  /\ tx[t].op = "commit" /\ AllDone(t)
  /\ status' = [status EXCEPT ![tx[t].res] = "committed"]
  /\ moved' = [moved EXCEPT ![tx[t].res] =
                 [r \in Rows |-> moved[tx[t].res][r] + tx[t].done[r]]]
  /\ CommitTx(t)
  /\ UNCHANGED <<lines, demand, nextRes, adjusted, batch, otherVars>>

-------------------------------------------------------------------------------
(* releaseReservation *)
BeginRelease(t, i) == Asks(t, "release") /\ BeginOn(t, i, "release", "update")

(* Mutated form: an UPDATE without the guard. *)
ReleaseRowUnguarded(t, r) ==
  /\ tx[t].op = "release" /\ IsNext(t, r)
  /\ WriteRow(t, r, [View(t, r) EXCEPT !.reserved = @ - tx[t].todo[r]])
  /\ Advance(t, r, "update")
  /\ UNCHANGED <<resVars, moveVars, batch, otherVars>>

(* releaseReserved for the next line. *)
ReleaseRow(t, r) ==
  /\ tx[t].op = "release" /\ IsNext(t, r)
  /\ View(t, r).reserved >= tx[t].todo[r]
  /\ WriteRow(t, r, [View(t, r) EXCEPT !.reserved = @ - tx[t].todo[r]])
  /\ Advance(t, r, "update")
  /\ UNCHANGED <<resVars, moveVars, batch, otherVars>>

(* releaseReserved returns null: INSUFFICIENT_STOCK. *)
ReleaseRowFails(t, r) ==
  /\ tx[t].op = "release" /\ IsNext(t, r)
  /\ View(t, r).reserved < tx[t].todo[r]
  /\ Rollback(t)

(* setStatus and COMMIT.  A tick goes on with the rest of its batch. *)
FinishRelease(t) ==
  /\ tx[t].op = "release" /\ AllDone(t)
  /\ status' = [status EXCEPT ![tx[t].res] = "released"]
  /\ CommitTx(t)
  /\ batch' = [batch EXCEPT ![t] = @ \ {tx[t].res}]
  /\ UNCHANGED <<lines, demand, nextRes, moveVars, otherVars>>

-------------------------------------------------------------------------------
(* adjust: adjustOnHand, then the movement and COMMIT. *)
BeginAdjust(t, r, d) ==
  /\ Asks(t, "adjust")
  /\ adjusts < MaxAdjusts
  /\ adjusts' = adjusts + 1
  /\ stock[r].onHand + d >= 0
  /\ WriteRow(t, r, [stock[r] EXCEPT !.onHand = @ + d])
  /\ tx' = [tx EXCEPT ![t] = [Idle EXCEPT !.op = "adjust",
                                          !.delta = [NoRows EXCEPT ![r] = d]]]
  /\ UNCHANGED <<resVars, moveVars, batch, expiredUpTo, crashes, overwritten>>

(* No such row (404), or on_hand would go negative (409). *)
AdjustFails(t, r, d) ==
  /\ Asks(t, "adjust")
  /\ stock[r].onHand + d < 0
  /\ UNCHANGED vars

FinishAdjust(t) ==
  /\ tx[t].op = "adjust"
  /\ adjusted' = [r \in Rows |-> adjusted[r] + tx[t].delta[r]]
  /\ CommitTx(t)
  /\ UNCHANGED <<status, lines, demand, nextRes, moved, batch, otherVars>>

-------------------------------------------------------------------------------
(* The expiry job *)

Expired == {i \in Res : i <= expiredUpTo}

(* Time passes the expires_at of the oldest unexpired reservation. *)
PassTime ==
  /\ expiredUpTo + 1 < nextRes
  /\ expiredUpTo' = expiredUpTo + 1
  /\ UNCHANGED <<stockVars, resVars, moveVars, tx, batch, adjusts, crashes, overwritten>>

(* Mutated form: misses the one that expires right now. *)
ListedStrictly ==
  {i \in Expired : status[i] = "pending" /\ i < expiredUpTo}

(* listExpiredPending: the oldest MaxPerTick of them. *)
Listed ==
  LET due == {i \in Expired : status[i] = "pending"}
  IN  {i \in due : Cardinality({j \in due : j < i}) < MaxPerTick}

StartTick(t) ==
  /\ t \in Ticks /\ tx[t].op = "idle" /\ batch[t] = {}
  /\ Listed # {}
  /\ batch' = [batch EXCEPT ![t] = Listed]
  /\ UNCHANGED <<stockVars, resVars, moveVars, tx, otherVars>>

IsNextInBatch(t, i) ==
  /\ tx[t].op = "idle" /\ i \in batch[t]
  /\ \A j \in batch[t] : i <= j

TickRelease(t, i) == IsNextInBatch(t, i) /\ BeginOn(t, i, "release", "update")

(* Somebody released it since it was listed: nothing to do. *)
TickSkips(t, i) ==
  /\ IsNextInBatch(t, i) /\ resLock[i] = NoTx
  /\ status[i] = "released"
  /\ batch' = [batch EXCEPT ![t] = @ \ {i}]
  /\ UNCHANGED <<stockVars, resVars, moveVars, tx, otherVars>>

(* Somebody committed it since it was listed: releaseReservation throws    *)
(* and the tick logs a warning, without the rest of the batch.             *)
TickThrows(t, i) ==
  /\ IsNextInBatch(t, i) /\ resLock[i] = NoTx
  /\ status[i] = "committed"
  /\ batch' = [batch EXCEPT ![t] = {}]
  /\ UNCHANGED <<stockVars, resVars, moveVars, tx, otherVars>>

-------------------------------------------------------------------------------
(* PostgreSQL's side *)

(* t is stopped in an UPDATE of a row another transaction has locked. *)
Blocked(t) ==
  \E r \in Rows :
    /\ IsNext(t, r) /\ ~Lockable(t, r)
    /\ \/ tx[t].op = "create" /\ CanReserve(stock[r], tx[t].todo[r])
       \/ tx[t].op = "commit" /\ tx[t].step = "update"
       \/ tx[t].op = "release" /\ stock[r].reserved >= tx[t].todo[r]

Blocker(t) == rowLock[CHOOSE r \in Rows : IsNext(t, r)]

(* A set of blocked transactions closed under, and covered by, "waits for" *)
(* is made of cycles.                                                      *)
Deadlocked(t) ==
  \E waiting \in SUBSET {u \in Txs : Blocked(u)} :
    t \in waiting /\ {Blocker(u) : u \in waiting} = waiting

(* Mutated form: no deadlock detection. *)
NeverAborted(t) == FALSE

(* The deadlock detector fails one of the statements in a cycle. *)
AbortDeadlocked(t) == Deadlocked(t) /\ Rollback(t)

(* The process or its connections die: every open transaction rolls back. *)
Crash ==
  /\ crashes < MaxCrashes
  /\ crashes' = crashes + 1
  /\ newest' = stock
  /\ rowLock' = [r \in Rows |-> NoTx]
  /\ resLock' = [i \in Res |-> NoTx]
  /\ tx' = [t \in Txs |-> Idle]
  /\ batch' = [t \in Txs |-> {}]
  /\ UNCHANGED <<stock, status, lines, demand, nextRes, moveVars, expiredUpTo, adjusts,
                 overwritten>>

-------------------------------------------------------------------------------
(* The next statement of an open transaction. *)
Statement(t) ==
  \/ \E p \in Products : Plan(t, p) \/ PlanFails(t, p)
  \/ \E r \in Rows : \/ Reserve(t, r) \/ ReserveFails(t, r)
                     \/ ReadLevel(t, r) \/ ReadLevelFails(t, r) \/ WriteLevel(t, r)
                     \/ ReleaseRow(t, r) \/ ReleaseRowFails(t, r)
  \/ FinishCreate(t) \/ FinishCommit(t) \/ FinishRelease(t) \/ FinishAdjust(t)
  \/ AbortDeadlocked(t)

(* A client's request. *)
Request(t) ==
  \/ \E d \in Demands : BeginCreate(t, d)
  \/ \E i \in Res : \/ BeginCommit(t, i) \/ BeginRelease(t, i)
                    \/ \E o \in Ops : AnswerUnchanged(t, i, o)
  \/ \E r \in Rows, d \in Deltas : BeginAdjust(t, r, d) \/ AdjustFails(t, r, d)

(* The expiry job between two transactions. *)
TickStep(t) ==
  \/ StartTick(t)
  \/ \E i \in Res : TickRelease(t, i) \/ TickSkips(t, i) \/ TickThrows(t, i)

Next ==
  \/ \E t \in Txs : Statement(t) \/ Request(t) \/ TickStep(t)
  \/ PassTime
  \/ Crash

Spec == Init /\ [][Next]_vars

(* Handlers run to their end, the timer keeps firing and time passes.  A   *)
(* statement that waits for a lock is in PostgreSQL's queue for it, so it  *)
(* is not overtaken for ever: strong fairness.  Clients owe no request.    *)
Fairness ==
  /\ \A t \in Txs : SF_vars(Statement(t))
  /\ \A t \in Ticks : SF_vars(TickStep(t))
  /\ WF_vars(PassTime)

FairSpec == Spec /\ Fairness

-------------------------------------------------------------------------------
TypeOK ==
  /\ stock \in [Rows -> StockLevel]
  /\ newest \in [Rows -> StockLevel]
  /\ rowLock \in [Rows -> Txs \cup {NoTx}]
  /\ status \in [Res -> {"absent", "pending", "committed", "released"}]
  /\ lines \in [Res -> [Rows -> Nat]]
  /\ resLock \in [Res -> Txs \cup {NoTx}]
  /\ moved \in [Res -> [Rows -> Nat]]
  /\ adjusted \in [Rows -> Int]
  /\ tx \in [Txs -> TxState]
  /\ batch \in [Txs -> SUBSET Res]
  /\ demand \in [Res -> [Products -> Nat]]
  /\ nextRes \in Nat \ {0}
  /\ expiredUpTo \in Nat
  /\ adjusts \in Nat
  /\ crashes \in Nat
  /\ overwritten \in BOOLEAN

(* No row ever shows negative stock (the stock_negative alert,             *)
(* docs/contracts.md:245), not even between two statements: nothing in the *)
(* schema forbids it, only the guards of the UPDATEs do.                   *)
StockNonNegative ==
  \A r \in Rows :
    /\ stock[r].onHand >= 0 /\ stock[r].reserved >= 0
    /\ newest[r].onHand >= 0 /\ newest[r].reserved >= 0

(* Only an adjustment, which does not look at reserved, makes a row promise *)
(* more than it holds: reserveAvailable checks the difference on the row it *)
(* has locked, and commitReserved lowers both columns by as much, until it  *)
(* has stored values computed from an older row.                            *)
ReservedWithinOnHand ==
  [][adjusted' = adjusted /\ ~overwritten' =>
       \A r \in Rows : stock[r].reserved <= stock[r].onHand
                        => stock'[r].reserved <= stock'[r].onHand]_vars

(* Reservations keep the promise of ReservationLedger: one that is         *)
(* committed or released stays so, its lines never change, and exactly its *)
(* lines are booked.  A commit, a release by the client and releases by    *)
(* overlapping ticks cannot all go through.                                *)
Ledger == INSTANCE ReservationLedger WITH Row <- Rows, Reservation <- Res

LedgerIsKept == Ledger!Spec

(* The movements of a reservation are its lines, once each, if it is       *)
(* committed, and none at all otherwise, whatever was retried or rolled    *)
(* back in between.                                                        *)
MovementsMatchCommits ==
  \A i \in Res :
    moved[i] = IF status[i] = "committed" THEN lines[i] ELSE NoRows

(* What was asked for, product by product. *)
LinesCoverDemand ==
  \A i \in Res : status[i] # "absent" =>
    \A p \in Products :
      IF demand[i][p] = 0
      THEN \A w \in Warehouses : lines[i][<<w, p>>] = 0
      ELSE SumFunction([w \in Warehouses |-> lines[i][<<w, p>>]]) = demand[i][p]

(* reserved is the total of the lines of the pending reservations. *)
ReservedMatchesPending ==
  \A r \in Rows :
    stock[r].reserved =
      SumFunction([i \in {j \in Res : status[j] = "pending"} |-> lines[i][r]])

(* on_hand is the initial stock with all movements applied. *)
OnHandMatchesMovements ==
  \A r \in Rows :
    stock[r].onHand = InitStock[r].onHand + adjusted[r]
                        - SumFunction([i \in Res |-> moved[i][r]])

(* A reservation holds what was asked for, although its lines are chosen   *)
(* from one statement's view of the stock and taken in later statements    *)
(* (reservationService.ts:54-64), and the stock columns agree with the     *)
(* reservations and the movements: the only thing in this code that can    *)
(* spoil them is commitReserved storing levels computed from a row that    *)
(* has changed meanwhile (stockLevelsRepository.ts:72-79).                 *)
BooksAgree ==
  /\ LinesCoverDemand
  /\ ~overwritten => ReservedMatchesPending /\ OnHandMatchesMovements

(* The abstract service, each of whose requests is a single step. *)
Promise == INSTANCE StockPromise
             WITH Row <- Rows, Reservation <- Res, Asked <- Demands,
                  Initial <- InitStock, ProductOf <- Product

(* Until then concurrent requests have the effect of running one after the *)
(* other, each in a single step (module StockPromise), although each is    *)
(* many statements that see other transactions commit in between.          *)
RequestsAreAtomic ==
  Promise!Init /\ [][overwritten' \/ Promise!Next]_(Promise!vars)

CommitDecrements(i) ==
  status[i] = "pending" /\ status'[i] = "committed" =>
    \A r \in Rows :
      /\ stock'[r].onHand = stock[r].onHand - lines[i][r]
      /\ stock'[r].reserved = stock[r].reserved - lines[i][r]

(* docs/contracts.md:158: "POST /reservations/:id/commit -> decrements     *)
(* on_hand, releases reserved": the commit of a reservation lowers the     *)
(* stock everybody sees by its lines and by nothing else.                  *)
CommitDecrementsStock == [][\A i \in Res : CommitDecrements(i)]_vars

(* Every transaction ends, although createReservation locks the rows of a  *)
(* product by availability and the others by warehouse id, so that two of  *)
(* them can wait for each other.                                           *)
TransactionsEnd == \A t \in Txs : []<>(tx[t].op = "idle")

(* A pending reservation holds more of a row than reserved says: both      *)
(* commitReserved and releaseReserved refuse it.                           *)
Unreleasable(i) ==
  status[i] = "pending" /\ \E r \in Rows : stock[r].reserved < lines[i][r]

(* A reservation past its expires_at does not hold stock for ever, whatever *)
(* commits and releases by clients race the expiry job.  The exception is  *)
(* what a lost update does: reserved is then too low, the release of a     *)
(* reservation fails for good, and since a tick goes through the oldest    *)
(* first and ends at the first that throws (reservationService.ts:171-174), *)
(* the younger ones stay pending with it.                                  *)
ExpiredAreReleased ==
  \A i \in Res :
    []<>(i \in Expired => \/ status[i] # "pending"
                          \/ overwritten /\ \E j \in 1 .. i : Unreleasable(j))
===============================================================================

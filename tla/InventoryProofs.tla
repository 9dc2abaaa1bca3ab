---------------------------- MODULE InventoryProofs ----------------------------
(***************************************************************************)
(* What holds of the inventory service for every set of rows, requests and *)
(* transactions.                                                           *)
(***************************************************************************)
EXTENDS Inventory, AllocationProofs

-------------------------------------------------------------------------------
(* Types *)

LEMMA ViewType ==
  ASSUME TypeOK, NEW t \in Txs, NEW r \in Rows
  PROVE  View(t, r) \in StockLevel
  BY DEF TypeOK, View

LEMMA IdleType == Idle \in TxState
  BY IdsAreNumbered DEF Idle, TxState, NoProducts, NoRows, StockLevel

(* The parts of TypeOK about the stock rows, kept by a single UPDATE. *)
LEMMA WriteRowType ==
  ASSUME TypeOK, NEW t \in Txs, NEW r \in Rows, NEW level \in StockLevel,
         WriteRow(t, r, level)
  PROVE  /\ stock' \in [Rows -> StockLevel]
         /\ newest' \in [Rows -> StockLevel]
         /\ rowLock' \in [Rows -> Txs \cup {NoTx}]
  BY DEF TypeOK, WriteRow

LEMMA AdvanceType ==
  ASSUME TypeOK, NEW t \in Txs, NEW r \in Rows, NEW s \in {"select", "update"},
         Advance(t, r, s)
  PROVE  tx' \in [Txs -> TxState]
  <1>1. tx[t] \in TxState
    BY DEF TypeOK
  <1>2. /\ [tx[t].todo EXCEPT ![r] = 0] \in [Rows -> Nat]
        /\ [tx[t].done EXCEPT ![r] = tx[t].todo[r]] \in [Rows -> Nat]
    BY <1>1 DEF TxState
  <1>3. [tx[t] EXCEPT !.todo = [tx[t].todo EXCEPT ![r] = 0],
                      !.done = [tx[t].done EXCEPT ![r] = tx[t].todo[r]],
                      !.step = s] \in TxState
    BY <1>1, <1>2 DEF TxState
  <1>. QED
    BY <1>3 DEF TypeOK, Advance

LEMMA UnlockType ==
  ASSUME TypeOK, NEW t \in Txs, Unlock(t)
  PROVE  /\ rowLock' \in [Rows -> Txs \cup {NoTx}]
         /\ resLock' \in [Res -> Txs \cup {NoTx}]
         /\ tx' \in [Txs -> TxState]
  BY IdleType DEF TypeOK, Unlock

LEMMA CommitTxType ==
  ASSUME TypeOK, NEW t \in Txs, CommitTx(t)
  PROVE  /\ stock' \in [Rows -> StockLevel]
         /\ newest' \in [Rows -> StockLevel]
         /\ rowLock' \in [Rows -> Txs \cup {NoTx}]
         /\ resLock' \in [Res -> Txs \cup {NoTx}]
         /\ tx' \in [Txs -> TxState]
  BY ViewType, UnlockType DEF CommitTx, TypeOK

LEMMA RollbackType ==
  ASSUME TypeOK, NEW t \in Txs, Rollback(t)
  PROVE  TypeOK'
  BY UnlockType DEF Rollback, TypeOK, resVars, moveVars, otherVars

LEMMA BeginOnType ==
  ASSUME TypeOK, NEW t \in Txs, NEW i \in Res,
         NEW o \in Ops, NEW s \in {"select", "update"}, BeginOn(t, i, o, s)
  PROVE  TypeOK'
  <1>1. [Idle EXCEPT !.op = o, !.step = s, !.res = i, !.todo = lines[i]] \in TxState
    BY IdleType DEF TxState, TypeOK
  <1>. QED
    BY <1>1 DEF BeginOn, TypeOK, stockVars, moveVars, otherVars

(* No step of the code takes a variable out of its type: TypeOK is         *)
(* inductive by itself.                                                    *)
LEMMA StatementType ==
  ASSUME TypeOK, NEW t \in Txs, Statement(t)
  PROVE  TypeOK'
  <1>0. tx[t] \in TxState
    BY DEF TypeOK
  <1>1. ASSUME NEW p \in Products, Plan(t, p)
        PROVE  TypeOK'
    <2>1. PICK plan \in GreedyPlans(tx[t].want[p], Candidates(t, p)) :
            tx' = [tx EXCEPT ![t] =
                    [tx[t] EXCEPT !.want = [tx[t].want EXCEPT ![p] = 0],
                                  !.available = Candidates(t, p),
                                  !.todo = [r \in Rows |-> IF Product(r) = p
                                                           THEN plan[Warehouse(r)] ELSE 0]]]
      BY <1>1 DEF Plan
    <2>2. tx[t].want[p] \in Nat /\ [tx[t].want EXCEPT ![p] = 0] \in [Products -> Nat]
      BY <1>0 DEF TxState
    <2>3. Candidates(t, p) \in [Warehouses -> Int]
      <3>1. ASSUME NEW w \in Warehouses
            PROVE  View(t, <<w, p>>).onHand - View(t, <<w, p>>).reserved \in Int
        <4>1. <<w, p>> \in Rows
          BY DEF Rows
        <4>2. View(t, <<w, p>>) \in StockLevel
          BY <4>1, ViewType
        <4>. QED
          BY <4>2 DEF StockLevel
      <3>. QED
        BY <3>1 DEF Candidates
    <2>4. plan \in [Warehouses -> Nat]
      BY <2>2, <2>3 DEF GreedyPlans
    <2>5. [r \in Rows |-> IF Product(r) = p THEN plan[Warehouse(r)] ELSE 0] \in [Rows -> Nat]
      BY <2>4 DEF Rows, Warehouse, Product
    <2>6. [tx[t] EXCEPT !.want = [tx[t].want EXCEPT ![p] = 0],
                        !.available = Candidates(t, p),
                        !.todo = [r \in Rows |-> IF Product(r) = p
                                                 THEN plan[Warehouse(r)] ELSE 0]] \in TxState
      BY <1>0, <2>2, <2>3, <2>5 DEF TxState
    <2>. QED
      BY <1>1, <2>1, <2>6 DEF Plan, TypeOK, stockVars, resVars, moveVars, otherVars
  <1>2. ASSUME NEW p \in Products, PlanFails(t, p)
        PROVE  TypeOK'
    BY <1>2, RollbackType DEF PlanFails
  <1>3. ASSUME NEW r \in Rows, Reserve(t, r)
        PROVE  TypeOK'
    <2>1. tx[t].todo[r] \in Nat
      BY <1>0 DEF TxState
    <2>2. [View(t, r) EXCEPT !.reserved = @ + tx[t].todo[r]] \in StockLevel
      BY <2>1, ViewType DEF StockLevel
    <2>. QED
      BY <1>3, <2>2, WriteRowType, AdvanceType DEF Reserve, TypeOK, resVars, moveVars, otherVars
  <1>4. ASSUME NEW r \in Rows, ReserveFails(t, r)
        PROVE  TypeOK'
    BY <1>4, RollbackType DEF ReserveFails
  <1>5. ASSUME NEW r \in Rows, ReadLevel(t, r)
        PROVE  TypeOK'
    <2>1. [tx[t] EXCEPT !.step = "update", !.seen = View(t, r)] \in TxState
      BY <1>0, ViewType DEF TxState
    <2>. QED
      BY <1>5, <2>1 DEF ReadLevel, TypeOK, stockVars, resVars, moveVars, otherVars
  <1>6. ASSUME NEW r \in Rows, ReadLevelFails(t, r)
        PROVE  TypeOK'
    BY <1>6, RollbackType DEF ReadLevelFails
  <1>7. ASSUME NEW r \in Rows, WriteLevel(t, r)
        PROVE  TypeOK'
    <2>1. tx[t].todo[r] \in Nat /\ tx[t].seen \in StockLevel
      BY <1>0 DEF TxState
    <2>2. [onHand |-> tx[t].seen.onHand - tx[t].todo[r],
           reserved |-> tx[t].seen.reserved - tx[t].todo[r]] \in StockLevel
      BY <2>1 DEF StockLevel
    <2>. QED
      BY <1>7, <2>2, WriteRowType, AdvanceType DEF WriteLevel, TypeOK, resVars, moveVars, otherVars
  <1>8. ASSUME NEW r \in Rows, ReleaseRow(t, r)
        PROVE  TypeOK'
    <2>1. tx[t].todo[r] \in Nat
      BY <1>0 DEF TxState
    <2>2. [View(t, r) EXCEPT !.reserved = @ - tx[t].todo[r]] \in StockLevel
      BY <2>1, ViewType DEF StockLevel
    <2>. QED
      BY <1>8, <2>2, WriteRowType, AdvanceType DEF ReleaseRow, TypeOK, resVars, moveVars, otherVars
  <1>9. ASSUME NEW r \in Rows, ReleaseRowFails(t, r)
        PROVE  TypeOK'
    BY <1>9, RollbackType DEF ReleaseRowFails
  <1>10. ASSUME FinishCreate(t)
         PROVE  TypeOK'
    BY <1>0, <1>10, CommitTxType DEF FinishCreate, TypeOK, TxState, moveVars, otherVars
  <1>11. ASSUME FinishCommit(t)
         PROVE  TypeOK'
    <2>1. moved' \in [Res -> [Rows -> Nat]]
      <3>1. tx[t].done \in [Rows -> Nat]
        BY <1>0 DEF TxState
      <3>2. ASSUME tx[t].res \in Res
            PROVE  [r \in Rows |-> moved[tx[t].res][r] + tx[t].done[r]] \in [Rows -> Nat]
        BY <3>1, <3>2 DEF TypeOK
      <3>. QED
        BY <1>11, <3>2 DEF FinishCommit, TypeOK
    <2>. QED
      BY <1>11, <2>1, CommitTxType DEF FinishCommit, TypeOK, otherVars
  <1>12. ASSUME FinishRelease(t)
         PROVE  TypeOK'
    BY <1>12, CommitTxType DEF FinishRelease, TypeOK, moveVars, otherVars
  <1>13. ASSUME FinishAdjust(t)
         PROVE  TypeOK'
    <2>1. adjusted' \in [Rows -> Int]
      BY <1>0, <1>13 DEF FinishAdjust, TypeOK, TxState
    <2>. QED
      BY <1>13, <2>1, CommitTxType DEF FinishAdjust, TypeOK, otherVars
  <1>14. ASSUME AbortDeadlocked(t)
         PROVE  TypeOK'
    BY <1>14, RollbackType DEF AbortDeadlocked
  <1>. QED
    BY <1>1, <1>2, <1>3, <1>4, <1>5, <1>6, <1>7, <1>8, <1>9, <1>10, <1>11, <1>12, <1>13, <1>14
    DEF Statement

LEMMA RequestType ==
  ASSUME TypeOK, NEW t \in Txs, Request(t)
  PROVE  TypeOK'
  <1>1. ASSUME NEW d \in Demands, BeginCreate(t, d)
        PROVE  TypeOK'
    <2>1. d \in [Products -> Nat]
      BY InventoryAssumption
    <2>2. [Idle EXCEPT !.op = "create", !.res = nextRes, !.want = d] \in TxState
      BY <1>1, <2>1, IdleType DEF BeginCreate, TxState, Ops
    <2>. QED
      BY <1>1, <2>1, <2>2 DEF BeginCreate, TypeOK, stockVars, moveVars, otherVars
  <1>2. ASSUME NEW i \in Res, BeginCommit(t, i)
        PROVE  TypeOK'
    BY <1>2, BeginOnType DEF BeginCommit, Ops
  <1>3. ASSUME NEW i \in Res, BeginRelease(t, i)
        PROVE  TypeOK'
    BY <1>3, BeginOnType DEF BeginRelease, Ops
  <1>4. ASSUME NEW i \in Res, NEW o \in Ops, AnswerUnchanged(t, i, o)
        PROVE  TypeOK'
    BY <1>4 DEF AnswerUnchanged, TypeOK, vars, stockVars, resVars, moveVars, otherVars
  <1>5. ASSUME NEW r \in Rows, NEW d \in Deltas, BeginAdjust(t, r, d)
        PROVE  TypeOK'
    <2>1. d \in Int
      BY InventoryAssumption
    <2>2. [stock[r] EXCEPT !.onHand = @ + d] \in StockLevel
      <3>1. stock[r] \in StockLevel
        BY DEF TypeOK
      <3>. QED
        BY <2>1, <3>1 DEF StockLevel
    <2>3. [NoRows EXCEPT ![r] = d] \in [Rows -> Int]
      BY <2>1 DEF NoRows
    <2>4. [Idle EXCEPT !.op = "adjust", !.delta = [NoRows EXCEPT ![r] = d]] \in TxState
      BY <2>3, IdleType DEF TxState, Ops
    <2>. QED
      BY <1>5, <2>2, <2>4, WriteRowType DEF BeginAdjust, TypeOK, resVars, moveVars
  <1>6. ASSUME NEW r \in Rows, NEW d \in Deltas, AdjustFails(t, r, d)
        PROVE  TypeOK'
    BY <1>6 DEF AdjustFails, TypeOK, vars, stockVars, resVars, moveVars, otherVars
  <1>. QED
    BY <1>1, <1>2, <1>3, <1>4, <1>5, <1>6 DEF Request

LEMMA TickStepType ==
  ASSUME TypeOK, NEW t \in Txs, TickStep(t)
  PROVE  TypeOK'
  <1>1. ASSUME StartTick(t)
        PROVE  TypeOK'
    BY <1>1 DEF StartTick, Listed, Expired, TypeOK, stockVars, resVars, moveVars, otherVars
  <1>2. ASSUME NEW i \in Res, TickRelease(t, i)
        PROVE  TypeOK'
    BY <1>2, BeginOnType DEF TickRelease, Ops
  <1>3. ASSUME NEW i \in Res, TickSkips(t, i)
        PROVE  TypeOK'
    BY <1>3 DEF TickSkips, TypeOK, stockVars, resVars, moveVars, otherVars
  <1>4. ASSUME NEW i \in Res, TickThrows(t, i)
        PROVE  TypeOK'
    BY <1>4 DEF TickThrows, TypeOK, stockVars, resVars, moveVars, otherVars
  <1>. QED
    BY <1>1, <1>2, <1>3, <1>4 DEF TickStep

LEMMA InitType == Init => TypeOK
  <1>. SUFFICES ASSUME Init
                PROVE  TypeOK
    OBVIOUS
  <1>1. InitStock \in [Rows -> StockLevel]
    BY InventoryAssumption DEF StockLevel
  <1>2. NoRows \in [Rows -> Nat] /\ NoRows \in [Rows -> Int] /\ NoProducts \in [Products -> Nat]
    BY DEF NoRows, NoProducts
  <1>3. stock \in [Rows -> StockLevel] /\ newest \in [Rows -> StockLevel]
    BY <1>1 DEF Init
  <1>4. tx \in [Txs -> TxState]
    BY IdleType DEF Init
  <1>5. /\ rowLock \in [Rows -> Txs \cup {NoTx}]
        /\ status \in [Res -> {"absent", "pending", "committed", "released"}]
        /\ lines \in [Res -> [Rows -> Nat]]
        /\ resLock \in [Res -> Txs \cup {NoTx}]
        /\ moved \in [Res -> [Rows -> Nat]]
    BY <1>2 DEF Init
  <1>6. /\ adjusted \in [Rows -> Int]
        /\ batch \in [Txs -> SUBSET Res]
        /\ demand \in [Res -> [Products -> Nat]]
    BY <1>2 DEF Init
  <1>7. /\ nextRes \in Nat \ {0} /\ expiredUpTo \in Nat
        /\ adjusts \in Nat /\ crashes \in Nat
    BY SMT DEF Init
  <1>8. overwritten \in BOOLEAN
    BY Zenon DEF Init
  <1>. QED
    BY <1>3, <1>4, <1>5, <1>6, <1>7, <1>8 DEF TypeOK

LEMMA NextType == TypeOK /\ [Next]_vars => TypeOK'
  <1>. SUFFICES ASSUME TypeOK, [Next]_vars
                PROVE  TypeOK'
    OBVIOUS
  <1>1. CASE PassTime
    BY <1>1 DEF PassTime, TypeOK, stockVars, resVars, moveVars
  <1>2. CASE Crash
    BY <1>2, IdleType DEF Crash, TypeOK, moveVars
  <1>3. CASE UNCHANGED vars
    BY <1>3 DEF TypeOK, vars, stockVars, resVars, moveVars, otherVars
  <1>. QED
    BY <1>1, <1>2, <1>3, StatementType, RequestType, TickStepType DEF Next

(* The type invariant, for any number of rows, clients and ticks. *)
THEOREM TypeCorrect == Spec => []TypeOK
  BY InitType, NextType, PTL DEF Spec

-------------------------------------------------------------------------------
(* No negative stock.  The absolute values that commitReserved stores are  *)
(* not negative because it checked the version it read: the inductive      *)
(* invariant remembers that check between the SELECT and the UPDATE.       *)

SeenCovers ==
  \A t \in Txs, r \in Rows :
    tx[t].op = "commit" /\ tx[t].step = "update" /\ IsNext(t, r) =>
      tx[t].seen.onHand >= tx[t].todo[r] /\ tx[t].seen.reserved >= tx[t].todo[r]

NonNegativeInv == TypeOK /\ StockNonNegative /\ SeenCovers

(* The order of the rows is strict, so there is one next row at most. *)
LEMMA NextIsUnique ==
  ASSUME TypeOK, NEW t \in Txs, NEW r \in Rows, NEW q \in Rows,
         IsNext(t, r), IsNext(t, q)
  PROVE  r = q
  <1>. SUFFICES ASSUME r # q
                PROVE  FALSE
    OBVIOUS
  <1>1. Before(t, r, q) /\ Before(t, q, r)
    BY DEF IsNext
  <1>2. /\ Warehouse(r) \in Nat /\ Warehouse(q) \in Nat
        /\ Product(r) \in Nat /\ Product(q) \in Nat
    BY IdsAreNumbered DEF Rows, Warehouse, Product
  <1>3. /\ Warehouse(r) \in Warehouses /\ Warehouse(q) \in Warehouses
        /\ tx[t].available \in [Warehouses -> Int]
    BY DEF Rows, Warehouse, TypeOK, TxState
  <1>4. CASE tx[t].op = "create"
    <2>1. UsedBefore(tx[t].available, Warehouse(r), Warehouse(q))
      BY <1>1, <1>4 DEF Before
    <2>2. UsedBefore(tx[t].available, Warehouse(q), Warehouse(r))
      BY <1>1, <1>4 DEF Before
    <2>. QED
      BY <1>2, <1>3, <2>1, <2>2 DEF UsedBefore
  <1>5. CASE tx[t].op # "create"
    BY <1>1, <1>2, <1>5 DEF Before
  <1>. QED
    BY <1>4, <1>5

LEMMA SameTxSameNext ==
  ASSUME NEW t \in Txs, NEW r \in Rows, tx'[t] = tx[t]
  PROVE  IsNext(t, r)' <=> IsNext(t, r)
  BY DEF IsNext, Pending, Before

(* A step of t that leaves it anywhere but before the UPDATE of            *)
(* commitReserved.                                                         *)
LEMMA SeenCoversStep ==
  ASSUME TypeOK, SeenCovers, NEW t \in Txs, NEW new,
         tx' = [tx EXCEPT ![t] = new],
         new.op # "commit" \/ new.step # "update"
  PROVE  SeenCovers'
  <1>. SUFFICES ASSUME NEW u \in Txs, NEW r \in Rows,
                       tx'[u].op = "commit", tx'[u].step = "update", IsNext(u, r)'
                PROVE  /\ tx'[u].seen.onHand >= tx'[u].todo[r]
                       /\ tx'[u].seen.reserved >= tx'[u].todo[r]
    BY DEF SeenCovers
  <1>1. u # t
    BY DEF TypeOK
  <1>2. tx'[u] = tx[u]
    BY <1>1 DEF TypeOK
  <1>. QED
    BY <1>2, SameTxSameNext DEF SeenCovers

LEMMA SeenCoversUnlock ==
  ASSUME TypeOK, SeenCovers, NEW t \in Txs, Unlock(t)
  PROVE  SeenCovers'
  BY SeenCoversStep DEF Unlock, Idle

LEMMA NonNegativeWrite ==
  ASSUME TypeOK, StockNonNegative, NEW t \in Txs, NEW r \in Rows, NEW level \in StockLevel,
         WriteRow(t, r, level), level.onHand >= 0, level.reserved >= 0
  PROVE  StockNonNegative'
  BY DEF TypeOK, StockNonNegative, WriteRow

LEMMA NonNegativeCommitTx ==
  ASSUME TypeOK, StockNonNegative, SeenCovers, NEW t \in Txs, CommitTx(t)
  PROVE  StockNonNegative' /\ SeenCovers'
  BY SeenCoversUnlock DEF TypeOK, StockNonNegative, CommitTx, View

LEMMA NonNegativeRollback ==
  ASSUME TypeOK, StockNonNegative, SeenCovers, NEW t \in Txs, Rollback(t)
  PROVE  StockNonNegative' /\ SeenCovers'
  BY SeenCoversUnlock DEF TypeOK, StockNonNegative, Rollback

LEMMA NonNegativeBeginOn ==
  ASSUME TypeOK, StockNonNegative, SeenCovers, NEW t \in Txs, NEW i \in Res,
         NEW o \in Ops, NEW s \in {"select", "update"},
         o # "commit" \/ s # "update", BeginOn(t, i, o, s)
  PROVE  StockNonNegative' /\ SeenCovers'
  <1>1. SeenCovers'
    BY SeenCoversStep DEF BeginOn, Idle
  <1>. QED
    BY <1>1 DEF BeginOn, stockVars, StockNonNegative

LEMMA NonNegativeStatement ==
  ASSUME NonNegativeInv, NEW t \in Txs, Statement(t)
  PROVE  StockNonNegative' /\ SeenCovers'
  <1>. USE DEF NonNegativeInv
  <1>0. tx[t] \in TxState
    BY DEF TypeOK
  <1>1. ASSUME NEW p \in Products, Plan(t, p)
        PROVE  StockNonNegative' /\ SeenCovers'
    <2>1. SeenCovers'
      BY <1>0, <1>1, SeenCoversStep DEF Plan, TxState
    <2>. QED
      BY <1>1, <2>1 DEF Plan, stockVars, StockNonNegative
  <1>2. ASSUME NEW p \in Products, PlanFails(t, p)
        PROVE  StockNonNegative' /\ SeenCovers'
    BY <1>2, NonNegativeRollback DEF PlanFails
  <1>3. ASSUME NEW r \in Rows, Reserve(t, r)
        PROVE  StockNonNegative' /\ SeenCovers'
    <2>1. SeenCovers'
      BY <1>0, <1>3, SeenCoversStep DEF Reserve, Advance, TxState
    <2>2. /\ tx[t].todo[r] \in Nat /\ View(t, r) \in StockLevel
          /\ View(t, r).onHand >= 0 /\ View(t, r).reserved >= 0
      BY <1>0, ViewType DEF TxState, View, StockNonNegative
    <2>. DEFINE level == [View(t, r) EXCEPT !.reserved = @ + tx[t].todo[r]]
    <2>3. level \in StockLevel /\ level.onHand >= 0 /\ level.reserved >= 0
      BY <2>2 DEF StockLevel
    <2>. QED
      BY <1>3, <2>1, <2>3, NonNegativeWrite DEF Reserve
  <1>4. ASSUME NEW r \in Rows, ReserveFails(t, r)
        PROVE  StockNonNegative' /\ SeenCovers'
    BY <1>4, NonNegativeRollback DEF ReserveFails
  <1>5. ASSUME NEW r \in Rows, ReadLevel(t, r)
        PROVE  StockNonNegative' /\ SeenCovers'
    <2>1. ASSUME NEW u \in Txs, NEW q \in Rows,
                 tx'[u].op = "commit", tx'[u].step = "update", IsNext(u, q)'
          PROVE  /\ tx'[u].seen.onHand >= tx'[u].todo[q]
                 /\ tx'[u].seen.reserved >= tx'[u].todo[q]
      <3>1. CASE u = t
        <4>1. /\ tx'[t].todo = tx[t].todo /\ tx'[t].op = tx[t].op
              /\ tx'[t].available = tx[t].available /\ tx'[t].seen = View(t, r)
          BY <1>0, <1>5 DEF ReadLevel, TypeOK, TxState
        <4>2. IsNext(t, q)
          BY <2>1, <3>1, <4>1 DEF IsNext, Pending, Before
        <4>3. q = r
          BY <1>5, <4>2, NextIsUnique DEF ReadLevel
        <4>. QED
          BY <1>5, <3>1, <4>1, <4>3 DEF ReadLevel
      <3>2. CASE u # t
        <4>1. tx'[u] = tx[u]
          BY <1>5, <3>2 DEF ReadLevel, TypeOK
        <4>. QED
          BY <2>1, <4>1, SameTxSameNext DEF SeenCovers
      <3>. QED
        BY <3>1, <3>2
    <2>2. SeenCovers'
      BY <2>1 DEF SeenCovers
    <2>. QED
      BY <1>5, <2>2 DEF ReadLevel, stockVars, StockNonNegative
  <1>6. ASSUME NEW r \in Rows, ReadLevelFails(t, r)
        PROVE  StockNonNegative' /\ SeenCovers'
    BY <1>6, NonNegativeRollback DEF ReadLevelFails
  <1>7. ASSUME NEW r \in Rows, WriteLevel(t, r)
        PROVE  StockNonNegative' /\ SeenCovers'
    <2>1. SeenCovers'
      BY <1>0, <1>7, SeenCoversStep DEF WriteLevel, Advance, TxState
    <2>2. /\ tx[t].todo[r] \in Nat /\ tx[t].seen \in StockLevel
          /\ tx[t].seen.onHand >= tx[t].todo[r] /\ tx[t].seen.reserved >= tx[t].todo[r]
      BY <1>0, <1>7 DEF TxState, SeenCovers, WriteLevel
    <2>. DEFINE level == [onHand |-> tx[t].seen.onHand - tx[t].todo[r],
                          reserved |-> tx[t].seen.reserved - tx[t].todo[r]]
    <2>3. level \in StockLevel /\ level.onHand >= 0 /\ level.reserved >= 0
      BY <2>2 DEF StockLevel
    <2>. QED
      BY <1>7, <2>1, <2>3, NonNegativeWrite DEF WriteLevel
  <1>8. ASSUME NEW r \in Rows, ReleaseRow(t, r)
        PROVE  StockNonNegative' /\ SeenCovers'
    <2>1. SeenCovers'
      BY <1>0, <1>8, SeenCoversStep DEF ReleaseRow, Advance, TxState
    <2>2. /\ tx[t].todo[r] \in Nat /\ View(t, r) \in StockLevel
          /\ View(t, r).onHand >= 0 /\ View(t, r).reserved >= tx[t].todo[r]
      BY <1>0, <1>8, ViewType DEF TxState, View, StockNonNegative, ReleaseRow
    <2>. DEFINE level == [View(t, r) EXCEPT !.reserved = @ - tx[t].todo[r]]
    <2>3. level \in StockLevel /\ level.onHand >= 0 /\ level.reserved >= 0
      BY <2>2 DEF StockLevel
    <2>. QED
      BY <1>8, <2>1, <2>3, NonNegativeWrite DEF ReleaseRow
  <1>9. ASSUME NEW r \in Rows, ReleaseRowFails(t, r)
        PROVE  StockNonNegative' /\ SeenCovers'
    BY <1>9, NonNegativeRollback DEF ReleaseRowFails
  <1>10. CASE FinishCreate(t) \/ FinishCommit(t) \/ FinishRelease(t) \/ FinishAdjust(t)
    BY <1>10, NonNegativeCommitTx DEF FinishCreate, FinishCommit, FinishRelease, FinishAdjust
  <1>11. CASE AbortDeadlocked(t)
    BY <1>11, NonNegativeRollback DEF AbortDeadlocked
  <1>. QED
    BY <1>1, <1>2, <1>3, <1>4, <1>5, <1>6, <1>7, <1>8, <1>9, <1>10, <1>11 DEF Statement

LEMMA NonNegativeRequest ==
  ASSUME NonNegativeInv, NEW t \in Txs, Request(t)
  PROVE  StockNonNegative' /\ SeenCovers'
  <1>. USE DEF NonNegativeInv
  <1>1. ASSUME NEW d \in Demands, BeginCreate(t, d)
        PROVE  StockNonNegative' /\ SeenCovers'
    <2>1. SeenCovers'
      BY <1>1, SeenCoversStep DEF BeginCreate, Idle
    <2>. QED
      BY <1>1, <2>1 DEF BeginCreate, stockVars, StockNonNegative
  <1>2. ASSUME NEW i \in Res, BeginCommit(t, i)
        PROVE  StockNonNegative' /\ SeenCovers'
    BY <1>2, NonNegativeBeginOn DEF BeginCommit, Ops
  <1>3. ASSUME NEW i \in Res, BeginRelease(t, i)
        PROVE  StockNonNegative' /\ SeenCovers'
    BY <1>3, NonNegativeBeginOn DEF BeginRelease, Ops
  <1>4. CASE UNCHANGED vars
    BY <1>4 DEF vars, stockVars, StockNonNegative, SeenCovers, IsNext, Pending, Before
  <1>5. ASSUME NEW r \in Rows, NEW d \in Deltas, BeginAdjust(t, r, d)
        PROVE  StockNonNegative' /\ SeenCovers'
    <2>1. SeenCovers'
      BY <1>5, SeenCoversStep DEF BeginAdjust, Idle
    <2>2. d \in Int /\ stock[r] \in StockLevel
      BY InventoryAssumption DEF TypeOK
    <2>. DEFINE level == [stock[r] EXCEPT !.onHand = @ + d]
    <2>3. level \in StockLevel /\ level.onHand >= 0 /\ level.reserved >= 0
      BY <1>5, <2>2 DEF StockLevel, BeginAdjust, StockNonNegative
    <2>. QED
      BY <1>5, <2>1, <2>3, NonNegativeWrite DEF BeginAdjust
  <1>. QED
    BY <1>1, <1>2, <1>3, <1>4, <1>5 DEF Request, AnswerUnchanged, AdjustFails

LEMMA NonNegativeInit == Init => NonNegativeInv
  <1>. SUFFICES ASSUME Init
                PROVE  NonNegativeInv
    OBVIOUS
  <1>1. StockNonNegative
    BY InventoryAssumption DEF Init, StockNonNegative
  <1>2. SeenCovers
    BY DEF Init, SeenCovers, Idle
  <1>. QED
    BY <1>1, <1>2, InitType DEF NonNegativeInv

LEMMA NonNegativeNext == NonNegativeInv /\ [Next]_vars => NonNegativeInv'
  <1>. SUFFICES ASSUME NonNegativeInv, [Next]_vars
                PROVE  StockNonNegative' /\ SeenCovers'
    BY NextType DEF NonNegativeInv
  <1>. USE DEF NonNegativeInv
  <1>1. ASSUME NEW t \in Txs, TickStep(t)
        PROVE  StockNonNegative' /\ SeenCovers'
    <2>1. ASSUME NEW i \in Res, TickRelease(t, i)
          PROVE  StockNonNegative' /\ SeenCovers'
      BY <2>1, NonNegativeBeginOn DEF TickRelease, Ops
    <2>2. CASE stockVars' = stockVars /\ tx' = tx
      BY <2>2 DEF stockVars, StockNonNegative, SeenCovers, IsNext, Pending, Before
    <2>. QED
      BY <1>1, <2>1, <2>2 DEF TickStep, StartTick, TickSkips, TickThrows
  <1>2. CASE PassTime \/ UNCHANGED vars
    BY <1>2 DEF PassTime, vars, stockVars, StockNonNegative, SeenCovers, IsNext, Pending, Before
  <1>3. CASE Crash
    BY <1>3 DEF Crash, StockNonNegative, SeenCovers, Idle, TypeOK
  <1>. QED
    BY <1>1, <1>2, <1>3, NonNegativeStatement, NonNegativeRequest DEF Next

(* Whatever is interleaved, lost updates included, no row of stock_levels  *)
(* is ever negative.                                                       *)
THEOREM StockNeverNegative == Spec => []StockNonNegative
  <1>1. NonNegativeInv => StockNonNegative
    BY DEF NonNegativeInv
  <1>. QED
    BY <1>1, NonNegativeInit, NonNegativeNext, PTL DEF Spec

-------------------------------------------------------------------------------
(* The reservations.  The service implements ReservationLedger: whatever is  *)
(* retried, raced, rolled back or expired, a reservation is committed or     *)
(* released once.                                                            *)

(* The row quantities of transaction t, applied or not, are those of the   *)
(* reservation it has locked, which is pending.                            *)
Holds(t) ==
  tx[t].op \in {"commit", "release"} =>
    /\ tx[t].res \in Res
    /\ resLock[tx[t].res] = t
    /\ status[tx[t].res] = "pending"
    /\ \A r \in Rows :
         \/ tx[t].todo[r] = lines[tx[t].res][r] /\ tx[t].done[r] = 0
         \/ tx[t].todo[r] = 0 /\ tx[t].done[r] = lines[tx[t].res][r]

(* The reservation t inserts is nobody else's yet. *)
Fresh(t) ==
  tx[t].op = "create" =>
    /\ tx[t].res \in Res
    /\ tx[t].res < nextRes
    /\ status[tx[t].res] = "absent"
    /\ \A u \in Txs \ {t} : tx[u].op = "create" => tx[u].res # tx[t].res

UnusedAbsent == \A i \in Res : i >= nextRes => status[i] = "absent"

LedgerInv ==
  /\ TypeOK
  /\ \A t \in Txs : Holds(t) /\ Fresh(t)
  /\ UnusedAbsent
  /\ MovementsMatchCommits

(* What an action does to the ledger: nothing, or one step of it. *)
LedgerStep == [Ledger!Next]_(Ledger!vars)

Step == LedgerInv' /\ LedgerStep

-------------------------------------------------------------------------------
(* A statement of t that moves no reservation. *)
LEMMA LedgerStatement ==
  ASSUME LedgerInv, TypeOK', NEW t \in Txs, NEW new \in TxState,
         tx' = [tx EXCEPT ![t] = new],
         UNCHANGED <<resVars, moved>>,
         new.op = tx[t].op, new.res = tx[t].res,
         \A r \in Rows : \/ new.todo[r] = tx[t].todo[r] /\ new.done[r] = tx[t].done[r]
                         \/ new.todo[r] = 0 /\ new.done[r] = tx[t].todo[r] /\ tx[t].todo[r] > 0
                         \/ new.op = "create"
  PROVE  Step
  <1>. USE DEF LedgerInv
  <1>1. tx'[t] = new /\ \A u \in Txs \ {t} : tx'[u] = tx[u]
    BY DEF TypeOK
  <1>2. /\ resLock' = resLock /\ status' = status /\ lines' = lines
        /\ nextRes' = nextRes /\ moved' = moved
    BY DEF resVars
  <1>3. ASSUME NEW u \in Txs
        PROVE  Holds(u)'
    <2>1. CASE u # t
      BY <1>1, <1>2, <2>1 DEF Holds
    <2>2. CASE u = t
      <3>1. Holds(t)
        OBVIOUS
      <3>. QED
        BY <1>1, <1>2, <2>2, <3>1 DEF Holds
    <2>. QED
      BY <2>1, <2>2
  <1>4. ASSUME NEW u \in Txs
        PROVE  Fresh(u)'
    <2>1. Fresh(u) /\ \A v \in Txs : tx'[v].op = tx[v].op /\ tx'[v].res = tx[v].res
      BY <1>1
    <2>. QED
      BY <1>2, <2>1 DEF Fresh
  <1>5. UnusedAbsent' /\ MovementsMatchCommits'
    BY <1>2 DEF UnusedAbsent, MovementsMatchCommits
  <1>6. LedgerStep
    BY <1>2 DEF LedgerStep, Ledger!vars
  <1>. QED
    BY <1>3, <1>4, <1>5, <1>6 DEF Step

(* t becomes idle and nothing else happens to reservations. *)
LEMMA LedgerEnd ==
  ASSUME LedgerInv, TypeOK', NEW t \in Txs, Unlock(t),
         UNCHANGED <<status, lines, demand, nextRes, moved>>
  PROVE  Step
  <1>. USE DEF LedgerInv
  <1>1. tx'[t].op = "idle" /\ \A u \in Txs \ {t} : tx'[u] = tx[u]
    BY DEF TypeOK, Unlock, Idle
  <1>2. ASSUME NEW u \in Txs
        PROVE  Holds(u)' /\ Fresh(u)'
    <2>1. Holds(u) /\ Fresh(u)
      OBVIOUS
    <2>2. CASE u = t
      BY <1>1, <2>2 DEF Holds, Fresh
    <2>3. CASE u # t
      <3>1. Fresh(u)'
        BY <1>1, <2>1, <2>3 DEF Fresh
      <3>2. tx[u].res \in Res /\ resLock[tx[u].res] = u => resLock'[tx[u].res] = u
        BY <2>3 DEF Unlock
      <3>. QED
        BY <1>1, <2>1, <2>3, <3>1, <3>2 DEF Holds
    <2>. QED
      BY <2>2, <2>3
  <1>3. UnusedAbsent' /\ MovementsMatchCommits'
    BY DEF UnusedAbsent, MovementsMatchCommits
  <1>4. LedgerStep
    BY DEF LedgerStep, Ledger!vars
  <1>. QED
    BY <1>2, <1>3, <1>4 DEF Step

LEMMA LedgerRollback ==
  ASSUME LedgerInv, NEW t \in Txs, Rollback(t)
  PROVE  Step
  BY RollbackType, LedgerEnd DEF LedgerInv, Rollback, moveVars

LEMMA LedgerBeginOn ==
  ASSUME LedgerInv, NEW t \in Txs, NEW i \in Res, NEW o \in {"commit", "release"},
         NEW s \in {"select", "update"}, tx[t].op = "idle", BeginOn(t, i, o, s)
  PROVE  Step
  <1>. USE DEF LedgerInv
  <1>1. TypeOK'
    BY BeginOnType DEF Ops
  <1>2. /\ tx'[t] = [Idle EXCEPT !.op = o, !.step = s, !.res = i, !.todo = lines[i]]
        /\ \A u \in Txs \ {t} : tx'[u] = tx[u]
    BY DEF TypeOK, BeginOn
  <1>3. /\ tx'[t].op = o /\ tx'[t].res = i /\ tx'[t].todo = lines[i]
        /\ tx'[t].done = NoRows
    BY <1>2 DEF Idle
  <1>4. /\ status' = status /\ lines' = lines /\ nextRes' = nextRes /\ moved' = moved
        /\ resLock' = [resLock EXCEPT ![i] = t]
        /\ resLock[i] = NoTx /\ status[i] = "pending"
    BY DEF BeginOn, moveVars
  <1>5. ASSUME NEW u \in Txs
        PROVE  Holds(u)' /\ Fresh(u)'
    <2>1. Holds(u) /\ Fresh(u) /\ u # NoTx
      BY InventoryAssumption
    <2>2. CASE u = t
      <3>1. resLock'[i] = t
        BY <1>4 DEF TypeOK
      <3>2. Holds(t)'
        BY <1>3, <1>4, <3>1 DEF Holds, NoRows
      <3>3. Fresh(t)'
        BY <1>3 DEF Fresh
      <3>. QED
        BY <2>2, <3>2, <3>3
    <2>3. CASE u # t
      <3>1. tx'[u] = tx[u]
        BY <1>2, <2>3
      <3>2. Fresh(u)'
        <4>1. ASSUME NEW v \in Txs \ {u}, tx'[v].op = "create"
              PROVE  tx[v].op = "create" /\ tx'[v].res = tx[v].res
          BY <1>2, <1>3, <4>1
        <4>. QED
          BY <1>4, <2>1, <3>1, <4>1 DEF Fresh
      <3>3. tx[u].res \in Res /\ resLock[tx[u].res] = u => resLock'[tx[u].res] = u
        BY <1>4, <2>1 DEF TypeOK
      <3>4. Holds(u)'
        BY <1>4, <2>1, <3>1, <3>3 DEF Holds
      <3>. QED
        BY <3>2, <3>4
    <2>. QED
      BY <2>2, <2>3
  <1>6. UnusedAbsent' /\ MovementsMatchCommits'
    BY <1>4 DEF UnusedAbsent, MovementsMatchCommits
  <1>7. LedgerStep
    BY <1>4 DEF LedgerStep, Ledger!vars
  <1>. QED
    BY <1>1, <1>5, <1>6, <1>7 DEF Step

LEMMA LedgerBeginCreate ==
  ASSUME LedgerInv, NEW t \in Txs, NEW d \in Demands, BeginCreate(t, d)
  PROVE  Step
  <1>. USE DEF LedgerInv
  <1>1. TypeOK'
    <2>1. Request(t)
      BY DEF Request
    <2>. QED
      BY <2>1, RequestType
  <1>2. /\ tx'[t].op = "create" /\ tx'[t].res = nextRes
        /\ \A u \in Txs \ {t} : tx'[u] = tx[u]
    BY DEF TypeOK, BeginCreate, Idle
  <1>3. /\ status' = status /\ lines' = lines /\ resLock' = resLock /\ moved' = moved
        /\ nextRes' = nextRes + 1 /\ nextRes \in Res /\ nextRes \in Nat
    BY DEF BeginCreate, moveVars, TypeOK
  <1>4. Res \subseteq Nat /\ status[nextRes] = "absent"
    BY <1>3 DEF UnusedAbsent, Res
  <1>5. ASSUME NEW u \in Txs
        PROVE  Holds(u)' /\ Fresh(u)'
    <2>1. Holds(u) /\ Fresh(u)
      OBVIOUS
    <2>2. CASE u = t
      <3>1. ASSUME NEW v \in Txs \ {t}, tx'[v].op = "create"
            PROVE  tx'[v].res # nextRes
        <4>1. Fresh(v) /\ tx'[v] = tx[v]
          BY <1>2
        <4>. QED
          BY <1>3, <1>4, <3>1, <4>1 DEF Fresh
      <3>2. Holds(t)'
        BY <1>2 DEF Holds
      <3>3. Fresh(t)'
        BY <1>2, <1>3, <1>4, <3>1 DEF Fresh
      <3>. QED
        BY <2>2, <3>2, <3>3
    <2>3. CASE u # t
      <3>1. tx'[u] = tx[u]
        BY <1>2, <2>3
      <3>2. ASSUME tx[u].op = "create", NEW v \in Txs \ {u}, tx'[v].op = "create"
            PROVE  tx'[v].res # tx[u].res
        BY <1>2, <1>3, <1>4, <2>1, <3>2 DEF Fresh
      <3>3. Holds(u)'
        BY <1>3, <2>1, <3>1 DEF Holds
      <3>4. Fresh(u)'
        <4>1. tx[u].op = "create" => tx[u].res \in Nat
          BY <1>4, <2>1 DEF Fresh
        <4>. QED
          BY <1>3, <2>1, <3>1, <3>2, <4>1 DEF Fresh
      <3>. QED
        BY <3>3, <3>4
    <2>. QED
      BY <2>2, <2>3
  <1>6. UnusedAbsent' /\ MovementsMatchCommits'
    <2>1. UnusedAbsent'
      <3>1. \A i \in Res : i >= nextRes + 1 => i >= nextRes
        BY <1>3, <1>4
      <3>. QED
        BY <1>3, <3>1 DEF UnusedAbsent
    <2>2. MovementsMatchCommits'
      BY <1>3 DEF MovementsMatchCommits
    <2>. QED
      BY <2>1, <2>2
  <1>7. LedgerStep
    BY <1>3 DEF LedgerStep, Ledger!vars
  <1>. QED
    BY <1>1, <1>5, <1>6, <1>7 DEF Step

(* The other transactions when t ends with the status of its reservation   *)
(* changed: theirs is another one.                                         *)
LEMMA LedgerOthers ==
  ASSUME LedgerInv, NEW t \in Txs, NEW i \in Res, Unlock(t), nextRes' = nextRes,
         \A j \in Res \ {i} : status'[j] = status[j] /\ lines'[j] = lines[j],
         tx[t].op \in {"create", "commit", "release"}, tx[t].res = i
  PROVE  \A u \in Txs : Holds(u)' /\ Fresh(u)'
  <1>. USE DEF LedgerInv
  <1>1. tx'[t].op = "idle" /\ \A u \in Txs \ {t} : tx'[u] = tx[u]
    BY DEF TypeOK, Unlock, Idle
  <1>2. SUFFICES ASSUME NEW u \in Txs, u # t
                 PROVE  Holds(u)' /\ Fresh(u)'
    <2>1. Holds(t)' /\ Fresh(t)'
      BY <1>1 DEF Holds, Fresh
    <2>. QED
      BY <2>1
  <1>3. Holds(u) /\ Fresh(u) /\ Holds(t) /\ Fresh(t) /\ tx'[u] = tx[u]
    BY <1>1, <1>2
  <1>4. ASSUME tx[u].op \in {"commit", "release"}
        PROVE  tx[u].res # i /\ resLock'[tx[u].res] = u
    BY <1>2, <1>3, <1>4 DEF Holds, Fresh, Unlock
  <1>5. ASSUME tx[u].op = "create"
        PROVE  status'[tx[u].res] = "absent"
    <2>1. tx[u].res # i
      BY <1>2, <1>3, <1>5 DEF Holds, Fresh
    <2>. QED
      BY <1>3, <1>5, <2>1 DEF Fresh
  <1>6. Holds(u)'
    BY <1>3, <1>4 DEF Holds
  <1>7. Fresh(u)'
    <2>1. ASSUME NEW v \in Txs \ {u}, tx'[v].op = "create"
          PROVE  tx[v].op = "create" /\ tx'[v].res = tx[v].res
      BY <1>1, <2>1
    <2>. QED
      BY <1>3, <1>5, <2>1 DEF Fresh
  <1>. QED
    BY <1>6, <1>7

LEMMA LedgerFinishCreate ==
  ASSUME LedgerInv, TypeOK', NEW t \in Txs, FinishCreate(t)
  PROVE  Step
  <1>. USE DEF LedgerInv
  <1>. DEFINE i == tx[t].res
  <1>1. Holds(t) /\ Fresh(t) /\ tx[t].op = "create" /\ Unlock(t)
    BY DEF FinishCreate, CommitTx
  <1>2. i \in Res /\ i < nextRes /\ status[i] = "absent"
    BY <1>1 DEF Fresh
  <1>3. /\ status' = [status EXCEPT ![i] = "pending"]
        /\ lines' = [lines EXCEPT ![i] = tx[t].done]
        /\ moved' = moved /\ nextRes' = nextRes
    BY DEF FinishCreate, moveVars
  <1>4. \A u \in Txs : Holds(u)' /\ Fresh(u)'
    <2>1. \A j \in Res \ {i} : status'[j] = status[j] /\ lines'[j] = lines[j]
      BY <1>3 DEF TypeOK
    <2>. QED
      BY <1>1, <1>2, <1>3, <2>1, LedgerOthers
  <1>5. UnusedAbsent'
    BY <1>2, <1>3 DEF UnusedAbsent, TypeOK, Res
  <1>6. MovementsMatchCommits'
    BY <1>2, <1>3 DEF MovementsMatchCommits, TypeOK
  <1>7. LedgerStep
    <2>1. lines'[i] = tx[t].done /\ tx[t].done \in [Rows -> Nat]
      BY <1>2, <1>3 DEF TypeOK, TxState
    <2>2. Ledger!Create(i, lines'[i])
      BY <1>2, <1>3, <2>1 DEF Ledger!Create
    <2>. QED
      BY <1>2, <2>1, <2>2 DEF LedgerStep, Ledger!Next
  <1>. QED
    BY <1>4, <1>5, <1>6, <1>7 DEF Step

LEMMA LedgerFinishCommit ==
  ASSUME LedgerInv, TypeOK', NEW t \in Txs, FinishCommit(t)
  PROVE  Step
  <1>. USE DEF LedgerInv
  <1>. DEFINE i == tx[t].res
  <1>1. Holds(t) /\ Fresh(t) /\ tx[t].op = "commit" /\ Unlock(t) /\ tx[t].todo = NoRows
    BY DEF FinishCommit, CommitTx, AllDone
  <1>2. i \in Res /\ status[i] = "pending"
    BY <1>1 DEF Holds
  <1>3. /\ status' = [status EXCEPT ![i] = "committed"]
        /\ moved' = [moved EXCEPT ![i] = [r \in Rows |-> moved[i][r] + tx[t].done[r]]]
        /\ lines' = lines /\ nextRes' = nextRes
    BY DEF FinishCommit
  <1>4. /\ tx[t].done \in [Rows -> Nat] /\ lines[i] \in [Rows -> Nat]
        /\ moved[i] = [r \in Rows |-> 0]
    BY <1>2 DEF TypeOK, TxState, MovementsMatchCommits, NoRows
  <1>5. \A r \in Rows : tx[t].done[r] = lines[i][r]
    BY <1>1, <1>4 DEF Holds, NoRows
  <1>6. [r \in Rows |-> moved[i][r] + tx[t].done[r]] = lines[i]
    BY <1>4, <1>5
  <1>7. moved' = [moved EXCEPT ![i] = lines[i]]
    BY <1>3, <1>6
  <1>8. \A u \in Txs : Holds(u)' /\ Fresh(u)'
    <2>1. \A j \in Res \ {i} : status'[j] = status[j] /\ lines'[j] = lines[j]
      BY <1>3 DEF TypeOK
    <2>. QED
      BY <1>1, <1>2, <1>3, <2>1, LedgerOthers
  <1>9. UnusedAbsent'
    BY <1>2, <1>3 DEF UnusedAbsent, TypeOK
  <1>10. MovementsMatchCommits'
    BY <1>2, <1>3, <1>7 DEF MovementsMatchCommits, TypeOK
  <1>11. LedgerStep
    <2>1. Ledger!Commit(i)
      BY <1>2, <1>3, <1>7 DEF Ledger!Commit
    <2>. QED
      BY <1>2, <2>1 DEF LedgerStep, Ledger!Next
  <1>. QED
    BY <1>8, <1>9, <1>10, <1>11 DEF Step

LEMMA LedgerFinishRelease ==
  ASSUME LedgerInv, TypeOK', NEW t \in Txs, FinishRelease(t)
  PROVE  Step
  <1>. USE DEF LedgerInv
  <1>. DEFINE i == tx[t].res
  <1>1. Holds(t) /\ tx[t].op = "release" /\ Unlock(t)
    BY DEF FinishRelease, CommitTx
  <1>2. i \in Res /\ status[i] = "pending"
    BY <1>1 DEF Holds
  <1>3. /\ status' = [status EXCEPT ![i] = "released"]
        /\ lines' = lines /\ nextRes' = nextRes /\ moved' = moved
    BY DEF FinishRelease, moveVars
  <1>4. \A u \in Txs : Holds(u)' /\ Fresh(u)'
    <2>1. \A j \in Res \ {i} : status'[j] = status[j] /\ lines'[j] = lines[j]
      BY <1>3 DEF TypeOK
    <2>. QED
      BY <1>1, <1>2, <1>3, <2>1, LedgerOthers
  <1>5. UnusedAbsent'
    BY <1>2, <1>3 DEF UnusedAbsent, TypeOK
  <1>6. MovementsMatchCommits'
    BY <1>2, <1>3 DEF MovementsMatchCommits, TypeOK
  <1>7. LedgerStep
    <2>1. Ledger!Release(i)
      BY <1>2, <1>3 DEF Ledger!Release
    <2>. QED
      BY <1>2, <2>1 DEF LedgerStep, Ledger!Next
  <1>. QED
    BY <1>4, <1>5, <1>6, <1>7 DEF Step

-------------------------------------------------------------------------------
LEMMA LedgerInit == Init => LedgerInv /\ Ledger!Init
  <1>. SUFFICES ASSUME Init
                PROVE  LedgerInv /\ Ledger!Init
    OBVIOUS
  <1>1. \A t \in Txs : Holds(t) /\ Fresh(t)
    BY DEF Init, Idle, Holds, Fresh
  <1>2. UnusedAbsent /\ MovementsMatchCommits /\ Ledger!Init
    BY DEF Init, UnusedAbsent, MovementsMatchCommits, Ledger!Init, Ledger!NoLines, NoRows
  <1>. QED
    BY <1>1, <1>2, InitType DEF LedgerInv

LEMMA LedgerNext == LedgerInv /\ [Next]_vars => Step
  <1>. SUFFICES ASSUME LedgerInv, [Next]_vars
                PROVE  Step
    OBVIOUS
  <1>0. TypeOK /\ TypeOK'
    BY NextType DEF LedgerInv
  <1>1. ASSUME NEW t \in Txs, Statement(t)
        PROVE  Step
    <2>0. tx[t] \in TxState /\ tx'[t] \in TxState
      BY <1>0 DEF TypeOK
    <2>1. ASSUME NEW p \in Products, Plan(t, p)
          PROVE  Step
      <3>1. PICK plan \in GreedyPlans(tx[t].want[p], Candidates(t, p)) :
              tx' = [tx EXCEPT ![t] =
                      [tx[t] EXCEPT !.want = [tx[t].want EXCEPT ![p] = 0],
                                    !.available = Candidates(t, p),
                                    !.todo = [r \in Rows |-> IF Product(r) = p
                                                             THEN plan[Warehouse(r)] ELSE 0]]]
        BY <2>1 DEF Plan
      <3>. DEFINE new == [tx[t] EXCEPT !.want = [tx[t].want EXCEPT ![p] = 0],
                                       !.available = Candidates(t, p),
                                       !.todo = [r \in Rows |-> IF Product(r) = p
                                                                THEN plan[Warehouse(r)] ELSE 0]]
      <3>2. tx' = [tx EXCEPT ![t] = new] /\ tx'[t] = new
        BY <1>0, <3>1 DEF TypeOK
      <3>3. new.op = tx[t].op /\ new.res = tx[t].res /\ tx[t].op = "create"
        BY <2>0, <2>1 DEF Plan, TxState
      <3>4. new \in TxState
        BY <2>0, <3>2
      <3>5. UNCHANGED <<resVars, moved>>
        BY <2>1 DEF Plan, moveVars
      <3>. HIDE DEF new
      <3>. QED
        BY <1>0, <3>2, <3>3, <3>4, <3>5, LedgerStatement
    <2>2. ASSUME NEW r \in Rows, Advance(t, r, "update") \/ Advance(t, r, "select"),
                 UNCHANGED <<resVars, moveVars>>, tx[t].todo[r] > 0
          PROVE  Step
      <3>1. PICK s \in {"update", "select"} : Advance(t, r, s)
        BY <2>2
      <3>. DEFINE new == [tx[t] EXCEPT !.todo = [tx[t].todo EXCEPT ![r] = 0],
                                       !.done = [tx[t].done EXCEPT ![r] = tx[t].todo[r]],
                                       !.step = s]
      <3>2. tx' = [tx EXCEPT ![t] = new] /\ tx'[t] = new
        BY <1>0, <3>1 DEF TypeOK, Advance
      <3>3. /\ new.op = tx[t].op /\ new.res = tx[t].res
            /\ new.todo = [tx[t].todo EXCEPT ![r] = 0]
            /\ new.done = [tx[t].done EXCEPT ![r] = tx[t].todo[r]]
        BY <2>0 DEF TxState
      <3>4. new \in TxState
        BY <2>0, <3>2
      <3>5. tx[t].todo \in [Rows -> Nat] /\ tx[t].done \in [Rows -> Nat]
        BY <2>0 DEF TxState
      <3>. HIDE DEF new
      <3>6. \A q \in Rows :
              \/ new.todo[q] = tx[t].todo[q] /\ new.done[q] = tx[t].done[q]
              \/ new.todo[q] = 0 /\ new.done[q] = tx[t].todo[q] /\ tx[t].todo[q] > 0
        BY <2>2, <3>3, <3>5
      <3>7. UNCHANGED <<resVars, moved>>
        BY <2>2 DEF moveVars
      <3>. QED
        BY <1>0, <3>2, <3>3, <3>4, <3>6, <3>7, LedgerStatement
    <2>3. ASSUME NEW r \in Rows, Reserve(t, r) \/ WriteLevel(t, r) \/ ReleaseRow(t, r)
          PROVE  Step
      BY <2>2, <2>3 DEF Reserve, WriteLevel, ReleaseRow, IsNext, Pending
    <2>4. ASSUME NEW r \in Rows, ReadLevel(t, r)
          PROVE  Step
      <3>1. /\ tx' = [tx EXCEPT ![t] = tx'[t]] /\ UNCHANGED <<resVars, moved>>
            /\ tx'[t].op = tx[t].op /\ tx'[t].res = tx[t].res
            /\ tx'[t].todo = tx[t].todo /\ tx'[t].done = tx[t].done
        BY <1>0, <2>0, <2>4 DEF ReadLevel, TypeOK, TxState, moveVars
      <3>. QED
        BY <1>0, <2>0, <3>1, LedgerStatement
    <2>5. CASE Rollback(t)
      BY <2>5, LedgerRollback
    <2>6. CASE FinishAdjust(t)
      BY <1>0, <2>6, LedgerEnd DEF FinishAdjust, CommitTx
    <2>. QED
      BY <1>0, <1>1, <2>1, <2>3, <2>4, <2>5, <2>6,
         LedgerFinishCreate, LedgerFinishCommit, LedgerFinishRelease
      DEF Statement, PlanFails, ReserveFails, ReadLevelFails, ReleaseRowFails, AbortDeadlocked
  <1>2. CASE UNCHANGED <<resVars, moved, tx>>
    BY <1>0, <1>2 DEF resVars, LedgerInv, Holds, Fresh, UnusedAbsent,
       MovementsMatchCommits, Step, LedgerStep, Ledger!vars
  <1>3. ASSUME NEW t \in Txs, Request(t)
        PROVE  Step
    <2>1. ASSUME NEW i \in Res, BeginCommit(t, i) \/ BeginRelease(t, i)
          PROVE  Step
      BY <2>1, LedgerBeginOn DEF BeginCommit, BeginRelease, Asks
    <2>2. ASSUME NEW r \in Rows, NEW d \in Deltas, BeginAdjust(t, r, d)
          PROVE  Step
      <3>1. /\ tx' = [tx EXCEPT ![t] = tx'[t]] /\ UNCHANGED <<resVars, moved>>
            /\ tx'[t].op = "adjust" /\ \A u \in Txs \ {t} : tx'[u] = tx[u]
        BY <1>0, <2>2 DEF BeginAdjust, TypeOK, Idle, moveVars
      <3>2. \A u \in Txs : Holds(u)' /\ Fresh(u)'
        BY <3>1 DEF LedgerInv, Holds, Fresh, resVars
      <3>. QED
        BY <1>0, <3>1, <3>2 DEF resVars, LedgerInv, UnusedAbsent, MovementsMatchCommits,
           Step, LedgerStep, Ledger!vars
    <2>3. CASE UNCHANGED vars
      BY <1>2, <2>3 DEF vars, moveVars
    <2>. QED
      BY <1>3, <2>1, <2>2, <2>3, LedgerBeginCreate DEF Request, AnswerUnchanged, AdjustFails
  <1>4. ASSUME NEW t \in Txs, TickStep(t)
        PROVE  Step
    <2>1. ASSUME NEW i \in Res, TickRelease(t, i)
          PROVE  Step
      BY <2>1, LedgerBeginOn DEF TickRelease, IsNextInBatch
    <2>. QED
      BY <1>2, <1>4, <2>1 DEF TickStep, StartTick, TickSkips, TickThrows, moveVars
  <1>5. CASE Crash
    BY <1>0, <1>5 DEF Crash, Idle, LedgerInv, Holds, Fresh, UnusedAbsent,
       MovementsMatchCommits, Step, LedgerStep, Ledger!vars, moveVars
  <1>. QED
    BY <1>1, <1>2, <1>3, <1>4, <1>5 DEF Next, PassTime, vars, moveVars

(* The movements of a reservation are its lines exactly if it is           *)
(* committed, however its requests are retried and interleaved.            *)
THEOREM MovementsAreRight == Spec => []MovementsMatchCommits
  <1>1. LedgerInv => MovementsMatchCommits
    BY DEF LedgerInv
  <1>2. LedgerInv /\ [Next]_vars => LedgerInv'
    BY LedgerNext DEF Step
  <1>. QED
    BY <1>1, <1>2, LedgerInit, PTL DEF Spec

(* The service implements the reservation ledger: a reservation is made,   *)
(* then committed or released once, with lines that never change.          *)
THEOREM LedgerImplemented == Spec => LedgerIsKept
  <1>1. LedgerInv /\ [Next]_vars => LedgerInv' /\ [Ledger!Next]_(Ledger!vars)
    BY LedgerNext DEF Step, LedgerStep
  <1>. QED
    BY <1>1, LedgerInit, PTL DEF Spec, LedgerIsKept, Ledger!Spec
-------------------------------------------------------------------------------
(* The books.  While no commit has overwritten a row it had not seen, the    *)
(* newest version of a row is its committed version with what the            *)
(* transaction that has locked it has applied so far, and a transaction has  *)
(* applied something to the rows it has locked only.                         *)

OnHandAfter(t, r) ==
  stock[r].onHand + tx[t].delta[r] - (IF tx[t].op = "commit" THEN tx[t].done[r] ELSE 0)

ReservedAfter(t, r) ==
  stock[r].reserved + (IF tx[t].op = "create" THEN tx[t].done[r]
                       ELSE IF tx[t].op \in {"commit", "release"} THEN - tx[t].done[r] ELSE 0)

(* The newest version of r is what t makes of the committed one. *)
LevelAgrees(t, r) ==
  ~overwritten => newest[r] = [onHand |-> OnHandAfter(t, r), reserved |-> ReservedAfter(t, r)]

(* What a new reservation has taken of r was free. *)
WasFree(t, r) ==
  ~overwritten => tx[t].done[r] <= stock[r].onHand - stock[r].reserved

RowAgrees(t, r) ==
  /\ tx[t].todo[r] = 0 \/ tx[t].done[r] = 0
  /\ rowLock[r] # t => tx[t].done[r] = 0 /\ tx[t].delta[r] = 0
  /\ rowLock[r] = t => LevelAgrees(t, r)
  /\ tx[t].op = "create" /\ tx[t].done[r] > 0 => WasFree(t, r)

(* Adjustments, and nothing else, have a delta, of one row. *)
DeltaAgrees(t) ==
  IF tx[t].op = "adjust"
  THEN tx[t].done = NoRows /\ \E q \in Rows : \A r \in Rows \ {q} : tx[t].delta[r] = 0
  ELSE tx[t].delta = NoRows

RowsAgree(t) == DeltaAgrees(t) /\ \A r \in Rows : RowAgrees(t, r)

(* h holds what d asks for of product p. *)
Holding(h, d, p) ==
  IF d[p] = 0 THEN \A w \in Warehouses : h[<<w, p>>] = 0
  ELSE SumFunction([w \in Warehouses |-> h[<<w, p>>]]) = d[p]

Held(t) == [r \in Rows |-> tx[t].todo[r] + tx[t].done[r]]

(* A new reservation holds what was asked for, in lines it has reserved or  *)
(* is about to, of every product that is planned, and nothing of the others. *)
CoversSoFar(t) ==
  tx[t].op = "create" =>
    /\ demand[tx[t].res] \in Demands
    /\ \A p \in Products :
         IF tx[t].want[p] > 0
         THEN tx[t].want[p] = demand[tx[t].res][p] /\ \A w \in Warehouses : Held(t)[<<w, p>>] = 0
         ELSE Holding(Held(t), demand[tx[t].res], p)

AgreeInv ==
  /\ \A t \in Txs : RowsAgree(t) /\ CoversSoFar(t)
  /\ BooksAgree

(* The inductive invariant. *)
BooksInv == NonNegativeInv /\ LedgerInv /\ AgreeInv

(* What a step is to the clients of the service: nothing, or one request. *)
AtomicStep == [overwritten' \/ Promise!Next]_(Promise!vars)

Agrees == AgreeInv' /\ AtomicStep

-------------------------------------------------------------------------------
LEMMA TxTypes ==
  ASSUME TypeOK, NEW t \in Txs
  PROVE  /\ tx[t] \in TxState
         /\ tx[t].todo \in [Rows -> Nat] /\ tx[t].done \in [Rows -> Nat]
         /\ tx[t].delta \in [Rows -> Int] /\ tx[t].want \in [Products -> Nat]
         /\ Held(t) \in [Rows -> Nat]
         /\ \A r \in Rows : Held(t)[r] = tx[t].todo[r] + tx[t].done[r]
<1>1. tx[t] \in TxState
  BY DEF TypeOK
<1>2. /\ tx[t].todo \in [Rows -> Nat] /\ tx[t].done \in [Rows -> Nat]
      /\ tx[t].delta \in [Rows -> Int] /\ tx[t].want \in [Products -> Nat]
  BY <1>1 DEF TxState
<1> QED
  BY <1>1, <1>2 DEF Held

LEMMA IdleAgrees ==
  ASSUME NEW t \in Txs, tx'[t] = Idle, \A r \in Rows : rowLock'[r] # t
  PROVE  RowsAgree(t)' /\ CoversSoFar(t)'
<1>1. /\ tx'[t].op = "idle" /\ tx'[t].delta = NoRows /\ tx'[t].done = NoRows
      /\ \A r \in Rows : tx'[t].done[r] = 0 /\ tx'[t].delta[r] = 0
  BY DEF Idle, NoRows
<1> QED
  BY <1>1 DEF RowsAgree, RowAgrees, DeltaAgrees, CoversSoFar

(* A transaction whose rows and reservation others leave alone.            *)
LeftAlone(u) ==
  /\ tx'[u] = tx[u]
  /\ \A r \in Rows :
       /\ rowLock'[r] = u <=> rowLock[r] = u
       /\ rowLock[r] = u => newest'[r] = newest[r] /\ stock'[r] = stock[r]
  /\ tx[u].op = "create" => demand'[tx[u].res] = demand[tx[u].res]

LEMMA OthersAgree ==
  ASSUME TypeOK, NEW u \in Txs, RowsAgree(u), CoversSoFar(u), LeftAlone(u),
         overwritten => overwritten'
  PROVE  RowsAgree(u)' /\ CoversSoFar(u)'
<1>1. Held(u)' = Held(u)
  BY DEF Held, LeftAlone
<1>2. CoversSoFar(u)'
  BY <1>1 DEF CoversSoFar, LeftAlone, Holding
<1>3. ASSUME NEW r \in Rows
      PROVE  RowAgrees(u, r)'
  <2>1. tx'[u] = tx[u] /\ RowAgrees(u, r) /\ (rowLock'[r] = u <=> rowLock[r] = u)
    BY DEF LeftAlone, RowsAgree
  <2>2. CASE rowLock[r] = u
    <3>1. newest'[r] = newest[r] /\ stock'[r] = stock[r]
      BY <2>2 DEF LeftAlone
    <3>2. LevelAgrees(u, r) => LevelAgrees(u, r)'
      BY <2>1, <3>1 DEF LevelAgrees, OnHandAfter, ReservedAfter
    <3>3. WasFree(u, r) => WasFree(u, r)'
      BY <2>1, <3>1 DEF WasFree
    <3> QED
      BY <2>1, <3>2, <3>3 DEF RowAgrees
  <2>3. CASE rowLock[r] # u
    <3>1. tx[u].done[r] = 0
      BY <2>1, <2>3 DEF RowAgrees
    <3> QED
      BY <2>1, <2>3, <3>1 DEF RowAgrees
  <2> QED
    BY <2>2, <2>3
<1> QED
  BY <1>2, <1>3 DEF RowsAgree, DeltaAgrees, LeftAlone

(* What everybody sees of the stock and the reservations stays as it is.   *)
Unseen ==
  /\ UNCHANGED <<stock, status, lines, moved, adjusted>>
  /\ \A i \in Res : status[i] # "absent" => demand'[i] = demand[i]
  /\ overwritten => overwritten'

LEMMA BooksStand ==
  ASSUME BooksAgree, Unseen
  PROVE  BooksAgree' /\ AtomicStep
<1>1. LinesCoverDemand'
  BY DEF BooksAgree, LinesCoverDemand, Unseen
<1>2. ~overwritten' => ReservedMatchesPending' /\ OnHandMatchesMovements'
  BY DEF BooksAgree, ReservedMatchesPending, OnHandMatchesMovements, Unseen
<1>3. AtomicStep
  BY DEF AtomicStep, Promise!vars, Unseen
<1> QED
  BY <1>1, <1>2, <1>3 DEF BooksAgree

(* A statement of t in the middle of its transaction.                      *)
Quiet(t) ==
  /\ Unseen
  /\ \A u \in Txs \ {t} :
       tx'[u] = tx[u] /\ (tx[u].op = "create" => demand'[tx[u].res] = demand[tx[u].res])
  /\ \A r \in Rows :
       \/ rowLock'[r] = rowLock[r] /\ newest'[r] = newest[r]
       \/ rowLock[r] \in {NoTx, t} /\ rowLock'[r] = t

LEMMA QuietAgrees ==
  ASSUME BooksInv, NEW t \in Txs, Quiet(t), RowsAgree(t)', CoversSoFar(t)'
  PROVE  Agrees
<1>1. ASSUME NEW u \in Txs \ {t}
      PROVE  RowsAgree(u)' /\ CoversSoFar(u)'
  <2>1. LeftAlone(u)
    <3>1. u # NoTx
      BY InventoryAssumption
    <3> QED
      BY <3>1 DEF LeftAlone, Quiet, Unseen
  <2> QED
    BY <2>1, OthersAgree DEF BooksInv, LedgerInv, AgreeInv, Quiet, Unseen
<1>2. BooksAgree' /\ AtomicStep
  BY BooksStand DEF BooksInv, AgreeInv, Quiet
<1> QED
  BY <1>1, <1>2 DEF Agrees, AgreeInv

(* t ends: the rows it has not locked are as they were. *)
LEMMA EndAgrees ==
  ASSUME BooksInv, NEW t \in Txs, Unlock(t), UNCHANGED <<demand, overwritten>>,
         \A r \in Rows : rowLock[r] # t => newest'[r] = newest[r] /\ stock'[r] = stock[r]
  PROVE  \A u \in Txs : RowsAgree(u)' /\ CoversSoFar(u)'
<1>0. TypeOK /\ t # NoTx
  BY InventoryAssumption DEF BooksInv, LedgerInv
<1>1. tx'[t] = Idle /\ \A u \in Txs \ {t} : tx'[u] = tx[u]
  BY <1>0 DEF Unlock, TypeOK
<1>2. \A r \in Rows : rowLock'[r] # t
  BY <1>0 DEF Unlock
<1>3. ASSUME NEW u \in Txs \ {t}
      PROVE  RowsAgree(u)' /\ CoversSoFar(u)'
  <2>1. u # NoTx
    BY InventoryAssumption
  <2>2. \A r \in Rows : rowLock'[r] = u <=> rowLock[r] = u
    BY <2>1 DEF Unlock
  <2>3. LeftAlone(u)
    BY <1>1, <2>2 DEF LeftAlone
  <2> QED
    BY <1>0, <2>3, OthersAgree DEF BooksInv, AgreeInv
<1>4. RowsAgree(t)' /\ CoversSoFar(t)'
  BY <1>1, <1>2, IdleAgrees
<1> QED
  BY <1>3, <1>4

LEMMA RollbackAgrees ==
  ASSUME BooksInv, NEW t \in Txs, Rollback(t)
  PROVE  Agrees
<1>1. \A u \in Txs : RowsAgree(u)' /\ CoversSoFar(u)'
  BY EndAgrees DEF Rollback, otherVars
<1>2. BooksAgree' /\ AtomicStep
  BY BooksStand DEF BooksInv, AgreeInv, Rollback, Unseen, moveVars, otherVars
<1> QED
  BY <1>1, <1>2 DEF Agrees, AgreeInv


(* A statement of t applies its quantity to row r.                          *)
Applied(t, r) ==
  LET level == View(t, r)
      qty == tx[t].todo[r]
  IN  [onHand |-> level.onHand - (IF tx[t].op = "commit" THEN qty ELSE 0),
       reserved |-> level.reserved + (IF tx[t].op = "create" THEN qty ELSE - qty)]

Applies(t, r) ==
  /\ tx[t].op \in {"create", "commit", "release"} /\ IsNext(t, r)
  /\ \E level \in StockLevel :
       WriteRow(t, r, level) /\ (~overwritten' => level = Applied(t, r))
  /\ \E s \in {"select", "update"} : Advance(t, r, s)
  /\ tx[t].op = "create" => tx[t].todo[r] <= View(t, r).onHand - View(t, r).reserved
  /\ UNCHANGED <<resVars, moveVars>>
  /\ overwritten => overwritten'

LEMMA AppliedTx ==
  ASSUME TypeOK, NEW t \in Txs, NEW r \in Rows, NEW s \in {"select", "update"},
         Advance(t, r, s)
  PROVE  /\ tx'[t].op = tx[t].op /\ tx'[t].res = tx[t].res
         /\ tx'[t].want = tx[t].want /\ tx'[t].delta = tx[t].delta
         /\ tx'[t].todo = [tx[t].todo EXCEPT ![r] = 0]
         /\ tx'[t].done = [tx[t].done EXCEPT ![r] = tx[t].todo[r]]
         /\ \A u \in Txs \ {t} : tx'[u] = tx[u]
<1>1. tx[t] \in TxState
  BY DEF TypeOK
<1> DEFINE new == [tx[t] EXCEPT !.todo = [tx[t].todo EXCEPT ![r] = 0],
                                !.done = [tx[t].done EXCEPT ![r] = tx[t].todo[r]],
                                !.step = s]
<1>2. /\ new.op = tx[t].op /\ new.res = tx[t].res
      /\ new.want = tx[t].want /\ new.delta = tx[t].delta
      /\ new.todo = [tx[t].todo EXCEPT ![r] = 0]
      /\ new.done = [tx[t].done EXCEPT ![r] = tx[t].todo[r]]
  BY <1>1 DEF TxState
<1>3. tx' = [tx EXCEPT ![t] = new]
  BY DEF Advance
<1> HIDE DEF new
<1> QED
  BY <1>2, <1>3 DEF TypeOK

(* A row t has not applied anything to yet looks to it as it looks to       *)
(* everybody.                                                               *)
LEMMA ViewIsStock ==
  ASSUME TypeOK, NEW t \in Txs, NEW r \in Rows, RowAgrees(t, r), DeltaAgrees(t),
         tx[t].op # "adjust", tx[t].done[r] = 0, ~overwritten
  PROVE  View(t, r) = stock[r]
<1>1. CASE rowLock[r] = t
  <2>1. stock[r] \in StockLevel /\ tx[t].delta[r] = 0
    BY DEF TypeOK, DeltaAgrees, NoRows
  <2>2. OnHandAfter(t, r) = stock[r].onHand
    BY <2>1 DEF OnHandAfter, StockLevel
  <2>3. ReservedAfter(t, r) = stock[r].reserved
    BY <2>1 DEF ReservedAfter, StockLevel
  <2>4. newest[r] = [onHand |-> stock[r].onHand, reserved |-> stock[r].reserved]
    BY <1>1, <2>2, <2>3 DEF RowAgrees, LevelAgrees
  <2> QED
    BY <1>1, <2>1, <2>4 DEF StockLevel, View
<1> QED
  BY <1>1 DEF View

LEMMA AppliesAgrees ==
  ASSUME BooksInv, NEW t \in Txs, NEW r \in Rows, Applies(t, r)
  PROVE  Agrees
<1>0. TypeOK /\ RowsAgree(t) /\ CoversSoFar(t) /\ t # NoTx
  BY InventoryAssumption DEF BooksInv, LedgerInv, AgreeInv
<1>1. PICK s \in {"select", "update"} : Advance(t, r, s)
  BY DEF Applies
<1>2. PICK level \in StockLevel :
        WriteRow(t, r, level) /\ (~overwritten' => level = Applied(t, r))
  BY DEF Applies
<1>3. /\ tx[t].op \in {"create", "commit", "release"} /\ tx[t].todo[r] > 0
      /\ tx[t].todo \in [Rows -> Nat] /\ tx[t].done \in [Rows -> Nat]
  BY <1>0, TxTypes DEF Applies, IsNext, Pending
<1>4. /\ tx'[t].op = tx[t].op /\ tx'[t].res = tx[t].res
      /\ tx'[t].want = tx[t].want /\ tx'[t].delta = tx[t].delta
      /\ tx'[t].todo = [tx[t].todo EXCEPT ![r] = 0]
      /\ tx'[t].done = [tx[t].done EXCEPT ![r] = tx[t].todo[r]]
      /\ \A u \in Txs \ {t} : tx'[u] = tx[u]
  BY <1>0, <1>1, AppliedTx
<1>5. /\ tx[t].done[r] = 0 /\ tx'[t].todo[r] = 0 /\ tx'[t].done[r] = tx[t].todo[r]
      /\ tx[t].delta = NoRows /\ RowAgrees(t, r)
  BY <1>0, <1>3, <1>4 DEF RowsAgree, RowAgrees, DeltaAgrees
<1>6. ~overwritten' => View(t, r) = stock[r]
  <2>1. SUFFICES ASSUME ~overwritten'
                 PROVE  ~overwritten
    BY <1>0, <1>3, <1>5, ViewIsStock DEF RowsAgree
  <2> QED
    BY <2>1 DEF Applies
<1>7. stock' = stock /\ demand' = demand /\ lines' = lines /\ rowLock'[r] = t
  BY <1>0, <1>2 DEF WriteRow, Applies, resVars, TypeOK
<1>8. RowAgrees(t, r)'
  <2>1. LevelAgrees(t, r)'
    <3>1. SUFFICES ASSUME ~overwritten'
                   PROVE  newest'[r] = [onHand |-> OnHandAfter(t, r)', reserved |-> ReservedAfter(t, r)']
      BY DEF LevelAgrees
    <3>2. newest'[r] = level /\ level = Applied(t, r) /\ View(t, r) = stock[r]
      BY <1>0, <1>2, <1>6, <3>1 DEF WriteRow, TypeOK
    <3>3. stock[r] \in StockLevel /\ tx'[t].delta[r] = 0
      BY <1>0, <1>4, <1>5 DEF TypeOK, NoRows
    <3>4. Applied(t, r).onHand = OnHandAfter(t, r)'
      BY <1>3, <1>4, <1>5, <1>7, <3>2, <3>3 DEF Applied, OnHandAfter, StockLevel
    <3>5. Applied(t, r).reserved = ReservedAfter(t, r)'
      BY <1>3, <1>4, <1>5, <1>7, <3>2, <3>3 DEF Applied, ReservedAfter, StockLevel
    <3>6. Applied(t, r) = [onHand |-> Applied(t, r).onHand, reserved |-> Applied(t, r).reserved]
      BY DEF Applied
    <3> QED
      BY <3>2, <3>4, <3>5, <3>6
  <2>2. tx'[t].op = "create" => WasFree(t, r)'
    BY <1>4, <1>5, <1>6, <1>7 DEF WasFree, Applies
  <2> QED
    BY <1>5, <1>7, <2>1, <2>2 DEF RowAgrees
<1>9. ASSUME NEW q \in Rows \ {r}
      PROVE  RowAgrees(t, q)'
  <2>1. /\ tx'[t].todo[q] = tx[t].todo[q] /\ tx'[t].done[q] = tx[t].done[q]
        /\ rowLock'[q] = rowLock[q] /\ newest'[q] = newest[q]
    BY <1>0, <1>2, <1>3, <1>4 DEF WriteRow, TypeOK
  <2>2. LevelAgrees(t, q) => LevelAgrees(t, q)'
    BY <1>4, <1>7, <2>1 DEF LevelAgrees, OnHandAfter, ReservedAfter, Applies
  <2>3. WasFree(t, q) => WasFree(t, q)'
    BY <1>7, <2>1 DEF WasFree, Applies
  <2> QED
    BY <1>0, <1>4, <2>1, <2>2, <2>3 DEF RowsAgree, RowAgrees
<1>10. RowsAgree(t)'
  BY <1>3, <1>4, <1>5, <1>8, <1>9 DEF RowsAgree, DeltaAgrees
<1>11. CoversSoFar(t)'
  <2>1. \A q \in Rows : Held(t)'[q] = Held(t)[q]
    BY <1>3, <1>4, <1>5 DEF Held
  <2>2. Held(t)' = Held(t)
    BY <2>1 DEF Held
  <2> QED
    BY <1>0, <1>4, <1>7, <2>2 DEF CoversSoFar, Holding
<1>12. Quiet(t)
  BY <1>0, <1>2, <1>4, <1>7 DEF Quiet, Unseen, Applies, WriteRow, Lockable, resVars, moveVars, TypeOK
<1> QED
  BY <1>10, <1>11, <1>12, QuietAgrees


LEMMA ReserveAgrees ==
  ASSUME BooksInv, NEW t \in Txs, NEW r \in Rows, Reserve(t, r)
  PROVE  Agrees
<1>1. TypeOK /\ View(t, r) \in StockLevel /\ tx[t].todo[r] \in Nat
  BY ViewType, TxTypes DEF BooksInv, LedgerInv
<1> DEFINE level == [View(t, r) EXCEPT !.reserved = @ + tx[t].todo[r]]
<1>2. level \in StockLevel
  BY <1>1 DEF StockLevel
<1>3. tx[t].op = "create"
  BY DEF Reserve
<1>4. level = Applied(t, r)
  BY <1>1, <1>3 DEF Applied, StockLevel
<1>5. Applies(t, r)
  BY <1>2, <1>3, <1>4 DEF Applies, Reserve, CanReserve, otherVars
<1> QED
  BY <1>5, AppliesAgrees

LEMMA WriteLevelAgrees ==
  ASSUME BooksInv, NEW t \in Txs, NEW r \in Rows, WriteLevel(t, r)
  PROVE  Agrees
<1>1. TypeOK /\ tx[t].seen \in StockLevel /\ tx[t].todo[r] \in Nat
  BY TxTypes DEF BooksInv, LedgerInv, TxState
<1> DEFINE level == [onHand |-> tx[t].seen.onHand - tx[t].todo[r],
                     reserved |-> tx[t].seen.reserved - tx[t].todo[r]]
<1>2. level \in StockLevel
  BY <1>1 DEF StockLevel
<1>3. /\ tx[t].op = "commit" /\ overwritten' = (overwritten \/ tx[t].seen # View(t, r))
      /\ WriteRow(t, r, level) /\ IsNext(t, r) /\ Advance(t, r, "select")
      /\ UNCHANGED <<resVars, moveVars>>
  BY DEF WriteLevel
<1>4. ~overwritten' => level = Applied(t, r)
  <2>1. SUFFICES ASSUME tx[t].seen = View(t, r)
                 PROVE  level = Applied(t, r)
    BY <1>3
  <2>2. tx[t].seen.reserved - tx[t].todo[r] = tx[t].seen.reserved + (- tx[t].todo[r])
    BY <1>1 DEF StockLevel
  <2> QED
    BY <1>3, <2>1, <2>2 DEF Applied
<1>5. Applies(t, r)
  <2>1. overwritten => overwritten'
    BY <1>3
  <2> QED
    BY <1>2, <1>3, <1>4, <2>1 DEF Applies
<1> QED
  BY <1>5, AppliesAgrees

LEMMA ReleaseRowAgrees ==
  ASSUME BooksInv, NEW t \in Txs, NEW r \in Rows, ReleaseRow(t, r)
  PROVE  Agrees
<1>1. TypeOK /\ View(t, r) \in StockLevel /\ tx[t].todo[r] \in Nat
  BY ViewType, TxTypes DEF BooksInv, LedgerInv
<1> DEFINE level == [View(t, r) EXCEPT !.reserved = @ - tx[t].todo[r]]
<1>2. level \in StockLevel
  BY <1>1 DEF StockLevel
<1>3. tx[t].op = "release"
  BY DEF ReleaseRow
<1>4. level = Applied(t, r)
  BY <1>1, <1>3 DEF Applied, StockLevel
<1>5. Applies(t, r)
  BY <1>2, <1>3, <1>4 DEF Applies, ReleaseRow, otherVars
<1> QED
  BY <1>5, AppliesAgrees

(* The request begins: nothing is applied yet.                              *)
LEMMA BeginAgrees ==
  ASSUME TypeOK, NEW t \in Txs, RowsAgree(t), tx[t].op = "idle",
         tx'[t].op # "adjust", tx'[t].done = NoRows, tx'[t].delta = NoRows,
         UNCHANGED <<stockVars, overwritten>>
  PROVE  RowsAgree(t)'
<1>1. ASSUME NEW r \in Rows
      PROVE  RowAgrees(t, r)'
  <2>1. /\ tx'[t].done[r] = 0 /\ tx'[t].delta[r] = 0 /\ tx[t].delta[r] = 0
        /\ rowLock'[r] = rowLock[r] /\ RowAgrees(t, r) /\ stock[r] \in StockLevel
    BY DEF NoRows, stockVars, RowsAgree, DeltaAgrees, TypeOK
  <2>2. OnHandAfter(t, r) = stock[r].onHand /\ ReservedAfter(t, r) = stock[r].reserved
    BY <2>1 DEF OnHandAfter, ReservedAfter, StockLevel
  <2>3. OnHandAfter(t, r)' = stock[r].onHand /\ ReservedAfter(t, r)' = stock[r].reserved
    BY <2>1 DEF OnHandAfter, ReservedAfter, StockLevel, stockVars
  <2>4. LevelAgrees(t, r) => LevelAgrees(t, r)'
    BY <2>2, <2>3 DEF LevelAgrees, stockVars
  <2> QED
    BY <2>1, <2>4 DEF RowAgrees
<1> QED
  BY <1>1 DEF RowsAgree, DeltaAgrees

LEMMA BeginOnAgrees ==
  ASSUME BooksInv, NEW t \in Txs, NEW i \in Res, NEW o \in {"commit", "release"},
         NEW s \in {"select", "update"}, tx[t].op = "idle", BeginOn(t, i, o, s)
  PROVE  Agrees
<1>0. TypeOK /\ RowsAgree(t)
  BY DEF BooksInv, LedgerInv, AgreeInv
<1>1. /\ tx'[t] = [Idle EXCEPT !.op = o, !.step = s, !.res = i, !.todo = lines[i]]
      /\ \A u \in Txs \ {t} : tx'[u] = tx[u]
  BY <1>0 DEF TypeOK, BeginOn
<1>2. tx'[t].op = o /\ tx'[t].done = NoRows /\ tx'[t].delta = NoRows
  BY <1>1 DEF Idle
<1>3. UNCHANGED <<stockVars, status, lines, demand, nextRes, moveVars, otherVars>>
  BY DEF BeginOn
<1>4. RowsAgree(t)' /\ CoversSoFar(t)'
  BY <1>0, <1>2, <1>3, BeginAgrees DEF CoversSoFar, otherVars
<1>5. Quiet(t)
  BY <1>1, <1>3 DEF Quiet, Unseen, stockVars, moveVars, otherVars
<1> QED
  BY <1>4, <1>5, QuietAgrees

LEMMA BeginCreateAgrees ==
  ASSUME BooksInv, NEW t \in Txs, NEW d \in Demands, BeginCreate(t, d)
  PROVE  Agrees
<1>0. TypeOK /\ RowsAgree(t) /\ UnusedAbsent /\ \A u \in Txs : Fresh(u)
  BY DEF BooksInv, LedgerInv, AgreeInv
<1>1. /\ tx'[t] = [Idle EXCEPT !.op = "create", !.res = nextRes, !.want = d]
      /\ \A u \in Txs \ {t} : tx'[u] = tx[u]
  BY <1>0 DEF TypeOK, BeginCreate
<1>2. /\ tx'[t].op = "create" /\ tx'[t].done = NoRows /\ tx'[t].delta = NoRows
      /\ tx'[t].todo = NoRows /\ tx'[t].want = d /\ tx'[t].res = nextRes
  BY <1>1 DEF Idle
<1>3. /\ UNCHANGED <<stockVars, status, lines, moveVars, otherVars>>
      /\ nextRes \in Res /\ demand' = [demand EXCEPT ![nextRes] = d] /\ tx[t].op = "idle"
  BY DEF BeginCreate, Asks
<1>4. d \in [Products -> Nat] /\ demand'[nextRes] = d
  BY <1>0, <1>3, InventoryAssumption DEF TypeOK
<1>5. RowsAgree(t)'
  BY <1>0, <1>2, <1>3, BeginAgrees DEF otherVars
<1>6. CoversSoFar(t)'
  <2>1. \A r \in Rows : Held(t)'[r] = 0
    BY <1>2 DEF Held, NoRows
  <2>2. ASSUME NEW w \in Warehouses, NEW p \in Products
        PROVE  Held(t)'[<<w, p>>] = 0
    BY <2>1 DEF Rows
  <2> QED
    BY <1>2, <1>4, <2>2 DEF CoversSoFar, Holding
<1>7. Quiet(t)
  <2>1. \A i \in Res : i # nextRes => demand'[i] = demand[i]
    BY <1>0, <1>3 DEF TypeOK
  <2>2. status[nextRes] = "absent"
    BY <1>0, <1>3 DEF UnusedAbsent, Res, TypeOK
  <2>3. ASSUME NEW u \in Txs \ {t}, tx[u].op = "create"
        PROVE  demand'[tx[u].res] = demand[tx[u].res]
    <3>1. tx[u].res \in Res /\ tx[u].res < nextRes
      BY <1>0, <2>3 DEF Fresh
    <3>2. tx[u].res # nextRes
      BY <1>3, <3>1 DEF Res
    <3> QED
      BY <2>1, <3>1, <3>2
  <2> QED
    BY <1>1, <1>3, <2>1, <2>2, <2>3 DEF Quiet, Unseen, stockVars, moveVars, otherVars
<1> QED
  BY <1>5, <1>6, <1>7, QuietAgrees

LEMMA ReadLevelAgrees ==
  ASSUME BooksInv, NEW t \in Txs, NEW r \in Rows, ReadLevel(t, r)
  PROVE  Agrees
<1>0. TypeOK /\ RowsAgree(t) /\ tx[t] \in TxState
  BY DEF BooksInv, LedgerInv, AgreeInv, TypeOK
<1>1. /\ tx'[t] = [tx[t] EXCEPT !.step = "update", !.seen = View(t, r)]
      /\ \A u \in Txs \ {t} : tx'[u] = tx[u]
  BY <1>0 DEF TypeOK, ReadLevel
<1>2. /\ tx'[t].op = tx[t].op /\ tx'[t].done = tx[t].done /\ tx'[t].delta = tx[t].delta
      /\ tx'[t].todo = tx[t].todo
  BY <1>0, <1>1 DEF TxState
<1>3. UNCHANGED <<stockVars, resVars, moveVars, otherVars>> /\ tx[t].op = "commit"
  BY DEF ReadLevel
<1>4. RowsAgree(t)'
  <2>1. ASSUME NEW q \in Rows
        PROVE  RowAgrees(t, q)'
    <3>1. LevelAgrees(t, q) => LevelAgrees(t, q)'
      BY <1>2, <1>3 DEF LevelAgrees, OnHandAfter, ReservedAfter, stockVars, otherVars
    <3> QED
      BY <1>0, <1>2, <1>3, <3>1 DEF RowsAgree, RowAgrees, stockVars
  <2> QED
    BY <1>0, <1>2, <2>1 DEF RowsAgree, DeltaAgrees
<1>5. CoversSoFar(t)'
  BY <1>2, <1>3 DEF CoversSoFar
<1>6. Quiet(t)
  BY <1>1, <1>3 DEF Quiet, Unseen, stockVars, resVars, moveVars, otherVars
<1> QED
  BY <1>4, <1>5, <1>6, QuietAgrees

LEMMA PlanAgrees ==
  ASSUME BooksInv, NEW t \in Txs, NEW p \in Products, Plan(t, p)
  PROVE  Agrees
<1>0. TypeOK /\ RowsAgree(t) /\ CoversSoFar(t)
  BY DEF BooksInv, LedgerInv, AgreeInv
<1>1. PICK plan \in GreedyPlans(tx[t].want[p], Candidates(t, p)) :
        tx' = [tx EXCEPT ![t] =
                 [tx[t] EXCEPT !.want = [tx[t].want EXCEPT ![p] = 0],
                               !.available = Candidates(t, p),
                               !.todo = [r \in Rows |-> IF Product(r) = p
                                                        THEN plan[Warehouse(r)] ELSE 0]]]
  BY DEF Plan
<1> DEFINE new == [tx[t] EXCEPT !.want = [tx[t].want EXCEPT ![p] = 0],
                                !.available = Candidates(t, p),
                                !.todo = [r \in Rows |-> IF Product(r) = p
                                                         THEN plan[Warehouse(r)] ELSE 0]]
<1>2. tx'[t] = new /\ \A u \in Txs \ {t} : tx'[u] = tx[u]
  BY <1>0, <1>1 DEF TypeOK
<1>3. /\ new.op = tx[t].op /\ new.res = tx[t].res
      /\ new.done = tx[t].done /\ new.delta = tx[t].delta
      /\ new.want = [tx[t].want EXCEPT ![p] = 0]
      /\ new.todo = [r \in Rows |-> IF Product(r) = p THEN plan[Warehouse(r)] ELSE 0]
  BY <1>0 DEF TypeOK, TxState
<1> HIDE DEF new
<1>4. /\ tx[t].op = "create" /\ tx[t].todo = NoRows /\ tx[t].want[p] > 0
      /\ UNCHANGED <<stockVars, resVars, moveVars, otherVars>>
  BY DEF Plan, IsNextProduct
<1>5. /\ tx[t].done \in [Rows -> Nat] /\ tx[t].want \in [Products -> Nat]
      /\ \A r \in Rows : Held(t)[r] = tx[t].done[r]
  BY <1>0, <1>4, TxTypes DEF NoRows
<1>6. plan \in [Warehouses -> Nat] /\ SumFunction(plan) = tx[t].want[p]
  BY <1>5 DEF GreedyPlans, IsGreedyPlan, Candidates
<1>7. /\ tx[t].want[p] = demand[tx[t].res][p]
      /\ \A w \in Warehouses : tx[t].done[<<w, p>>] = 0
  BY <1>0, <1>4, <1>5 DEF CoversSoFar, Rows
<1>8. \A r \in Rows : r = <<Warehouse(r), Product(r)>> /\ Warehouse(r) \in Warehouses
                      /\ Product(r) \in Products
  BY DEF Rows, Warehouse, Product
<1>9. RowsAgree(t)'
  <2>1. ASSUME NEW q \in Rows
        PROVE  RowAgrees(t, q)'
    <3>1. LevelAgrees(t, q) => LevelAgrees(t, q)'
      BY <1>2, <1>3, <1>4 DEF LevelAgrees, OnHandAfter, ReservedAfter, stockVars, otherVars
    <3>2. WasFree(t, q) => WasFree(t, q)'
      BY <1>2, <1>3, <1>4 DEF WasFree, stockVars, otherVars
    <3>3. new.todo[q] = 0 \/ new.done[q] = 0
      BY <1>3, <1>7, <1>8
    <3> QED
      BY <1>0, <1>2, <1>3, <1>4, <3>1, <3>2, <3>3 DEF RowsAgree, RowAgrees, stockVars
  <2> QED
    BY <1>0, <1>2, <1>3, <2>1 DEF RowsAgree, DeltaAgrees
<1>10. \A w \in Warehouses, q \in Products :
         Held(t)'[<<w, q>>] = IF q = p THEN plan[w] ELSE Held(t)[<<w, q>>]
  <2>1. ASSUME NEW w \in Warehouses, NEW q \in Products
        PROVE  Held(t)'[<<w, q>>] = IF q = p THEN plan[w] ELSE Held(t)[<<w, q>>]
    <3>1. <<w, q>> \in Rows /\ Warehouse(<<w, q>>) = w /\ Product(<<w, q>>) = q
      BY DEF Rows, Warehouse, Product
    <3>2. Held(t)'[<<w, q>>] = new.todo[<<w, q>>] + new.done[<<w, q>>]
      BY <1>2, <3>1 DEF Held
    <3> QED
      BY <1>3, <1>5, <1>6, <1>7, <3>1, <3>2
  <2> QED
    BY <2>1
<1>11. CoversSoFar(t)'
  <2>0. demand' = demand /\ demand[tx[t].res] \in Demands
    BY <1>0, <1>4 DEF resVars, CoversSoFar
  <2>1. ASSUME NEW q \in Products, q # p
        PROVE  IF new.want[q] > 0
               THEN /\ new.want[q] = demand[tx[t].res][q]
                    /\ \A w \in Warehouses : Held(t)'[<<w, q>>] = 0
               ELSE Holding(Held(t)', demand[tx[t].res], q)
    <3>1. new.want[q] = tx[t].want[q]
      BY <1>3, <1>5, <2>1
    <3>2. \A w \in Warehouses : Held(t)'[<<w, q>>] = Held(t)[<<w, q>>]
      BY <1>10, <2>1
    <3>3. Holding(Held(t), demand[tx[t].res], q) => Holding(Held(t)', demand[tx[t].res], q)
      <4>1. [w \in Warehouses |-> Held(t)'[<<w, q>>]] = [w \in Warehouses |-> Held(t)[<<w, q>>]]
        BY <3>2
      <4> QED
        BY <3>2, <4>1 DEF Holding
    <3>4. IF tx[t].want[q] > 0
          THEN /\ tx[t].want[q] = demand[tx[t].res][q]
               /\ \A w \in Warehouses : Held(t)[<<w, q>>] = 0
          ELSE Holding(Held(t), demand[tx[t].res], q)
      BY <1>0, <1>4 DEF CoversSoFar
    <3> QED
      BY <3>1, <3>2, <3>3, <3>4
  <2>2. new.want[p] = 0 /\ Holding(Held(t)', demand[tx[t].res], p)
    <3>1. [w \in Warehouses |-> Held(t)'[<<w, p>>]] = plan
      BY <1>6, <1>10
    <3>2. demand[tx[t].res][p] # 0
      BY <1>4, <1>5, <1>7
    <3> QED
      BY <1>3, <1>5, <1>6, <1>7, <3>1, <3>2 DEF Holding
  <2>3. ASSUME NEW q \in Products
        PROVE  IF new.want[q] > 0
               THEN /\ new.want[q] = demand[tx[t].res][q]
                    /\ \A w \in Warehouses : Held(t)'[<<w, q>>] = 0
               ELSE Holding(Held(t)', demand[tx[t].res], q)
    <3>1. CASE q = p
      BY <2>2, <3>1
    <3> QED
      BY <2>1, <3>1
  <2> QED
    BY <1>2, <1>3, <1>4, <2>0, <2>3 DEF CoversSoFar
<1>12. Quiet(t)
  BY <1>2, <1>4 DEF Quiet, Unseen, stockVars, resVars, moveVars, otherVars
<1> QED
  BY <1>9, <1>11, <1>12, QuietAgrees


LEMMA BeginAdjustAgrees ==
  ASSUME BooksInv, NEW t \in Txs, NEW r \in Rows, NEW d \in Deltas, BeginAdjust(t, r, d)
  PROVE  Agrees
<1>0. TypeOK /\ RowsAgree(t) /\ d \in Int
  BY InventoryAssumption DEF BooksInv, LedgerInv, AgreeInv
<1>1. /\ tx'[t] = [Idle EXCEPT !.op = "adjust", !.delta = [NoRows EXCEPT ![r] = d]]
      /\ \A u \in Txs \ {t} : tx'[u] = tx[u]
  BY <1>0 DEF TypeOK, BeginAdjust
<1>2. /\ tx'[t].op = "adjust" /\ tx'[t].done = NoRows
      /\ tx'[t].delta = [NoRows EXCEPT ![r] = d]
  BY <1>1 DEF Idle
<1>3. /\ UNCHANGED <<resVars, moveVars, stock, overwritten>> /\ tx[t].op = "idle"
      /\ WriteRow(t, r, [stock[r] EXCEPT !.onHand = @ + d])
  BY DEF BeginAdjust, Asks, WriteRow
<1>4. rowLock'[r] = t /\ newest'[r] = [stock[r] EXCEPT !.onHand = @ + d]
  BY <1>0, <1>3 DEF WriteRow, TypeOK
<1>5. tx'[t].delta[r] = d /\ \A q \in Rows \ {r} : tx'[t].delta[q] = 0
  BY <1>2 DEF NoRows
<1>6. \A q \in Rows : tx'[t].done[q] = 0
  BY <1>2 DEF NoRows
<1>7. RowAgrees(t, r)'
  <2>1. stock[r] \in StockLevel
    BY <1>0 DEF TypeOK
  <2>2. OnHandAfter(t, r)' = stock[r].onHand + d /\ ReservedAfter(t, r)' = stock[r].reserved
    BY <1>0, <1>2, <1>3, <1>5, <2>1 DEF OnHandAfter, ReservedAfter, StockLevel
  <2>3. newest'[r] = [onHand |-> stock[r].onHand + d, reserved |-> stock[r].reserved]
    BY <1>4, <2>1 DEF StockLevel
  <2> QED
    BY <1>2, <1>4, <1>6, <2>2, <2>3 DEF RowAgrees, LevelAgrees
<1>8. ASSUME NEW q \in Rows \ {r}
      PROVE  RowAgrees(t, q)'
  <2>1. stock[q] \in StockLevel /\ tx[t].delta[q] = 0 /\ RowAgrees(t, q)
    BY <1>0, <1>3 DEF TypeOK, RowsAgree, DeltaAgrees, NoRows
  <2>2. newest'[q] = newest[q] /\ rowLock'[q] = rowLock[q]
    BY <1>0, <1>3 DEF WriteRow, TypeOK
  <2>3. OnHandAfter(t, q) = stock[q].onHand /\ ReservedAfter(t, q) = stock[q].reserved
    BY <1>3, <2>1 DEF OnHandAfter, ReservedAfter, StockLevel
  <2>4. OnHandAfter(t, q)' = stock[q].onHand /\ ReservedAfter(t, q)' = stock[q].reserved
    BY <1>2, <1>3, <1>5, <2>1 DEF OnHandAfter, ReservedAfter, StockLevel
  <2>5. LevelAgrees(t, q) => LevelAgrees(t, q)'
    BY <1>3, <2>2, <2>3, <2>4 DEF LevelAgrees
  <2> QED
    BY <1>2, <1>5, <1>6, <2>1, <2>2, <2>5 DEF RowAgrees
<1>9. RowsAgree(t)' /\ CoversSoFar(t)'
  BY <1>2, <1>5, <1>7, <1>8 DEF RowsAgree, DeltaAgrees, CoversSoFar
<1>10. Quiet(t)
  BY <1>0, <1>1, <1>3 DEF Quiet, Unseen, WriteRow, Lockable, resVars, moveVars, TypeOK
<1> QED
  BY <1>9, <1>10, QuietAgrees

-------------------------------------------------------------------------------
(* What COMMIT makes visible is what t has applied.                         *)
LEMMA CommittedLevels ==
  ASSUME BooksInv, NEW t \in Txs, CommitTx(t), ~overwritten, NEW r \in Rows
  PROVE  stock'[r] = [onHand |-> OnHandAfter(t, r), reserved |-> ReservedAfter(t, r)]
<1>0. TypeOK /\ RowAgrees(t, r) /\ stock'[r] = View(t, r)
  BY DEF BooksInv, LedgerInv, AgreeInv, RowsAgree, CommitTx
<1>1. CASE rowLock[r] = t
  BY <1>0, <1>1 DEF View, RowAgrees, LevelAgrees
<1>2. CASE rowLock[r] # t
  <2>1. tx[t].done[r] = 0 /\ tx[t].delta[r] = 0 /\ stock[r] \in StockLevel /\ stock'[r] = stock[r]
    BY <1>0, <1>2 DEF RowAgrees, View, TypeOK
  <2>2. OnHandAfter(t, r) = stock[r].onHand /\ ReservedAfter(t, r) = stock[r].reserved
    BY <2>1 DEF OnHandAfter, ReservedAfter, StockLevel
  <2> QED
    BY <2>1, <2>2 DEF StockLevel
<1> QED
  BY <1>1, <1>2

LEMMA CommitLeavesOthers ==
  ASSUME BooksInv, NEW t \in Txs, CommitTx(t), UNCHANGED <<demand, overwritten>>
  PROVE  \A u \in Txs : RowsAgree(u)' /\ CoversSoFar(u)'
  BY EndAgrees DEF CommitTx, View

(* The reservations on hold, and what they hold of row r.                   *)
OnHold == {j \in Res : status[j] = "pending"}
HoldOf(r) == [j \in OnHold |-> lines[j][r]]

LEMMA FiniteRes == ASSUME NEW S, S \subseteq Res PROVE IsFiniteSet(S)
<1>1. IsFiniteSet(1 .. MaxRes)
  BY FS_Interval, InventoryAssumption
<1> QED
  BY <1>1, FS_Subset DEF Res

(* SumFunction of the quantities by row of product p is that by warehouse.  *)
LEMMA SumOfProduct ==
  ASSUME NEW f \in [Rows -> Nat], NEW p \in Products
  PROVE  /\ SumFunction([r \in {q \in Rows : Product(q) = p} |-> f[r]])
                = SumFunction([w \in Warehouses |-> f[<<w, p>>]])
         /\ (\A w \in Warehouses : f[<<w, p>>] = 0) =>
                SumFunction([w \in Warehouses |-> f[<<w, p>>]]) = 0
<1> DEFINE T == {q \in Rows : Product(q) = p}
           g == [r \in T |-> f[r]]
           h == [w \in Warehouses |-> f[<<w, p>>]]
           b == [w \in Warehouses |-> <<w, p>>]
<1>1. IsFiniteSet(Warehouses)
  BY IdsAreNumbered
<1>2. /\ b \in [Warehouses -> T]
      /\ \A x, y \in Warehouses : b[x] = b[y] => x = y
      /\ \A x \in Warehouses : g[b[x]] = h[x]
  BY DEF Rows, Product
<1>3. \A z \in T : \E x \in Warehouses : z = b[x]
  <2>1. ASSUME NEW z \in T
        PROVE  \E x \in Warehouses : z = b[x]
    <3>1. z[1] \in Warehouses /\ z = <<z[1], p>>
      BY DEF Rows, Product
    <3> QED
      BY <3>1
  <2> QED
    BY <2>1
<1>4. h \in [Warehouses -> Int] /\ g \in [T -> Int]
  BY DEF Rows
<1>5. SumFunction(g) = SumFunction(h)
  <2> HIDE DEF T, g, h, b
  <2> QED
    BY <1>1, <1>2, <1>3, <1>4, TotalRenamed
<1>6. ASSUME \A w \in Warehouses : f[<<w, p>>] = 0
      PROVE  SumFunction(h) = 0
  <2>1. DOMAIN h = Warehouses /\ \A w \in Warehouses : h[w] = 0
    BY <1>6
  <2> HIDE DEF h
  <2> QED
    BY <1>1, <2>1, TotalOfZeros
<1> QED
  BY <1>5, <1>6

(* The sums of the abstract service are those of this one. *)
LEMMA SameSums == ASSUME NEW f PROVE Promise!SumFunction(f) = SumFunction(f)
  BY DEF Promise!SumFunction, Promise!SumFunctionOnSet, Promise!FoldFunctionOnSet,
         Promise!MapThenFoldSet, SumFunction, SumFunctionOnSet, FoldFunctionOnSet, MapThenFoldSet

LEMMA FinishCreateAgrees ==
  ASSUME BooksInv, NEW t \in Txs, FinishCreate(t)
  PROVE  Agrees
<1> DEFINE i == tx[t].res
<1>0. /\ TypeOK /\ RowsAgree(t) /\ CoversSoFar(t) /\ BooksAgree
      /\ i \in Res /\ status[i] = "absent"
  BY DEF BooksInv, LedgerInv, AgreeInv, FinishCreate, Fresh
<1>1. /\ status' = [status EXCEPT ![i] = "pending"]
      /\ lines' = [lines EXCEPT ![i] = tx[t].done]
      /\ CommitTx(t) /\ tx[t].op = "create" /\ tx[t].todo = NoRows /\ tx[t].want = NoProducts
      /\ UNCHANGED <<demand, nextRes, moveVars, overwritten>>
  BY DEF FinishCreate, AllDone, otherVars
<1>2. /\ tx[t].done \in [Rows -> Nat] /\ Held(t) \in [Rows -> Nat]
      /\ \A r \in Rows : Held(t)[r] = tx[t].done[r]
  BY <1>0, <1>1, TxTypes DEF NoRows
<1>3. Held(t) = tx[t].done
  BY <1>2
<1>4. /\ status'[i] = "pending" /\ lines'[i] = tx[t].done
      /\ \A j \in Res \ {i} : status'[j] = status[j] /\ lines'[j] = lines[j]
  BY <1>0, <1>1 DEF TypeOK
<1>5. demand[i] \in Demands /\ \A p \in Products : Holding(tx[t].done, demand[i], p)
  BY <1>0, <1>1, <1>3 DEF CoversSoFar, NoProducts
<1>6. LinesCoverDemand'
  <2>1. ASSUME NEW j \in Res, status'[j] # "absent", NEW p \in Products
        PROVE  Holding(lines'[j], demand'[j], p)
    <3>1. CASE j = i
      BY <1>1, <1>4, <1>5, <3>1
    <3>2. CASE j # i
      BY <1>0, <1>1, <1>4, <2>1, <3>2 DEF BooksAgree, LinesCoverDemand, Holding
    <3> QED
      BY <3>1, <3>2
  <2> QED
    BY <2>1 DEF LinesCoverDemand, Holding
<1>7. ASSUME ~overwritten, NEW r \in Rows
      PROVE  /\ stock'[r] = [onHand |-> stock[r].onHand,
                             reserved |-> stock[r].reserved + tx[t].done[r]]
             /\ stock[r] \in StockLevel
  <2>1. stock[r] \in StockLevel /\ tx[t].delta[r] = 0
    BY <1>0, <1>1 DEF TypeOK, RowsAgree, DeltaAgrees, NoRows
  <2>2. OnHandAfter(t, r) = stock[r].onHand /\ ReservedAfter(t, r) = stock[r].reserved + tx[t].done[r]
    BY <1>1, <2>1 DEF OnHandAfter, ReservedAfter, StockLevel
  <2> QED
    BY <1>1, <1>7, <2>1, <2>2, CommittedLevels
<1>8. ~overwritten' => ReservedMatchesPending' /\ OnHandMatchesMovements'
  <2>1. SUFFICES ASSUME ~overwritten, NEW r \in Rows
                 PROVE  /\ stock'[r].reserved = SumFunction(HoldOf(r)')
                        /\ stock'[r].onHand = InitStock[r].onHand + adjusted'[r]
                                                - SumFunction([j \in Res |-> moved'[j][r]])
    BY <1>1 DEF ReservedMatchesPending, OnHandMatchesMovements, HoldOf, OnHold
  <2>2. stock[r].reserved = SumFunction(HoldOf(r))
    BY <1>0, <2>1 DEF BooksAgree, ReservedMatchesPending, HoldOf, OnHold
  <2>3. OnHold' = OnHold \cup {i} /\ i \notin OnHold /\ IsFiniteSet(OnHold)
    BY <1>0, <1>4, FiniteRes DEF OnHold
  <2>4. HoldOf(r) \in [OnHold -> Int] /\ HoldOf(r)' \in [OnHold \cup {i} -> Int]
    <3>1. ASSUME NEW j \in Res
          PROVE  lines[j][r] \in Nat /\ lines'[j][r] \in Nat
      <4>1. lines[j][r] \in Nat
        BY <1>0 DEF TypeOK
      <4>2. CASE j = i
        BY <1>2, <1>4, <4>1, <4>2
      <4> QED
        BY <1>4, <4>1, <4>2
    <3>2. OnHold \subseteq Res /\ OnHold' \subseteq Res
      BY DEF OnHold
    <3> QED
      BY <2>3, <3>1, <3>2 DEF HoldOf
  <2>5. (\A j \in OnHold : HoldOf(r)'[j] = HoldOf(r)[j]) /\ HoldOf(r)'[i] = tx[t].done[r]
    BY <1>4, <2>3 DEF HoldOf, OnHold
  <2>6. SumFunction(HoldOf(r)') = SumFunction(HoldOf(r)) + tx[t].done[r]
    <3> DEFINE f == HoldOf(r)
               g == HoldOf(r)'
    <3>1. /\ f \in [OnHold -> Int] /\ g \in [OnHold \cup {i} -> Int]
          /\ \A j \in OnHold : g[j] = f[j]
      BY <2>4, <2>5
    <3> HIDE DEF f, g, i
    <3>2. SumFunction(g) = SumFunction(f) + g[i]
      BY <2>3, <3>1, TotalGrows
    <3> QED
      BY <2>5, <3>2 DEF f, g
  <2>7. stock'[r].reserved = stock[r].reserved + tx[t].done[r] /\ stock'[r].onHand = stock[r].onHand
    <3>1. stock'[r] = [onHand |-> stock[r].onHand, reserved |-> stock[r].reserved + tx[t].done[r]]
      BY <1>7, <2>1, Zenon
    <3> QED
      BY <3>1
  <2>8. stock'[r].reserved = SumFunction(HoldOf(r)')
    BY <2>2, <2>6, <2>7
  <2>9. stock'[r].onHand = InitStock[r].onHand + adjusted'[r]
                             - SumFunction([j \in Res |-> moved'[j][r]])
    BY <1>0, <1>1, <2>1, <2>7 DEF BooksAgree, OnHandMatchesMovements, moveVars
  <2> QED
    BY <2>8, <2>9
<1>9. AtomicStep
  <2>1. SUFFICES ASSUME ~overwritten
                 PROVE  Promise!Create(i, lines'[i])
    BY <1>0, <1>1 DEF AtomicStep, Promise!Next
  <2>2. Promise!Covers(lines'[i], demand[i])
    <3> DEFINE f == lines'[i]
    <3>1. DOMAIN demand[i] = Products /\ f = tx[t].done
      BY <1>0, <1>4 DEF TypeOK
    <3> HIDE DEF f
    <3>2. ASSUME NEW p \in Products
          PROVE  SumFunction([r \in {q \in Rows : Product(q) = p} |-> f[r]]) = demand[i][p]
      <4>1. Holding(f, demand[i], p) /\ f \in [Rows -> Nat]
        BY <1>2, <1>5, <3>1
      <4> QED
        BY <4>1, SumOfProduct DEF Holding
    <3>3. ASSUME NEW r \in Rows, f[r] > 0
          PROVE  f[r] <= stock[r].onHand - stock[r].reserved
      BY <1>0, <1>1, <2>1, <3>1, <3>3 DEF RowsAgree, RowAgrees, WasFree
    <3>4. Promise!Covers(f, demand[i])
      <4>1. \A p \in DOMAIN demand[i] :
              SumFunction([r \in {q \in Rows : Product(q) = p} |-> f[r]]) = demand[i][p]
        BY <3>1, <3>2
      <4>2. \A r \in Rows : f[r] > 0 => f[r] <= stock[r].onHand - stock[r].reserved
        BY <3>3
      <4> QED
        BY <4>1, <4>2, SameSums DEF Promise!Covers
    <3> QED
      BY <3>4 DEF f
  <2>3. stock' = [r \in Rows |-> [stock[r] EXCEPT !.reserved = @ + lines'[i][r]]]
    <3>1. DOMAIN stock' = Rows /\ stock' = [r \in Rows |-> stock'[r]]
      BY <1>1 DEF CommitTx
    <3>2. ASSUME NEW r \in Rows
          PROVE  stock'[r] = [stock[r] EXCEPT !.reserved = @ + lines'[i][r]]
      <4>1. /\ stock'[r] = [onHand |-> stock[r].onHand, reserved |-> stock[r].reserved + tx[t].done[r]]
            /\ stock[r] \in StockLevel
        BY <1>7, <2>1, Zenon
      <4> QED
        BY <1>4, <4>1 DEF StockLevel
    <3> QED
      BY <3>1, <3>2
  <2>4. lines' = [lines EXCEPT ![i] = lines'[i]]
    BY <1>1, <1>4
  <2> QED
    BY <1>0, <1>1, <1>5, <2>2, <2>3, <2>4 DEF Promise!Create, moveVars
<1>10. \A u \in Txs : RowsAgree(u)' /\ CoversSoFar(u)'
  BY <1>1, CommitLeavesOthers
<1> QED
  BY <1>6, <1>8, <1>9, <1>10 DEF Agrees, AgreeInv, BooksAgree


(* The reservation of t is off hold: what is on hold of row r is less by    *)
(* its line.                                                                *)
LEMMA HoldShrinks ==
  ASSUME TypeOK, NEW i \in Res, status[i] = "pending", lines' = lines,
         status'[i] # "pending", \A j \in Res \ {i} : status'[j] = status[j],
         NEW r \in Rows
  PROVE  SumFunction(HoldOf(r)') = SumFunction(HoldOf(r)) - lines[i][r]
<1>1. OnHold' = OnHold \ {i} /\ i \in OnHold /\ IsFiniteSet(OnHold)
  BY FiniteRes DEF OnHold
<1> DEFINE f == HoldOf(r)
           g == HoldOf(r)'
<1>2. f \in [OnHold -> Int] /\ g \in [OnHold \ {i} -> Int]
  <2>1. ASSUME NEW j \in Res
        PROVE  lines[j][r] \in Nat
    BY DEF TypeOK
  <2>2. OnHold \subseteq Res
    BY DEF OnHold
  <2> QED
    BY <1>1, <2>1, <2>2 DEF HoldOf
<1>3. (\A j \in OnHold \ {i} : g[j] = f[j]) /\ f[i] = lines[i][r]
  BY <1>1 DEF HoldOf
<1> HIDE DEF f, g
<1>4. SumFunction(g) = SumFunction(f) - f[i]
  BY <1>1, <1>2, <1>3, TotalShrinks
<1> QED
  BY <1>3, <1>4 DEF f, g

(* The lines of the reservation t has locked are all applied.               *)
LEMMA AllApplied ==
  ASSUME BooksInv, NEW t \in Txs, tx[t].op \in {"commit", "release"}, tx[t].todo = NoRows
  PROVE  /\ tx[t].res \in Res /\ status[tx[t].res] = "pending"
         /\ tx[t].done = lines[tx[t].res] /\ lines[tx[t].res] \in [Rows -> Nat]
         /\ moved[tx[t].res] = NoRows
<1>1. TypeOK /\ Holds(t) /\ MovementsMatchCommits
  BY DEF BooksInv, LedgerInv
<1>2. tx[t].res \in Res /\ status[tx[t].res] = "pending"
  BY <1>1 DEF Holds
<1>3. tx[t].done \in [Rows -> Nat] /\ lines[tx[t].res] \in [Rows -> Nat]
  BY <1>1, <1>2, TxTypes DEF TypeOK
<1>4. \A r \in Rows : tx[t].done[r] = lines[tx[t].res][r]
  BY <1>1 DEF Holds, NoRows
<1>5. tx[t].done = lines[tx[t].res]
  BY <1>3, <1>4
<1> QED
  BY <1>1, <1>2, <1>3, <1>5 DEF MovementsMatchCommits

(* What a commit or a release of t makes of row r.                          *)
LEMMA AppliedLevels ==
  ASSUME BooksInv, NEW t \in Txs, tx[t].op \in {"commit", "release"}, tx[t].todo = NoRows,
         CommitTx(t), ~overwritten, NEW r \in Rows
  PROVE  /\ stock'[r] = [onHand |-> stock[r].onHand - (IF tx[t].op = "commit"
                                                       THEN lines[tx[t].res][r] ELSE 0),
                         reserved |-> stock[r].reserved - lines[tx[t].res][r]]
         /\ stock[r] \in StockLevel /\ lines[tx[t].res][r] \in Nat
<1>1. TypeOK /\ DeltaAgrees(t)
  BY DEF BooksInv, LedgerInv, AgreeInv, RowsAgree
<1>2. stock[r] \in StockLevel /\ tx[t].delta[r] = 0
  BY <1>1 DEF TypeOK, DeltaAgrees, NoRows
<1>3. tx[t].done[r] = lines[tx[t].res][r] /\ lines[tx[t].res][r] \in Nat
  BY AllApplied
<1>4. OnHandAfter(t, r) = stock[r].onHand - (IF tx[t].op = "commit"
                                             THEN lines[tx[t].res][r] ELSE 0)
  BY <1>2, <1>3 DEF OnHandAfter, StockLevel
<1>5. ReservedAfter(t, r) = stock[r].reserved - lines[tx[t].res][r]
  BY <1>2, <1>3 DEF ReservedAfter, StockLevel
<1> QED
  BY <1>2, <1>3, <1>4, <1>5, CommittedLevels

LEMMA FinishReleaseAgrees ==
  ASSUME BooksInv, NEW t \in Txs, FinishRelease(t)
  PROVE  Agrees
<1> DEFINE i == tx[t].res
<1>1. /\ status' = [status EXCEPT ![i] = "released"]
      /\ CommitTx(t) /\ tx[t].op = "release" /\ tx[t].todo = NoRows
      /\ UNCHANGED <<lines, demand, nextRes, moveVars, overwritten>>
  BY DEF FinishRelease, AllDone, otherVars
<1>2. TypeOK /\ BooksAgree /\ i \in Res /\ status[i] = "pending"
  BY <1>1, AllApplied DEF BooksInv, LedgerInv, AgreeInv
<1>3. status'[i] = "released" /\ \A j \in Res \ {i} : status'[j] = status[j]
  BY <1>1, <1>2 DEF TypeOK
<1>4. LinesCoverDemand'
  BY <1>1, <1>2, <1>3 DEF BooksAgree, LinesCoverDemand
<1>5. ASSUME ~overwritten, NEW r \in Rows
      PROVE  /\ stock'[r] = [onHand |-> stock[r].onHand,
                             reserved |-> stock[r].reserved - lines[i][r]]
             /\ stock[r] \in StockLevel /\ lines[i][r] \in Nat
  <2>1. /\ stock'[r] = [onHand |-> stock[r].onHand - (IF tx[t].op = "commit"
                                                      THEN lines[i][r] ELSE 0),
                        reserved |-> stock[r].reserved - lines[i][r]]
        /\ stock[r] \in StockLevel /\ lines[i][r] \in Nat
    BY <1>1, <1>5, AppliedLevels
  <2>2. stock[r].onHand - (IF tx[t].op = "commit" THEN lines[i][r] ELSE 0) = stock[r].onHand
    BY <1>1, <2>1 DEF StockLevel
  <2> QED
    BY <2>1, <2>2
<1>6. ~overwritten' => ReservedMatchesPending' /\ OnHandMatchesMovements'
  <2>1. SUFFICES ASSUME ~overwritten, NEW r \in Rows
                 PROVE  /\ stock'[r].reserved = SumFunction(HoldOf(r)')
                        /\ stock'[r].onHand = InitStock[r].onHand + adjusted'[r]
                                                - SumFunction([j \in Res |-> moved'[j][r]])
    BY <1>1 DEF ReservedMatchesPending, OnHandMatchesMovements, HoldOf, OnHold
  <2>2. stock[r].reserved = SumFunction(HoldOf(r))
    BY <1>2, <2>1 DEF BooksAgree, ReservedMatchesPending, HoldOf, OnHold
  <2>3. SumFunction(HoldOf(r)') = SumFunction(HoldOf(r)) - lines[i][r]
    BY <1>1, <1>2, <1>3, HoldShrinks
  <2>4. stock'[r].reserved = stock[r].reserved - lines[i][r] /\ stock'[r].onHand = stock[r].onHand
    <3>1. stock'[r] = [onHand |-> stock[r].onHand, reserved |-> stock[r].reserved - lines[i][r]]
      BY <1>5, <2>1, Zenon
    <3> QED
      BY <3>1
  <2>5. stock'[r].onHand = InitStock[r].onHand + adjusted'[r]
                             - SumFunction([j \in Res |-> moved'[j][r]])
    BY <1>1, <1>2, <2>1, <2>4 DEF BooksAgree, OnHandMatchesMovements, moveVars
  <2> QED
    BY <2>2, <2>3, <2>4, <2>5
<1>7. AtomicStep
  <2>1. SUFFICES ASSUME ~overwritten
                 PROVE  Promise!Release(i)
    BY <1>1, <1>2 DEF AtomicStep, Promise!Next
  <2>2. stock' = [r \in Rows |-> [stock[r] EXCEPT !.reserved = @ - lines[i][r]]]
    <3>1. stock' = [r \in Rows |-> stock'[r]]
      BY <1>1 DEF CommitTx
    <3>2. ASSUME NEW r \in Rows
          PROVE  stock'[r] = [stock[r] EXCEPT !.reserved = @ - lines[i][r]]
      <4>1. /\ stock'[r] = [onHand |-> stock[r].onHand, reserved |-> stock[r].reserved - lines[i][r]]
            /\ stock[r] \in StockLevel
        BY <1>5, <2>1, Zenon
      <4> QED
        BY <4>1 DEF StockLevel
    <3> QED
      BY <3>1, <3>2
  <2> QED
    BY <1>1, <1>2, <2>2 DEF Promise!Release, moveVars
<1>8. \A u \in Txs : RowsAgree(u)' /\ CoversSoFar(u)'
  BY <1>1, CommitLeavesOthers
<1> QED
  BY <1>4, <1>6, <1>7, <1>8 DEF Agrees, AgreeInv, BooksAgree

LEMMA FinishCommitAgrees ==
  ASSUME BooksInv, NEW t \in Txs, FinishCommit(t)
  PROVE  Agrees
<1> DEFINE i == tx[t].res
<1>1. /\ status' = [status EXCEPT ![i] = "committed"]
      /\ moved' = [moved EXCEPT ![i] = [r \in Rows |-> moved[i][r] + tx[t].done[r]]]
      /\ CommitTx(t) /\ tx[t].op = "commit" /\ tx[t].todo = NoRows
      /\ UNCHANGED <<lines, demand, nextRes, adjusted, overwritten>>
  BY DEF FinishCommit, AllDone, otherVars
<1>2. /\ TypeOK /\ BooksAgree /\ i \in Res /\ status[i] = "pending"
      /\ moved[i] = NoRows /\ tx[t].done = lines[i] /\ lines[i] \in [Rows -> Nat]
  BY <1>1, AllApplied DEF BooksInv, LedgerInv, AgreeInv
<1>3. status'[i] = "committed" /\ \A j \in Res \ {i} : status'[j] = status[j]
  BY <1>1, <1>2 DEF TypeOK
<1>4. LinesCoverDemand'
  BY <1>1, <1>2, <1>3 DEF BooksAgree, LinesCoverDemand
<1>5. moved' = [moved EXCEPT ![i] = lines[i]]
  <2>1. \A r \in Rows : moved[i][r] + tx[t].done[r] = lines[i][r]
    BY <1>2 DEF NoRows
  <2>2. [r \in Rows |-> moved[i][r] + tx[t].done[r]] = lines[i]
    BY <1>2, <2>1
  <2> QED
    BY <1>1, <2>2
<1>6. ASSUME ~overwritten, NEW r \in Rows
      PROVE  /\ stock'[r] = [onHand |-> stock[r].onHand - lines[i][r],
                             reserved |-> stock[r].reserved - lines[i][r]]
             /\ stock[r] \in StockLevel /\ lines[i][r] \in Nat
  <2>1. /\ stock'[r] = [onHand |-> stock[r].onHand - (IF tx[t].op = "commit"
                                                      THEN lines[i][r] ELSE 0),
                        reserved |-> stock[r].reserved - lines[i][r]]
        /\ stock[r] \in StockLevel /\ lines[i][r] \in Nat
    BY <1>1, <1>6, AppliedLevels
  <2>2. (IF tx[t].op = "commit" THEN lines[i][r] ELSE 0) = lines[i][r]
    BY <1>1
  <2> QED
    BY <2>1, <2>2
<1>7. ~overwritten' => ReservedMatchesPending' /\ OnHandMatchesMovements'
  <2>1. SUFFICES ASSUME ~overwritten, NEW r \in Rows
                 PROVE  /\ stock'[r].reserved = SumFunction(HoldOf(r)')
                        /\ stock'[r].onHand = InitStock[r].onHand + adjusted[r]
                                                - SumFunction([j \in Res |-> moved'[j][r]])
    BY <1>1 DEF ReservedMatchesPending, OnHandMatchesMovements, HoldOf, OnHold
  <2> DEFINE f == [j \in Res |-> moved[j][r]]
             g == [j \in Res |-> moved'[j][r]]
  <2>2. /\ stock[r].reserved = SumFunction(HoldOf(r))
        /\ stock[r].onHand = InitStock[r].onHand + adjusted[r] - SumFunction(f)
    BY <1>2, <2>1 DEF BooksAgree, ReservedMatchesPending, OnHandMatchesMovements, HoldOf, OnHold
  <2>3. SumFunction(HoldOf(r)') = SumFunction(HoldOf(r)) - lines[i][r]
    BY <1>1, <1>2, <1>3, HoldShrinks
  <2>4. /\ stock'[r].reserved = stock[r].reserved - lines[i][r]
        /\ stock'[r].onHand = stock[r].onHand - lines[i][r]
    <3>1. stock'[r] = [onHand |-> stock[r].onHand - lines[i][r],
                       reserved |-> stock[r].reserved - lines[i][r]]
      BY <1>6, <2>1, Zenon
    <3> QED
      BY <3>1
  <2>5. /\ f \in [Res -> Int] /\ g \in [Res -> Int]
        /\ f[i] = 0 /\ g[i] = lines[i][r] /\ \A j \in Res \ {i} : g[j] = f[j]
    <3>1. \A j \in Res : moved[j] \in [Rows -> Nat] /\ moved'[j] \in [Rows -> Nat]
      BY <1>2, <1>5 DEF TypeOK
    <3>2. moved'[i] = lines[i] /\ \A j \in Res \ {i} : moved'[j] = moved[j]
      BY <1>2, <1>5 DEF TypeOK
    <3> QED
      BY <1>2, <3>1, <3>2 DEF NoRows
  <2>6. InitStock[r].onHand \in Int /\ adjusted[r] \in Int /\ IsFiniteSet(Res)
    BY <1>2, FiniteRes, InventoryAssumption DEF TypeOK
  <2>7. lines[i][r] \in Int
    BY <1>2
  <2> HIDE DEF f, g, i
  <2>8. SumFunction(g) = SumFunction(f) - f[i] + g[i]
    BY <1>2, <2>5, <2>6, TotalMoves
  <2>9. SumFunction(f) \in Int
    <3>1. SumFunction(f) = SumFunctionOnSet(f, Res)
      BY <2>5, TotalIs
    <3> QED
      BY <2>5, <2>6, <3>1, SumType
  <2>10. stock'[r].onHand = InitStock[r].onHand + adjusted[r] - SumFunction(g)
    BY <2>2, <2>4, <2>5, <2>6, <2>7, <2>8, <2>9
  <2> QED
    BY <2>2, <2>3, <2>4, <2>10 DEF g
<1>8. AtomicStep
  <2>1. SUFFICES ASSUME ~overwritten
                 PROVE  Promise!Commit(i)
    BY <1>1, <1>2 DEF AtomicStep, Promise!Next
  <2>2. stock' = [r \in Rows |-> [onHand |-> stock[r].onHand - lines[i][r],
                                  reserved |-> stock[r].reserved - lines[i][r]]]
    <3>1. stock' = [r \in Rows |-> stock'[r]]
      BY <1>1 DEF CommitTx
    <3>2. ASSUME NEW r \in Rows
          PROVE  stock'[r] = [onHand |-> stock[r].onHand - lines[i][r],
                              reserved |-> stock[r].reserved - lines[i][r]]
      BY <1>6, <2>1, Zenon
    <3> QED
      BY <3>1, <3>2
  <2> QED
    BY <1>1, <1>2, <1>5, <2>2 DEF Promise!Commit
<1>9. \A u \in Txs : RowsAgree(u)' /\ CoversSoFar(u)'
  BY <1>1, CommitLeavesOthers
<1> QED
  BY <1>4, <1>7, <1>8, <1>9 DEF Agrees, AgreeInv, BooksAgree


LEMMA FinishAdjustAgrees ==
  ASSUME BooksInv, StockNonNegative', NEW t \in Txs, FinishAdjust(t)
  PROVE  Agrees
<1>1. /\ adjusted' = [r \in Rows |-> adjusted[r] + tx[t].delta[r]]
      /\ CommitTx(t) /\ tx[t].op = "adjust"
      /\ UNCHANGED <<status, lines, demand, nextRes, moved, overwritten>>
  BY DEF FinishAdjust, otherVars
<1>2. /\ TypeOK /\ BooksAgree /\ DeltaAgrees(t)
      /\ tx[t].delta \in [Rows -> Int] /\ adjusted \in [Rows -> Int]
  BY TxTypes DEF BooksInv, LedgerInv, AgreeInv, RowsAgree, TypeOK
<1>3. PICK q \in Rows : \A r \in Rows \ {q} : tx[t].delta[r] = 0
  BY <1>1, <1>2 DEF DeltaAgrees
<1>4. LinesCoverDemand'
  BY <1>1, <1>2 DEF BooksAgree, LinesCoverDemand
<1>5. ASSUME ~overwritten, NEW r \in Rows
      PROVE  /\ stock'[r] = [onHand |-> stock[r].onHand + tx[t].delta[r],
                             reserved |-> stock[r].reserved]
             /\ stock[r] \in StockLevel
  <2>1. stock[r] \in StockLevel /\ tx[t].delta[r] \in Int
    BY <1>2 DEF TypeOK
  <2>2. OnHandAfter(t, r) = stock[r].onHand + tx[t].delta[r] /\ ReservedAfter(t, r) = stock[r].reserved
    BY <1>1, <2>1 DEF OnHandAfter, ReservedAfter, StockLevel
  <2> QED
    BY <1>1, <1>5, <2>1, <2>2, CommittedLevels
<1>6. ~overwritten' => ReservedMatchesPending' /\ OnHandMatchesMovements'
  <2>1. SUFFICES ASSUME ~overwritten, NEW r \in Rows
                 PROVE  /\ stock'[r].reserved = SumFunction(HoldOf(r)')
                        /\ stock'[r].onHand = InitStock[r].onHand + adjusted'[r]
                                                - SumFunction([j \in Res |-> moved[j][r]])
    BY <1>1 DEF ReservedMatchesPending, OnHandMatchesMovements, HoldOf, OnHold
  <2> DEFINE f == [j \in Res |-> moved[j][r]]
  <2>2. /\ stock[r].reserved = SumFunction(HoldOf(r)) /\ HoldOf(r)' = HoldOf(r)
        /\ stock[r].onHand = InitStock[r].onHand + adjusted[r] - SumFunction(f)
    BY <1>1, <1>2, <2>1 DEF BooksAgree, ReservedMatchesPending, OnHandMatchesMovements, HoldOf, OnHold
  <2>3. stock'[r].reserved = stock[r].reserved /\ stock'[r].onHand = stock[r].onHand + tx[t].delta[r]
    <3>1. stock'[r] = [onHand |-> stock[r].onHand + tx[t].delta[r], reserved |-> stock[r].reserved]
      BY <1>5, <2>1, Zenon
    <3> QED
      BY <3>1
  <2>4. /\ InitStock[r].onHand \in Int /\ adjusted[r] \in Int /\ tx[t].delta[r] \in Int
        /\ adjusted'[r] = adjusted[r] + tx[t].delta[r]
    BY <1>1, <1>2, InventoryAssumption
  <2>5. SumFunction(f) \in Int
    <3>1. DOMAIN f = Res /\ IsFiniteSet(Res) /\ \A j \in Res : f[j] \in Int
      BY <1>2, FiniteRes DEF TypeOK
    <3> HIDE DEF f
    <3>2. SumFunction(f) = SumFunctionOnSet(f, Res)
      BY <3>1, TotalIs
    <3> QED
      BY <3>1, <3>2, SumType
  <2> HIDE DEF f
  <2>6. stock'[r].onHand = InitStock[r].onHand + adjusted'[r] - SumFunction(f)
    BY <2>2, <2>3, <2>4, <2>5
  <2> QED
    BY <2>2, <2>3, <2>6 DEF f
<1>7. AtomicStep
  <2> DEFINE d == adjusted'[q] - adjusted[q]
  <2>1. SUFFICES ASSUME ~overwritten
                 PROVE  Promise!Adjust(q, d)
    BY <1>1 DEF AtomicStep, Promise!Next
  <2>2. d = tx[t].delta[q] /\ d \in Int
    BY <1>1, <1>2
  <2>3. ASSUME NEW r \in Rows
        PROVE  /\ stock'[r] = IF r = q THEN [stock[q] EXCEPT !.onHand = @ + d] ELSE stock[r]
               /\ adjusted'[r] = IF r = q THEN adjusted[q] + d ELSE adjusted[r]
    <3>1. /\ stock'[r] = [onHand |-> stock[r].onHand + tx[t].delta[r], reserved |-> stock[r].reserved]
          /\ stock[r] \in StockLevel
      BY <1>5, <2>1, Zenon
    <3>2. adjusted'[r] = adjusted[r] + tx[t].delta[r] /\ adjusted[r] \in Int
      BY <1>1, <1>2
    <3> HIDE DEF d
    <3>3. CASE r = q
      BY <2>2, <3>1, <3>2, <3>3 DEF StockLevel
    <3>4. CASE r # q
      BY <1>3, <3>1, <3>2, <3>4 DEF StockLevel
    <3> QED
      BY <3>3, <3>4
  <2>4. /\ stock' = [r \in Rows |-> stock'[r]] /\ adjusted' = [r \in Rows |-> adjusted'[r]]
        /\ stock = [r \in Rows |-> stock[r]] /\ adjusted = [r \in Rows |-> adjusted[r]]
    BY <1>1, <1>2 DEF CommitTx, TypeOK
  <2>5. stock[q].onHand + d >= 0
    <3>1. stock[q] \in StockLevel /\ stock'[q].onHand >= 0
      BY <1>2 DEF TypeOK, StockNonNegative
    <3> QED
      BY <2>2, <2>3, <3>1 DEF StockLevel
  <2> HIDE DEF d
  <2>6. stock' = [stock EXCEPT ![q] = [stock[q] EXCEPT !.onHand = @ + d]]
    BY <2>3, <2>4
  <2>7. adjusted' = [adjusted EXCEPT ![q] = adjusted[q] + d]
    BY <2>3, <2>4
  <2> QED
    BY <1>1, <2>5, <2>6, <2>7 DEF Promise!Adjust
<1>8. \A u \in Txs : RowsAgree(u)' /\ CoversSoFar(u)'
  BY <1>1, CommitLeavesOthers
<1> QED
  BY <1>4, <1>6, <1>7, <1>8 DEF Agrees, AgreeInv, BooksAgree

-------------------------------------------------------------------------------
LEMMA StandAgrees ==
  ASSUME BooksInv, UNCHANGED <<stockVars, resVars, moveVars, tx, overwritten>>
  PROVE  Agrees
<1>1. UNCHANGED <<stock, newest, rowLock, status, lines, demand, moved, adjusted>>
  BY DEF stockVars, resVars, moveVars
<1>2. ASSUME NEW t \in Txs
      PROVE  RowsAgree(t)' /\ CoversSoFar(t)'
  <2>1. LeftAlone(t)
    BY <1>1 DEF LeftAlone
  <2> QED
    BY <2>1, OthersAgree DEF BooksInv, LedgerInv, AgreeInv
<1>3. BooksAgree' /\ AtomicStep
  BY <1>1, BooksStand DEF BooksInv, AgreeInv, Unseen
<1> QED
  BY <1>2, <1>3 DEF Agrees, AgreeInv

LEMMA CrashAgrees ==
  ASSUME BooksInv, Crash
  PROVE  Agrees
<1>1. ASSUME NEW t \in Txs
      PROVE  RowsAgree(t)' /\ CoversSoFar(t)'
  <2>1. tx'[t] = Idle /\ t # NoTx /\ \A r \in Rows : rowLock'[r] # t
    BY InventoryAssumption DEF Crash
  <2> QED
    BY <2>1, IdleAgrees
<1>2. BooksAgree' /\ AtomicStep
  BY BooksStand DEF BooksInv, AgreeInv, Crash, Unseen, moveVars
<1> QED
  BY <1>1, <1>2 DEF Agrees, AgreeInv

LEMMA BooksInit == Init => BooksInv /\ Promise!Init
<1> SUFFICES ASSUME Init
             PROVE  BooksInv /\ Promise!Init
  OBVIOUS
<1>1. ASSUME NEW t \in Txs
      PROVE  RowsAgree(t) /\ CoversSoFar(t)
  <2>1. /\ tx[t] = Idle /\ t # NoTx /\ \A r \in Rows : rowLock[r] # t
    BY InventoryAssumption DEF Init
  <2>2. /\ tx[t].op = "idle" /\ tx[t].delta = NoRows
        /\ \A r \in Rows : tx[t].done[r] = 0 /\ tx[t].delta[r] = 0
    BY <2>1 DEF Idle, NoRows
  <2> QED
    BY <2>1, <2>2 DEF RowsAgree, RowAgrees, DeltaAgrees, CoversSoFar
<1>2. LinesCoverDemand
  BY DEF Init, LinesCoverDemand
<1>3. ReservedMatchesPending
  <2>1. ASSUME NEW r \in Rows
        PROVE  stock[r].reserved = SumFunction(HoldOf(r))
    <3>1. OnHold = {} /\ stock[r].reserved = 0
      BY InventoryAssumption DEF Init, OnHold
    <3>2. SumFunction(HoldOf(r)) = 0
      <4> DEFINE f == HoldOf(r)
      <4>1. IsFiniteSet(OnHold) /\ DOMAIN f = OnHold /\ \A x \in OnHold : f[x] = 0
        BY <3>1, FS_EmptySet DEF HoldOf
      <4> HIDE DEF f
      <4>2. SumFunction(f) = 0
        BY <4>1, TotalOfZeros
      <4> QED
        BY <4>2 DEF f
    <3> QED
      BY <3>1, <3>2
  <2> QED
    BY <2>1 DEF ReservedMatchesPending, HoldOf, OnHold
<1>4. OnHandMatchesMovements
  <2>1. ASSUME NEW r \in Rows
        PROVE  stock[r].onHand = InitStock[r].onHand + adjusted[r]
                                   - SumFunction([i \in Res |-> moved[i][r]])
    <3> DEFINE f == [i \in Res |-> moved[i][r]]
    <3>1. IsFiniteSet(Res) /\ DOMAIN f = Res /\ \A x \in Res : f[x] = 0
      BY FiniteRes DEF Init, NoRows
    <3>2. stock[r].onHand = InitStock[r].onHand /\ InitStock[r].onHand \in Int /\ adjusted[r] = 0
      BY InventoryAssumption DEF Init, NoRows
    <3> HIDE DEF f
    <3>3. SumFunction(f) = 0
      BY <3>1, TotalOfZeros
    <3>4. stock[r].onHand = InitStock[r].onHand + adjusted[r] - SumFunction(f)
      BY <3>2, <3>3
    <3> QED
      BY <3>4 DEF f
  <2> QED
    BY <2>1 DEF OnHandMatchesMovements
<1>5. Promise!Init
  BY DEF Init, Promise!Init, Promise!NoLines, NoRows
<1> QED
  BY <1>1, <1>2, <1>3, <1>4, <1>5, NonNegativeInit, LedgerInit DEF BooksInv, AgreeInv, BooksAgree

LEMMA StatementAgrees ==
  ASSUME BooksInv, StockNonNegative', NEW t \in Txs, Statement(t)
  PROVE  Agrees
<1>1. ASSUME NEW p \in Products, Plan(t, p) \/ PlanFails(t, p)
      PROVE  Agrees
  BY <1>1, PlanAgrees, RollbackAgrees DEF PlanFails
<1>2. ASSUME NEW r \in Rows,
             \/ Reserve(t, r) \/ ReserveFails(t, r)
             \/ ReadLevel(t, r) \/ ReadLevelFails(t, r) \/ WriteLevel(t, r)
             \/ ReleaseRow(t, r) \/ ReleaseRowFails(t, r)
      PROVE  Agrees
  BY <1>2, ReserveAgrees, ReadLevelAgrees, WriteLevelAgrees, ReleaseRowAgrees, RollbackAgrees
  DEF ReserveFails, ReadLevelFails, ReleaseRowFails
<1>3. CASE FinishCreate(t) \/ FinishCommit(t) \/ FinishRelease(t) \/ FinishAdjust(t)
  BY <1>3, FinishCreateAgrees, FinishCommitAgrees, FinishReleaseAgrees, FinishAdjustAgrees
<1>4. CASE AbortDeadlocked(t)
  BY <1>4, RollbackAgrees DEF AbortDeadlocked
<1> QED
  BY <1>1, <1>2, <1>3, <1>4 DEF Statement

LEMMA RequestAgrees ==
  ASSUME BooksInv, NEW t \in Txs, Request(t)
  PROVE  Agrees
<1>1. ASSUME NEW i \in Res, BeginCommit(t, i) \/ BeginRelease(t, i)
      PROVE  Agrees
  BY <1>1, BeginOnAgrees DEF BeginCommit, BeginRelease, Asks
<1>2. CASE UNCHANGED vars
  BY <1>2, StandAgrees DEF vars, otherVars
<1> QED
  BY <1>1, <1>2, BeginCreateAgrees, BeginAdjustAgrees DEF Request, AnswerUnchanged, AdjustFails

LEMMA TickStepAgrees ==
  ASSUME BooksInv, NEW t \in Txs, TickStep(t)
  PROVE  Agrees
<1>1. ASSUME NEW i \in Res, TickRelease(t, i)
      PROVE  Agrees
  BY <1>1, BeginOnAgrees DEF TickRelease, IsNextInBatch
<1>2. CASE UNCHANGED <<stockVars, resVars, moveVars, tx, otherVars>>
  BY <1>2, StandAgrees DEF otherVars
<1> QED
  BY <1>1, <1>2 DEF TickStep, StartTick, TickSkips, TickThrows

LEMMA BooksNext == BooksInv /\ [Next]_vars => BooksInv' /\ AtomicStep
<1> SUFFICES ASSUME BooksInv, [Next]_vars
             PROVE  BooksInv' /\ AtomicStep
  OBVIOUS
<1>1. NonNegativeInv' /\ LedgerInv'
  BY NonNegativeNext, LedgerNext DEF BooksInv, Step
<1>2. Agrees
  <2>1. StockNonNegative'
    BY <1>1 DEF NonNegativeInv
  <2>2. CASE PassTime \/ UNCHANGED vars
    BY <2>2, StandAgrees DEF PassTime, vars, otherVars
  <2> QED
    BY <2>1, <2>2, StatementAgrees, RequestAgrees, TickStepAgrees, CrashAgrees DEF Next
<1> QED
  BY <1>1, <1>2 DEF BooksInv, Agrees

(* The stock columns agree with the reservations and the movements, and a  *)
(* reservation holds exactly what was asked for, until commitReserved      *)
(* stores levels computed from a row that has changed meanwhile.           *)
THEOREM BooksAlwaysAgree == Spec => []BooksAgree
<1>1. BooksInv => BooksAgree
  BY DEF BooksInv, AgreeInv
<1> QED
  BY <1>1, BooksInit, BooksNext, PTL DEF Spec

(* Until then the service implements StockPromise: every request has the    *)
(* effect of one step on the stock, although it is many statements.         *)
THEOREM RequestsActAtomically == Spec => RequestsAreAtomic
<1>1. BooksInv /\ [Next]_vars => BooksInv' /\ [overwritten' \/ Promise!Next]_(Promise!vars)
  BY BooksNext DEF AtomicStep
<1> QED
  BY <1>1, BooksInit, PTL DEF Spec, RequestsAreAtomic

(* What a step of StockPromise does to a row that is within its stock.      *)
LEMMA WithinStep ==
  ASSUME BooksInv, BooksInv', AtomicStep, adjusted' = adjusted, ~overwritten',
         NEW r \in Rows, stock[r].reserved <= stock[r].onHand
  PROVE  stock'[r].reserved <= stock'[r].onHand
<1>1. /\ TypeOK /\ TypeOK' /\ stock[r] \in StockLevel
      /\ \A i \in Res : lines[i][r] \in Nat /\ lines'[i][r] \in Nat
  BY DEF BooksInv, LedgerInv, TypeOK
<1>2. ASSUME NEW i \in Res, Promise!Create(i, lines'[i])
      PROVE  stock'[r].reserved <= stock'[r].onHand
  <2>1. /\ lines'[i][r] > 0 => lines'[i][r] <= stock[r].onHand - stock[r].reserved
        /\ stock'[r] = [stock[r] EXCEPT !.reserved = @ + lines'[i][r]]
    BY <1>2 DEF Promise!Create, Promise!Covers
  <2>2. lines'[i][r] \in Nat
    BY <1>1
  <2>3. stock'[r].reserved = stock[r].reserved + lines'[i][r] /\ stock'[r].onHand = stock[r].onHand
    BY <1>1, <2>1 DEF StockLevel
  <2> QED
    BY <1>1, <2>1, <2>2, <2>3 DEF StockLevel
<1>3. ASSUME NEW i \in Res, Promise!Commit(i) \/ Promise!Release(i)
      PROVE  stock'[r].reserved <= stock'[r].onHand
  <2>1. lines[i][r] \in Nat
    BY <1>1
  <2>2. CASE Promise!Commit(i)
    BY <1>1, <2>1, <2>2 DEF Promise!Commit, StockLevel
  <2>3. CASE Promise!Release(i)
    BY <1>1, <2>1, <2>3 DEF Promise!Release, StockLevel
  <2> QED
    BY <1>3, <2>2, <2>3
<1>4. ASSUME NEW q \in Rows, Promise!Adjust(q, adjusted'[q] - adjusted[q])
      PROVE  stock'[r].reserved <= stock'[r].onHand
  <2>1. adjusted'[q] - adjusted[q] = 0
    BY <1>1 DEF TypeOK
  <2>2. stock' = [stock EXCEPT ![q].onHand = @ + 0]
    BY <1>4, <2>1 DEF Promise!Adjust
  <2> QED
    BY <1>1, <2>2 DEF StockLevel, TypeOK
<1>5. CASE UNCHANGED Promise!vars
  BY <1>5 DEF Promise!vars
<1> QED
  BY <1>2, <1>3, <1>4, <1>5 DEF AtomicStep, Promise!Next

(* Only an adjustment makes a row promise more than it holds, until a       *)
(* commit has overwritten a row it had not seen.                            *)
THEOREM PromisesStayWithinStock == Spec => ReservedWithinOnHand
<1>1. BooksInv /\ [Next]_vars =>
        BooksInv' /\ [adjusted' = adjusted /\ ~overwritten' =>
                        \A r \in Rows : stock[r].reserved <= stock[r].onHand
                                         => stock'[r].reserved <= stock'[r].onHand]_vars
  BY BooksNext, WithinStep
<1> QED
  BY <1>1, BooksInit, PTL DEF Spec, ReservedWithinOnHand
===============================================================================

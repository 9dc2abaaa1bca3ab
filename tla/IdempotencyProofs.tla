--------------------------- MODULE IdempotencyProofs ---------------------------
(***************************************************************************)
(* What Idempotency.run guarantees for any number of callers and faults.   *)
(***************************************************************************)
EXTENDS Idempotency, TLAPS

(* What has gone wrong by the time a caller is in a block: nothing before  *)
(* the try statement is left, and at most catch when it is in finally.     *)
Blocks ==
  \A c \in Callers :
    /\ pc[c] \in {"idle", "read", "acquire", "poll", "peek", "run", "store"} =>
         block[c] = "try" /\ failed[c] = {}
    /\ pc[c] \in {"compare", "delete"} =>
         \/ block[c] = "catch" /\ failed[c] = {}
         \/ block[c] = "finally" /\ failed[c] \in {{}, {"catch"}}

(* The result of c is stored, unless a TTL has passed. *)
Kept(c) == expiries = 0 => result = c

(* Why a caller still holds the lock.  In finally it is either the second  *)
(* try after a failed one or the first after a result.                     *)
HolderHasReason ==
  \A c \in Callers :
    lock = c =>
      \/ pc[c] \in {"run", "store", "dead"}
      \/ pc[c] \in {"compare", "delete"} /\ block[c] = "catch"
      \/ pc[c] \in {"compare", "delete"} /\ block[c] = "finally" /\ failed[c] = {"catch"}
      \/ pc[c] \in {"compare", "delete"} /\ block[c] = "finally" /\ Kept(c)
      \/ pc[c] = "returned" /\ answer[c] = "error" /\ failed[c] = {"acquire"}
      \/ pc[c] = "returned" /\ answer[c] = "error" /\ failed[c] = {"catch", "finally"}
      \/ pc[c] = "returned" /\ answer[c] = "error" /\ failed[c] = {"finally"} /\ Kept(c)

(* Without expiry, whoever runs, stores or is about to delete has the lock. *)
ActiveHolds ==
  expiries = 0 => \A c \in Callers : pc[c] \in {"run", "store", "delete"} => lock = c

(* Without expiry an answer given means a result stored, and whoever calls *)
(* after that stops at the first read.                                     *)
AnswersAreStored ==
  expiries = 0 =>
    \A c \in Callers :
      /\ answer[c] \in {"own", "replay"} => result # Nobody
      /\ before[c] # {} => /\ result # Nobody
                           /\ c \notin runs
                           /\ pc[c] \in {"read", "returned", "dead"}
      /\ pc[c] = "idle" => c \notin runs /\ before[c] = {}
      /\ pc[c] = "read" => c \notin runs

Waiting == \A c \in Callers : pc[c] \in {"idle", "read", "acquire", "poll", "peek"} => c \notin runs

Inv ==
  TypeOK /\ Blocks /\ HolderHasReason /\ ActiveHolds /\ AnswersAreStored /\ Waiting

LEMMA InvInit == Init => Inv
  BY IdempotencyAssumption
  DEF Init, Inv, TypeOK, Blocks, HolderHasReason, Kept, ActiveHolds, AnswersAreStored, Waiting

LEMMA TypeNext ==
  ASSUME TypeOK, Blocks, [Next]_vars
  PROVE  TypeOK' /\ Blocks'
  <1>. USE DEF TypeOK, Blocks
  <1>1. ASSUME NEW c \in Callers, Call(c)
        PROVE  TypeOK' /\ Blocks'
    BY <1>1 DEF Call, Goto, Answered, bounds
  <1>2. ASSUME NEW c \in Callers, ReadStored(c)
        PROVE  TypeOK' /\ Blocks'
    BY <1>2 DEF ReadStored, Goto, bounds
  <1>3. ASSUME NEW c \in Callers, Acquire(c)
        PROVE  TypeOK' /\ Blocks'
    BY <1>3 DEF Acquire, Goto, bounds
  <1>4. ASSUME NEW c \in Callers, ReadThrows(c) \/ PeekThrows(c)
        PROVE  TypeOK' /\ Blocks'
    BY <1>4 DEF ReadThrows, PeekThrows, EndsWithError, Fault, Goto
  <1>5. ASSUME NEW c \in Callers, AcquireThrows(c)
        PROVE  TypeOK' /\ Blocks'
    BY <1>5 DEF AcquireThrows, EndsWithError, Fault, Goto
  <1>6. ASSUME NEW c \in Callers, Run(c) \/ RunThrows(c)
        PROVE  TypeOK' /\ Blocks'
    BY <1>6 DEF Run, RunThrows, Leave, Goto, bounds
  <1>7. ASSUME NEW c \in Callers, Store(c)
        PROVE  TypeOK' /\ Blocks'
    BY <1>7 DEF Store, Leave, Goto, bounds
  <1>8. ASSUME NEW c \in Callers, StoreThrows(c)
        PROVE  TypeOK' /\ Blocks'
    BY <1>8 DEF StoreThrows, Leave, Fault, Goto
  <1>9. ASSUME NEW c \in Callers, Compare(c)
        PROVE  TypeOK' /\ Blocks'
    BY <1>9 DEF Compare, EndBlock, Goto, bounds
  <1>10. ASSUME NEW c \in Callers, Delete(c)
        PROVE  TypeOK' /\ Blocks'
    BY <1>10 DEF Delete, EndBlock, Goto, bounds
  <1>11. ASSUME NEW c \in Callers, CompareThrows(c)
        PROVE  TypeOK' /\ Blocks'
    BY <1>11 DEF CompareThrows, BlockThrows, EndBlock, Fault, Goto
  <1>12. ASSUME NEW c \in Callers, DeleteThrows(c)
        PROVE  TypeOK' /\ Blocks'
    BY <1>12 DEF DeleteThrows, BlockThrows, EndBlock, Fault, Goto
  <1>13. ASSUME NEW c \in Callers, Peek(c) \/ Deadline(c)
        PROVE  TypeOK' /\ Blocks'
    BY <1>13 DEF Peek, Deadline, Goto, bounds
  <1>14. CASE Crash
    BY <1>14 DEF Crash
  <1>15. CASE Expire
    BY <1>15 DEF Expire
  <1>16. CASE UNCHANGED vars
    BY <1>16 DEF vars, bounds
  <1>. QED
    BY <1>1, <1>2, <1>3, <1>4, <1>5, <1>6, <1>7, <1>8, <1>9, <1>10, <1>11, <1>12, <1>13, <1>14, <1>15, <1>16 DEF Next, Step

(* Who may hold the lock, and who must. *)
LEMMA LockNext ==
  ASSUME Inv, TypeOK', Blocks', [Next]_vars
  PROVE  HolderHasReason' /\ ActiveHolds'
  <1>. USE IdempotencyAssumption DEF Inv, TypeOK, Blocks, HolderHasReason, Kept, ActiveHolds
  <1>1. ASSUME NEW c \in Callers, Call(c)
        PROVE  HolderHasReason' /\ ActiveHolds'
    BY <1>1 DEF Call, Goto, Answered, bounds
  <1>2. ASSUME NEW c \in Callers, ReadStored(c)
        PROVE  HolderHasReason' /\ ActiveHolds'
    BY <1>2 DEF ReadStored, Goto, bounds
  <1>3. ASSUME NEW c \in Callers, Acquire(c)
        PROVE  HolderHasReason' /\ ActiveHolds'
    BY <1>3 DEF Acquire, Goto, bounds
  <1>4. ASSUME NEW c \in Callers, ReadThrows(c) \/ PeekThrows(c)
        PROVE  HolderHasReason' /\ ActiveHolds'
    BY <1>4 DEF ReadThrows, PeekThrows, EndsWithError, Fault, Goto
  <1>5. ASSUME NEW c \in Callers, AcquireThrows(c)
        PROVE  HolderHasReason' /\ ActiveHolds'
    BY <1>5 DEF AcquireThrows, EndsWithError, Fault, Goto
  <1>6. ASSUME NEW c \in Callers, Run(c) \/ RunThrows(c)
        PROVE  HolderHasReason' /\ ActiveHolds'
    BY <1>6 DEF Run, RunThrows, Leave, Goto, bounds
  <1>7. ASSUME NEW c \in Callers, Store(c)
        PROVE  HolderHasReason' /\ ActiveHolds'
    BY <1>7 DEF Store, Leave, Goto, bounds
  <1>8. ASSUME NEW c \in Callers, StoreThrows(c)
        PROVE  HolderHasReason' /\ ActiveHolds'
    BY <1>8 DEF StoreThrows, Leave, Fault, Goto
  <1>9. ASSUME NEW c \in Callers, Compare(c)
        PROVE  HolderHasReason' /\ ActiveHolds'
    BY <1>9 DEF Compare, EndBlock, Goto, bounds
  <1>10. ASSUME NEW c \in Callers, Delete(c)
        PROVE  HolderHasReason' /\ ActiveHolds'
    BY <1>10 DEF Delete, EndBlock, Goto, bounds
  <1>11. ASSUME NEW c \in Callers, CompareThrows(c)
        PROVE  HolderHasReason' /\ ActiveHolds'
    BY <1>11 DEF CompareThrows, BlockThrows, EndBlock, Fault, Goto
  <1>12. ASSUME NEW c \in Callers, DeleteThrows(c)
        PROVE  HolderHasReason' /\ ActiveHolds'
    BY <1>12 DEF DeleteThrows, BlockThrows, EndBlock, Fault, Goto
  <1>13. ASSUME NEW c \in Callers, Peek(c) \/ Deadline(c)
        PROVE  HolderHasReason' /\ ActiveHolds'
    BY <1>13 DEF Peek, Deadline, Goto, bounds
  <1>14. CASE Crash
    BY <1>14 DEF Crash
  <1>15. CASE Expire
    BY <1>15 DEF Expire
  <1>16. CASE UNCHANGED vars
    BY <1>16 DEF vars, bounds
  <1>. QED
    BY <1>1, <1>2, <1>3, <1>4, <1>5, <1>6, <1>7, <1>8, <1>9, <1>10, <1>11, <1>12, <1>13, <1>14, <1>15, <1>16 DEF Next, Step

(* What a caller that comes after an answer may do. *)
LEMMA AnswersNext ==
  ASSUME Inv, TypeOK', [Next]_vars
  PROVE  AnswersAreStored' /\ Waiting'
  <1>. USE IdempotencyAssumption DEF Inv, TypeOK, AnswersAreStored, Waiting
  <1>1. ASSUME NEW c \in Callers, Call(c)
        PROVE  AnswersAreStored' /\ Waiting'
    BY <1>1 DEF Call, Goto, Answered, bounds
  <1>2. ASSUME NEW c \in Callers, ReadStored(c)
        PROVE  AnswersAreStored' /\ Waiting'
    BY <1>2 DEF ReadStored, Goto, bounds
  <1>3. ASSUME NEW c \in Callers, Acquire(c)
        PROVE  AnswersAreStored' /\ Waiting'
    BY <1>3 DEF Acquire, Goto, bounds
  <1>4. ASSUME NEW c \in Callers, ReadThrows(c) \/ PeekThrows(c)
        PROVE  AnswersAreStored' /\ Waiting'
    BY <1>4 DEF ReadThrows, PeekThrows, EndsWithError, Fault, Goto
  <1>5. ASSUME NEW c \in Callers, AcquireThrows(c)
        PROVE  AnswersAreStored' /\ Waiting'
    BY <1>5 DEF AcquireThrows, EndsWithError, Fault, Goto
  <1>6. ASSUME NEW c \in Callers, Run(c) \/ RunThrows(c)
        PROVE  AnswersAreStored' /\ Waiting'
    BY <1>6 DEF Run, RunThrows, Leave, Goto, bounds
  <1>7. ASSUME NEW c \in Callers, Store(c)
        PROVE  AnswersAreStored' /\ Waiting'
    BY <1>7 DEF Store, Leave, Goto, bounds
  <1>8. ASSUME NEW c \in Callers, StoreThrows(c)
        PROVE  AnswersAreStored' /\ Waiting'
    BY <1>8 DEF StoreThrows, Leave, Fault, Goto
  <1>9. ASSUME NEW c \in Callers, Compare(c)
        PROVE  AnswersAreStored' /\ Waiting'
    BY <1>9 DEF Compare, EndBlock, Goto, bounds
  <1>10. ASSUME NEW c \in Callers, Delete(c)
        PROVE  AnswersAreStored' /\ Waiting'
    BY <1>10 DEF Delete, EndBlock, Goto, bounds
  <1>11. ASSUME NEW c \in Callers, CompareThrows(c)
        PROVE  AnswersAreStored' /\ Waiting'
    BY <1>11 DEF CompareThrows, BlockThrows, EndBlock, Fault, Goto
  <1>12. ASSUME NEW c \in Callers, DeleteThrows(c)
        PROVE  AnswersAreStored' /\ Waiting'
    BY <1>12 DEF DeleteThrows, BlockThrows, EndBlock, Fault, Goto
  <1>13. ASSUME NEW c \in Callers, Peek(c) \/ Deadline(c)
        PROVE  AnswersAreStored' /\ Waiting'
    BY <1>13 DEF Peek, Deadline, Goto, bounds
  <1>14. CASE Crash
    BY <1>14 DEF Crash
  <1>15. CASE Expire
    BY <1>15 DEF Expire
  <1>16. CASE UNCHANGED vars
    BY <1>16 DEF vars, bounds
  <1>. QED
    BY <1>1, <1>2, <1>3, <1>4, <1>5, <1>6, <1>7, <1>8, <1>9, <1>10, <1>11, <1>12, <1>13, <1>14, <1>15, <1>16 DEF Next, Step

LEMMA InvNext == Inv /\ [Next]_vars => Inv'
  BY TypeNext, LockNext, AnswersNext DEF Inv

LEMMA InvHolds == Spec => []Inv
  BY InvInit, InvNext, PTL DEF Spec

(* Until the lock reaches its TTL, no two callers are inside fn. *)
THEOREM MutualExclusion == Spec => []OneAtATime
  <1>1. Inv => OneAtATime
    BY DEF Inv, ActiveHolds, OneAtATime, Inside
  <1>. QED
    BY <1>1, InvHolds, PTL

(* Whatever throws, and whenever keys expire or the process dies: a call   *)
(* that has returned leaves the key locked only when its SET threw, when   *)
(* catch and finally both failed, or when finally failed after the result  *)
(* had been stored.                                                        *)
THEOREM LockNotLeaked == Spec => []LockIsGivenBack
  <1>1. Inv => LockIsGivenBack
    BY DEF Inv, HolderHasReason, Kept, LockIsGivenBack
  <1>. QED
    BY <1>1, InvHolds, PTL

(* A caller that comes after an answer gets the stored result. *)
THEOREM LateCallersReplay == Spec => []NoRerunAfterAnswer
  <1>1. Inv => NoRerunAfterAnswer
    BY DEF Inv, AnswersAreStored, NoRerunAfterAnswer, Inside
  <1>. QED
    BY <1>1, InvHolds, PTL
===============================================================================

------------------------------ MODULE Idempotency ------------------------------
(***************************************************************************)
(* createIdempotency of the shared package: Idempotency.run for one key,   *)
(* called concurrently.  Each command sent to Redis is one action; between *)
(* two of them any other caller may run.  Keys do not interfere, so one is *)
(* enough.  The token of the lock and the result of an execution are       *)
(* named by the caller they belong to: a retry is another caller.  Any     *)
(* command may throw, before Redis has carried it out or after.            *)
(***************************************************************************)
EXTENDS Naturals, FiniteSets

CONSTANTS
  Callers,      \* calls of run with this key
  Nobody,       \* no such key in Redis
  MaxFaults,    \* bound: number of Redis commands that throw
  MaxCrashes,   \* bound: number of crashes
  MaxExpiries   \* bound: number of keys that reach their TTL

ASSUME IdempotencyAssumption ==
  /\ Nobody \notin Callers
  /\ MaxFaults \in Nat /\ MaxCrashes \in Nat /\ MaxExpiries \in Nat

VARIABLES
  result,     \* idempotency:result:<key>, the caller whose fn returned it
  lock,       \* idempotency:lock:<key>, the caller whose token it holds
  pc,         \* what each caller does next
  answer,     \* what each caller has been, or is about to be, told
  block,      \* the block of the try statement a caller is in
  failed,     \* history: where in run a Redis command on the lock threw
  runs,       \* callers whose fn has taken effect
  before,     \* callers that had their result when a caller called
  faults, crashes, expiries

bounds == <<faults, crashes, expiries>>
vars == <<result, lock, pc, answer, block, failed, runs, before, bounds>>

Init ==
  /\ result = Nobody /\ lock = Nobody
  /\ pc = [c \in Callers |-> "idle"]
  /\ answer = [c \in Callers |-> "none"]
  /\ block = [c \in Callers |-> "try"]
  /\ failed = [c \in Callers |-> {}]
  /\ runs = {}
  /\ before = [c \in Callers |-> {}]
  /\ faults = 0 /\ crashes = 0 /\ expiries = 0

Goto(c, from, to) == pc[c] = from /\ pc' = [pc EXCEPT ![c] = to]

Answered == {c \in Callers : pc[c] = "returned" /\ answer[c] \in {"own", "replay"}}

(* Leave the try block for the catch or the finally block; each of them    *)
(* compares the token and deletes the lock.                                *)
Leave(c, from, to, a) ==
  /\ Goto(c, from, "compare")
  /\ block' = [block EXCEPT ![c] = to]
  /\ answer' = [answer EXCEPT ![c] = a]

(* A command throws. *)
Fault ==
  /\ faults < MaxFaults
  /\ faults' = faults + 1
  /\ UNCHANGED <<crashes, expiries>>

(* A command outside the try statement throws: run ends with the error. *)
EndsWithError(c, from) ==
  /\ Goto(c, from, "returned")
  /\ answer' = [answer EXCEPT ![c] = "error"]
  /\ Fault

-------------------------------------------------------------------------------
Call(c) ==
  /\ Goto(c, "idle", "read")
  /\ before' = [before EXCEPT ![c] = Answered]
  /\ UNCHANGED <<result, lock, answer, block, failed, runs, bounds>>

(* Mutated form: does not look for a stored result first. *)
ReadNothing(c) ==
  /\ Goto(c, "read", "acquire")
  /\ UNCHANGED <<result, lock, answer, block, failed, runs, before, bounds>>

(* readStored before the lock is tried, and again while it is waited for. *)
ReadStored(c) ==
  \/ /\ result = Nobody
     /\ Goto(c, "read", "acquire") \/ Goto(c, "poll", "peek")
     /\ UNCHANGED answer
     /\ UNCHANGED <<result, lock, block, failed, runs, before, bounds>>
  \/ /\ result # Nobody
     /\ Goto(c, "read", "returned") \/ Goto(c, "poll", "returned")
     /\ answer' = [answer EXCEPT ![c] = "replay"]
     /\ UNCHANGED <<result, lock, block, failed, runs, before, bounds>>

(* readStored throws, before the lock is tried or while it is waited for. *)
ReadThrows(c) ==
  /\ EndsWithError(c, "read") \/ EndsWithError(c, "poll")
  /\ UNCHANGED <<result, lock, block, failed, runs, before>>

(* Mutated form: SET without NX. *)
AcquireAlways(c) ==
  /\ Goto(c, "acquire", "run")
  /\ lock' = c
  /\ UNCHANGED <<result, answer, block, failed, runs, before, bounds>>

(* SET NX EX of the lock key. *)
Acquire(c) ==
  /\ IF lock = Nobody
     THEN Goto(c, "acquire", "run") /\ lock' = c
     ELSE Goto(c, "acquire", "poll") /\ UNCHANGED lock
  /\ UNCHANGED <<result, answer, block, failed, runs, before, bounds>>

(* setNx throws, and nobody gives back a lock that Redis has set by then:  *)
(* the call is outside the try statement.                                  *)
AcquireThrows(c) ==
  /\ EndsWithError(c, "acquire")
  /\ lock' \in {lock, IF lock = Nobody THEN c ELSE lock}
  /\ failed' = [failed EXCEPT ![c] = @ \cup {"acquire"}]
  /\ UNCHANGED <<result, block, runs, before>>

(* fn takes effect and returns. *)
Run(c) ==
  /\ Goto(c, "run", "store")
  /\ runs' = runs \cup {c}
  /\ UNCHANGED <<result, lock, answer, block, failed, before, bounds>>

(* fn throws; what it did is its own to undo. *)
RunThrows(c) ==
  /\ Leave(c, "run", "catch", "error")
  /\ UNCHANGED <<result, lock, failed, runs, before, bounds>>

(* cache.set of the result. *)
Store(c) ==
  /\ Leave(c, "store", "finally", "own")
  /\ result' = c
  /\ UNCHANGED <<lock, failed, runs, before, bounds>>

(* cache.set throws, before or after Redis has done it: the caller gets an *)
(* error although fn took effect.                                          *)
StoreThrows(c) ==
  /\ Fault
  /\ Leave(c, "store", "catch", "error")
  /\ result' \in {result, c}
  /\ UNCHANGED <<lock, failed, runs, before>>

(* Mutated form: the catch block alone gives the lock back after an error. *)
NoFinally(c, from) ==
  /\ Goto(c, from, "returned")
  /\ UNCHANGED block

(* A block is over: finally follows catch. *)
EndBlock(c, from) ==
  \/ block[c] = "catch" /\ Goto(c, from, "compare") /\ block' = [block EXCEPT ![c] = "finally"]
  \/ block[c] = "finally" /\ Goto(c, from, "returned") /\ UNCHANGED block

(* getRaw of the lock key, compared with the caller's token. *)
Compare(c) ==
  /\ \/ lock = c /\ Goto(c, "compare", "delete") /\ UNCHANGED block
     \/ lock # c /\ EndBlock(c, "compare")
  /\ UNCHANGED <<result, lock, answer, failed, runs, before, bounds>>

(* delRaw deletes the key, whoever holds it by now. *)
Delete(c) ==
  /\ EndBlock(c, "delete")
  /\ lock' = Nobody
  /\ UNCHANGED <<result, answer, failed, runs, before, bounds>>

(* A command of the block throws: its error replaces what the caller would *)
(* have been told, also a result already stored.                           *)
BlockThrows(c, from) ==
  /\ Fault
  /\ EndBlock(c, from)
  /\ answer' = [answer EXCEPT ![c] = "error"]
  /\ failed' = [failed EXCEPT ![c] = @ \cup {block[c]}]

CompareThrows(c) ==
  /\ BlockThrows(c, "compare")
  /\ UNCHANGED <<result, lock, runs, before>>

(* delRaw throws, before or after Redis has deleted the key. *)
DeleteThrows(c) ==
  /\ BlockThrows(c, "delete")
  /\ lock' \in {lock, Nobody}
  /\ UNCHANGED <<result, runs, before>>

(* getRaw of the lock key while waiting: when it is gone, run starts anew. *)
Peek(c) ==
  /\ IF lock = Nobody THEN Goto(c, "peek", "read") ELSE Goto(c, "peek", "poll")
  /\ UNCHANGED <<result, lock, answer, block, failed, runs, before, bounds>>

PeekThrows(c) ==
  /\ EndsWithError(c, "peek")
  /\ UNCHANGED <<result, lock, block, failed, runs, before>>

(* Mutated form: waits for ever. *)
NoDeadline(c) == FALSE

(* The deadline of the wait passes: ConflictError. *)
Deadline(c) ==
  /\ Goto(c, "poll", "returned")
  /\ answer' = [answer EXCEPT ![c] = "conflict"]
  /\ UNCHANGED <<result, lock, block, failed, runs, before, bounds>>

-------------------------------------------------------------------------------
(* The environment *)

(* The process dies with the calls it is serving; Redis keeps the keys. *)
Crash ==
  /\ crashes < MaxCrashes
  /\ crashes' = crashes + 1
  /\ pc' = [c \in Callers |-> IF pc[c] \in {"idle", "returned"} THEN pc[c] ELSE "dead"]
  /\ UNCHANGED <<result, lock, answer, block, failed, runs, before, faults, expiries>>

(* A key reaches its TTL. *)
Expire ==
  /\ expiries < MaxExpiries
  /\ expiries' = expiries + 1
  /\ \/ lock # Nobody /\ lock' = Nobody /\ UNCHANGED result
     \/ result # Nobody /\ result' = Nobody /\ UNCHANGED lock
  /\ UNCHANGED <<pc, answer, block, failed, runs, before, faults, crashes>>

Step(c) ==
  \/ ReadStored(c) \/ Acquire(c) \/ Run(c) \/ RunThrows(c) \/ Store(c)
  \/ Compare(c) \/ Delete(c) \/ Peek(c) \/ Deadline(c)
  \/ ReadThrows(c) \/ AcquireThrows(c) \/ StoreThrows(c)
  \/ CompareThrows(c) \/ DeleteThrows(c) \/ PeekThrows(c)

Next ==
  \/ \E c \in Callers : Call(c) \/ Step(c)
  \/ Crash
  \/ Expire

Spec == Init /\ [][Next]_vars

(* Redis answers, fn ends, the clock runs: a started call goes on, and a   *)
(* caller that keeps waiting reaches its deadline.                         *)
Fairness ==
  \A c \in Callers : WF_vars(Step(c)) /\ SF_vars(Deadline(c))

FairSpec == Spec /\ Fairness

-------------------------------------------------------------------------------
TypeOK ==
  /\ result \in Callers \cup {Nobody}
  /\ lock \in Callers \cup {Nobody}
  /\ pc \in [Callers -> {"idle", "read", "acquire", "run", "store", "compare", "delete",
                         "poll", "peek", "returned", "dead"}]
  /\ answer \in [Callers -> {"none", "own", "replay", "error", "conflict"}]
  /\ block \in [Callers -> {"try", "catch", "finally"}]
  /\ failed \in [Callers -> SUBSET {"acquire", "catch", "finally"}]
  /\ runs \subseteq Callers
  /\ before \in [Callers -> SUBSET Callers]
  /\ faults \in Nat /\ crashes \in Nat /\ expiries \in Nat

(* The callers that may have fn running or its result not stored yet. *)
Inside == {c \in Callers : pc[c] \in {"run", "store"}}

(* Until the lock reaches its TTL, one caller at a time runs fn: the token *)
(* keeps a caller that is late from giving back somebody else's lock.      *)
OneAtATime == expiries = 0 => \A c, d \in Inside : c = d

(* A call that has returned leaves the key locked, for callers to run into *)
(* until its TTL, only when Redis failed it on the lock itself: its SET    *)
(* threw, the rounds of catch and finally both failed, or the one round    *)
(* after a result did, and then the result is there to be replayed.  Its   *)
(* caller got an error.  A failing fn or cache.set, or a failure in catch  *)
(* alone, never does.                                                      *)
LockIsGivenBack ==
  \A c \in Callers :
    lock = c /\ pc[c] = "returned" =>
      /\ answer[c] = "error"
      /\ \/ failed[c] = {"acquire"}
         \/ failed[c] = {"catch", "finally"}
         \/ failed[c] = {"finally"} /\ (expiries = 0 => result = c)

(* Who calls after somebody got the result does not run fn again, as long  *)
(* as the result is kept.                                                  *)
NoRerunAfterAnswer ==
  expiries = 0 => \A c \in Callers : c \in runs \cup Inside => before[c] = {}

(* A call is answered, with the result, an error or a conflict, also when  *)
(* the process that held the lock has died.                                *)
CallsReturn ==
  \A c \in Callers : []<>(pc[c] \in {"idle", "returned", "dead"})
===============================================================================

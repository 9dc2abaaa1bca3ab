------------------------------- MODULE Settlement -------------------------------
(***************************************************************************)
(* The settlement service: ledger entries, posted once per external        *)
(* reference however often they are sent, and draft settlements, which     *)
(* collect the entries of a period that no settlement has yet.  A post is  *)
(* three statements that commit by themselves; a run is one transaction    *)
(* under READ COMMITTED.                                                   *)
(***************************************************************************)
EXTENDS Integers, FiniteSets, Functions

CONSTANTS
  Posts,      \* POST /ledger/entries requests
  Runs,       \* POST /settlements/run requests
  Refs,       \* external references
  NoRef,      \* no external reference
  Amounts,    \* amounts posted, refunds being negative
  LastDay,    \* bound: days are 1 .. LastDay
  MaxCrashes, \* bound: crashes
  Nobody      \* no poster, no run

ASSUME SettlementAssumption ==
  /\ NoRef \notin Refs /\ Nobody \notin Posts \cup Runs
  /\ Amounts \subseteq Int
  /\ LastDay \in Nat \ {0} /\ MaxCrashes \in Nat

Days == 1 .. LastDay

VARIABLES
  today,      \* the day now() is in
  post,       \* what each post does; its external reference
  entry,      \* ledger_entries: the entry a post has inserted, NoEntry if none
  reply,      \* the post whose entry a post was answered with
  run,        \* what each run does; its period
  picked,     \* the entries a run has selected
  due,        \* all entries of its period a run could have seen (history)
  lines,      \* settlement_lines of a run, its own while it is open
  total,      \* total_cents
  rowLock,    \* the run holding the FOR UPDATE lock of an entry
  contended,  \* entries two runs were collecting at once (history)
  crashes

postVars == <<post, entry, reply>>
runVars == <<run, picked, due, lines, total, rowLock, contended>>
vars == <<today, postVars, runVars, crashes>>

NoEntry == [ref |-> NoRef, day |-> 0, amount |-> 0]
IdlePost == [step |-> "new", ref |-> NoRef]
IdleRun == [step |-> "new", first |-> 1, last |-> 1]

Init ==
  /\ today = 1
  /\ post = [p \in Posts |-> IdlePost]
  /\ entry = [p \in Posts |-> NoEntry]
  /\ reply = [p \in Posts |-> Nobody]
  /\ run = [t \in Runs |-> IdleRun]
  /\ picked = [t \in Runs |-> {}]
  /\ due = [t \in Runs |-> {}]
  /\ lines = [t \in Runs |-> {}]
  /\ total = [t \in Runs |-> 0]
  /\ rowLock = [p \in Posts |-> Nobody]
  /\ contended = {}
  /\ crashes = 0

Entries == {p \in Posts : entry[p] # NoEntry}
WithRef(ref) == {p \in Entries : entry[p].ref = ref}

-------------------------------------------------------------------------------
(* POST /ledger/entries *)

PostAt(p, s) == post[p].step = s
PostGoes(p, s) == post' = [post EXCEPT ![p] = [step |-> s, ref |-> @.ref]]
Answer(p, e) == reply' = [reply EXCEPT ![p] = e] /\ PostGoes(p, "done")

(* The SELECT by external_ref: an entry that is there is the answer. *)
FindByRef(p, ref) ==
  /\ PostAt(p, "new") /\ ref # NoRef
  /\ IF WithRef(ref) = {}
     THEN /\ post' = [post EXCEPT ![p] = [step |-> "insert", ref |-> ref]]
          /\ UNCHANGED reply
     ELSE /\ post' = [post EXCEPT ![p] = [step |-> "done", ref |-> ref]]
          /\ \E e \in WithRef(ref) : reply' = [reply EXCEPT ![p] = e]
  /\ UNCHANGED <<today, entry, runVars, crashes>>

(* Without a reference there is nothing to look for. *)
SkipFind(p) ==
  /\ PostAt(p, "new")
  /\ PostGoes(p, "insert")
  /\ UNCHANGED <<today, entry, reply, runVars, crashes>>

(* Mutated form: no unique index for ON CONFLICT to look at. *)
InsertAlways(p, a) ==
  /\ PostAt(p, "insert")
  /\ entry' = [entry EXCEPT ![p] = [ref |-> post[p].ref, day |-> today, amount |-> a]]
  /\ Answer(p, p)
  /\ UNCHANGED <<today, runVars, crashes>>

(* INSERT ... ON CONFLICT (external_ref) DO NOTHING. *)
Insert(p, a) ==
  /\ PostAt(p, "insert")
  /\ \/ /\ post[p].ref = NoRef \/ WithRef(post[p].ref) = {}
        /\ entry' = [entry EXCEPT ![p] = [ref |-> post[p].ref, day |-> today, amount |-> a]]
        /\ Answer(p, p)
     \/ /\ post[p].ref # NoRef /\ WithRef(post[p].ref) # {}
        /\ PostGoes(p, "replay")
        /\ UNCHANGED <<entry, reply>>
  /\ UNCHANGED <<today, runVars, crashes>>

(* The SELECT after a conflict. *)
Replay(p) ==
  /\ PostAt(p, "replay")
  /\ \E e \in WithRef(post[p].ref) : Answer(p, e)
  /\ UNCHANGED <<today, entry, runVars, crashes>>

-------------------------------------------------------------------------------
(* POST /settlements/run *)

RunAt(t, s) == run[t].step = s
RunGoes(t, s) == run' = [run EXCEPT ![t] = [@ EXCEPT !.step = s]]

Committed == {t \in Runs : RunAt(t, "done")}
Settled == UNION {lines[t] : t \in Committed}
InPeriod(t, p) == run[t].first <= entry[p].day /\ entry[p].day <= run[t].last

(* The period is validated; BEGIN and the INSERT of the settlement. *)
BeginRun(t, first, last) ==
  /\ RunAt(t, "new") /\ first <= last
  /\ run' = [run EXCEPT ![t] = [step |-> "pick", first |-> first, last |-> last]]
  /\ UNCHANGED <<today, postVars, picked, due, lines, total, rowLock, contended, crashes>>

(* What other runs are collecting. *)
Collecting(t) ==
  UNION {picked[u] : u \in {v \in Runs \ {t} : RunAt(v, "collect") \/ RunAt(v, "total")}}

(* Mutated form: without NOT EXISTS. *)
PickSettled(t) ==
  /\ RunAt(t, "pick")
  /\ picked' = [picked EXCEPT ![t] = {p \in Entries : InPeriod(t, p)}]
  /\ due' = [due EXCEPT ![t] = {p \in Entries : InPeriod(t, p)}]
  /\ contended' = contended \cup (picked'[t] \cap Collecting(t))
  /\ RunGoes(t, "collect")
  /\ UNCHANGED <<today, postVars, lines, total, rowLock, crashes>>

(* Mutated form: SKIP LOCKED. *)
PickUnlocked(t) ==
  /\ RunAt(t, "pick")
  /\ picked' = [picked EXCEPT ![t] = {p \in Entries \ Settled :
                                        InPeriod(t, p) /\ rowLock[p] = Nobody}]
  /\ due' = [due EXCEPT ![t] = {p \in Entries : InPeriod(t, p)}]
  /\ contended' = contended \cup (picked'[t] \cap Collecting(t))
  /\ RunGoes(t, "collect")
  /\ UNCHANGED <<today, postVars, lines, total, rowLock, crashes>>

(* The snapshot of the CTE: entries of the period without a line. *)
Pick(t) ==
  /\ RunAt(t, "pick")
  /\ picked' = [picked EXCEPT ![t] = {p \in Entries \ Settled : InPeriod(t, p)}]
  /\ due' = [due EXCEPT ![t] = {p \in Entries : InPeriod(t, p)}]
  /\ contended' = contended \cup (picked'[t] \cap Collecting(t))
  /\ RunGoes(t, "collect")
  /\ UNCHANGED <<today, postVars, lines, total, rowLock, crashes>>

(* FOR UPDATE OF le waits for rows another run has locked.  That run only  *)
(* locked them, it did not update them, so PostgreSQL does not evaluate    *)
(* the condition again: all rows of the snapshot are collected.            *)
Collect(t) ==
  /\ RunAt(t, "collect")
  /\ \A p \in picked[t] : rowLock[p] = Nobody
  /\ rowLock' = [p \in Posts |-> IF p \in picked[t] THEN t ELSE rowLock[p]]
  /\ lines' = [lines EXCEPT ![t] = picked[t]]
  /\ RunGoes(t, "total")
  /\ UNCHANGED <<today, postVars, picked, due, total, contended, crashes>>

Unlocked(t) == [p \in Posts |-> IF rowLock[p] = t THEN Nobody ELSE rowLock[p]]

SumOf(entries) == SumFunction([p \in entries |-> entry[p].amount])

(* The UPDATE of total_cents and COMMIT. *)
FinishRun(t) ==
  /\ RunAt(t, "total")
  /\ total' = [total EXCEPT ![t] = SumOf(lines[t])]
  /\ rowLock' = Unlocked(t)
  /\ RunGoes(t, "done")
  /\ UNCHANGED <<today, postVars, picked, due, lines, contended, crashes>>

-------------------------------------------------------------------------------
NextDay ==
  /\ today < LastDay
  /\ today' = today + 1
  /\ UNCHANGED <<postVars, runVars, crashes>>

(* The process dies: open transactions roll back, requests are gone. *)
Crash ==
  /\ crashes < MaxCrashes
  /\ crashes' = crashes + 1
  /\ post' = [p \in Posts |-> IF PostAt(p, "new") THEN post[p] ELSE [post[p] EXCEPT !.step = "done"]]
  /\ run' = [t \in Runs |-> IF RunAt(t, "done") THEN run[t] ELSE IdleRun]
  /\ lines' = [t \in Runs |-> IF RunAt(t, "done") THEN lines[t] ELSE {}]
  /\ picked' = [t \in Runs |-> IF RunAt(t, "done") THEN picked[t] ELSE {}]
  /\ rowLock' = [p \in Posts |-> Nobody]
  /\ UNCHANGED <<today, entry, reply, due, total, contended>>

PostStep(p) ==
  \/ \E ref \in Refs : FindByRef(p, ref)
  \/ SkipFind(p)
  \/ \E a \in Amounts : Insert(p, a)
  \/ Replay(p)

RunStep(t) ==
  \/ \E first, last \in Days : BeginRun(t, first, last)
  \/ Pick(t) \/ Collect(t) \/ FinishRun(t)

Next ==
  \/ \E p \in Posts : PostStep(p)
  \/ \E t \in Runs : RunStep(t)
  \/ NextDay
  \/ Crash

Spec == Init /\ [][Next]_vars

-------------------------------------------------------------------------------
TypeOK ==
  /\ today \in Days
  /\ post \in [Posts -> [step : {"new", "insert", "replay", "done"}, ref : Refs \cup {NoRef}]]
  /\ entry \in [Posts -> [ref : Refs \cup {NoRef}, day : 0 .. LastDay, amount : Int]]
  /\ reply \in [Posts -> Posts \cup {Nobody}]
  /\ run \in [Runs -> [step : {"new", "pick", "collect", "total", "done"},
                       first : Days, last : Days]]
  /\ picked \in [Runs -> SUBSET Posts]
  /\ due \in [Runs -> SUBSET Posts]
  /\ lines \in [Runs -> SUBSET Posts]
  /\ total \in [Runs -> Int]
  /\ rowLock \in [Posts -> Runs \cup {Nobody}]
  /\ contended \subseteq Posts
  /\ crashes \in Nat

(* db/migrations/006_settlement_external_ref_unique.sql: posting is        *)
(* idempotent.  Posts of one reference, concurrent or repeated, leave one  *)
(* entry and are all answered with it.                                     *)
PostingIsIdempotent ==
  /\ \A p, q \in Entries : entry[p].ref = entry[q].ref /\ entry[p].ref # NoRef => p = q
  /\ \A p \in Posts : reply[p] # Nobody =>
       reply[p] \in Entries /\ entry[reply[p]].ref = post[p].ref

(* Two runs at a time cannot leave an entry out between them, each taking  *)
(* it for the other's: when a run has committed, all of its period that    *)
(* was there to see is settled, though the other may have rolled back.     *)
NothingLeftOut == \A t \in Committed : due[t] \subseteq Settled

(* repositories/settlementsRepo.ts:36: "all in one transaction so          *)
(* concurrent runs cannot double-collect the same entries".                *)
CollectedOnce == \A t, u \in Committed : t # u => lines[t] \cap lines[u] = {}

(* What holds instead: an entry gets into two settlements only if two runs *)
(* were collecting it at the same time; runs that merely overlap, follow   *)
(* each other over the same days or are cut short by a crash leave every   *)
(* entry in one.                                                           *)
CollectedTwiceOnlyIfContended ==
  \A t, u \in Committed : t # u => lines[t] \cap lines[u] \subseteq contended
===============================================================================

------------------------------- MODULE PartsProofs -------------------------------
(***************************************************************************)
(* The parts that share no state with the stores (see MCParts): the        *)
(* migrations and the deployment that rests on them, the gateway and the   *)
(* traffic of the monitor through it, the cached reads of an order, and    *)
(* the pure functions, for any number of processes, files, requests,       *)
(* retries and faults, and any arguments.                                  *)
(***************************************************************************)
EXTENDS MCFunctions, AllocationProofs, Deployment, Monitor, OrderReads

(* The type of what is remembered of a process. *)
RunnerState ==
  [at : {"off"} \cup Working \cup Ended, file : 1 .. Files + 1,
   applied : [Order -> {0} \cup Versions],
   version : {0} \cup Versions, counted : SUBSET Tables, found : BOOLEAN]

(* What a runner that is at work has behind it is in the table: the files   *)
(* before the one it is at, and all of them when it counts.                 *)
Behind(r) ==
  /\ \A f \in Order : runner[r].at \in Working /\ f < runner[r].file => tracked[f] # 0
  /\ runner[r].at = "count" => \A f \in Order : tracked[f] # 0
  /\ \A f \in Order : runner[r].applied[f] # 0 => tracked[f] # 0

(* A file whose row is inserted and not committed is not in the table yet.  *)
Pending(r) ==
  /\ runner[r].at \in InTransaction => runner[r].file \in Order /\ runner[r].version # 0
  /\ runner[r].at = "inserted" => tracked[runner[r].file] = 0

OneHolder ==
  \A r, q \in Runners :
    runner[r].at \in InTransaction /\ runner[q].at \in InTransaction
    /\ runner[r].file = runner[q].file => r = q

EditsAreCounted == \A f \in Order : disk[f] <= faults + 1

SchemaInv ==
  /\ MigrationTypeOK /\ EditsAreCounted
  /\ \A r \in Runners : Behind(r) /\ Pending(r)
  /\ OneHolder
  /\ DatabaseIsWhole

-------------------------------------------------------------------------------
LEMMA InitIsWhole == MigrationInit => SchemaInv
<1> SUFFICES ASSUME MigrationInit PROVE SchemaInv
  OBVIOUS
<1> USE MigrationAssumption DEF MigrationInit, Order, Nothing, Idle, Versions
<1>1. MigrationTypeOK
  BY DEF MigrationTypeOK, Working, Ended, InTransaction
<1>2. EditsAreCounted /\ DatabaseIsWhole
  BY DEF EditsAreCounted, DatabaseIsWhole
<1>3. (\A r \in Runners : Behind(r) /\ Pending(r)) /\ OneHolder
  BY DEF Behind, Pending, OneHolder, Working, InTransaction
<1> QED
  BY <1>1, <1>2, <1>3 DEF SchemaInv

(* What a runner may become while the table stays as it is or grows. *)
Fits(run) ==
  /\ run \in RunnerState
  /\ \A f \in Order : run.at \in Working /\ f < run.file => tracked'[f] # 0
  /\ run.at = "count" => \A f \in Order : tracked'[f] # 0
  /\ \A f \in Order : run.applied[f] # 0 => tracked'[f] # 0
  /\ run.at \in InTransaction => run.file \in Order /\ run.version # 0
  /\ run.at = "inserted" => tracked'[run.file] = 0

(* Every step changes one runner, and this is what has to be shown of it.   *)
LEMMA OneRunnerMoves ==
  ASSUME SchemaInv, NEW r \in Runners, NEW run,
         runner' = [runner EXCEPT ![r] = run], Fits(run),
         EditsAreCounted', DatabaseIsWhole',
         disk' \in [Order -> Versions], tracked' \in [Order -> {0} \cup Versions],
         effect' = tracked', seeded' \subseteq Tables,
         runs' \in 0 .. MaxRuns, faults' \in 0 .. MaxFaults,
         \A f \in Order : tracked[f] # 0 => tracked'[f] = tracked[f],
         \A f \in Order : tracked'[f] # tracked[f]
           => \A q \in Runners \ {r} : ~(runner[q].at = "inserted" /\ runner[q].file = f),
         run.at \in InTransaction
           => \A q \in Runners \ {r} : ~(runner[q].at \in InTransaction
                                          /\ runner[q].file = run.file)
  PROVE  SchemaInv'
<1>1. /\ runner \in [Runners -> RunnerState]
      /\ runner'[r] = run
      /\ \A q \in Runners \ {r} : runner'[q] = runner[q]
  BY DEF SchemaInv, MigrationTypeOK, RunnerState
<1>2. MigrationTypeOK'
  BY <1>1 DEF MigrationTypeOK, Fits, RunnerState, Order, Versions
<1>3. \A q \in Runners : Behind(q)' /\ Pending(q)'
  <2> SUFFICES ASSUME NEW q \in Runners PROVE Behind(q)' /\ Pending(q)'
    OBVIOUS
  <2>1. CASE q = r
    BY <1>1, <2>1 DEF Behind, Pending, Fits, Order
  <2>2. CASE q # r
    <3>1. runner'[q] = runner[q] /\ Behind(q) /\ Pending(q)
      BY <1>1, <2>2 DEF SchemaInv
    <3>2. Behind(q)'
      BY <3>1 DEF Behind, Order
    <3>3. Pending(q)'
      BY <3>1, <2>2 DEF Pending, Order, InTransaction
    <3> QED
      BY <3>2, <3>3
  <2> QED
    BY <2>1, <2>2
<1>4. OneHolder'
  <2> SUFFICES ASSUME NEW p \in Runners, NEW q \in Runners, p # q,
                      runner'[p].at \in InTransaction, runner'[q].at \in InTransaction,
                      runner'[p].file = runner'[q].file
               PROVE FALSE
    BY DEF OneHolder
  <2> QED
    BY <1>1 DEF SchemaInv, OneHolder
<1> QED
  BY <1>2, <1>3, <1>4 DEF SchemaInv

(* The table, what is in effect, the seed and the files stay as they are.   *)
RunnerMoves(r, run) ==
  /\ runner' = [runner EXCEPT ![r] = run] /\ Fits(run)
  /\ UNCHANGED <<disk, tracked, effect, seeded>>
  /\ runs' \in 0 .. MaxRuns /\ faults' \in 0 .. MaxFaults /\ faults' >= faults
  /\ run.at \in InTransaction
       => \A q \in Runners \ {r} : ~(runner[q].at \in InTransaction /\ runner[q].file = run.file)

LEMMA OnlyTheRunnerMoves ==
  ASSUME SchemaInv, NEW r \in Runners, NEW run, RunnerMoves(r, run)
  PROVE  SchemaInv'
<1>1. EditsAreCounted'
  BY DEF RunnerMoves, SchemaInv, EditsAreCounted, MigrationTypeOK, Versions, Order
<1>2. DatabaseIsWhole'
  BY DEF RunnerMoves, SchemaInv, DatabaseIsWhole
<1> QED
  BY <1>1, <1>2, OneRunnerMoves DEF RunnerMoves, SchemaInv, MigrationTypeOK, DatabaseIsWhole

LEMMA IdleState == Idle \in RunnerState /\ Idle.file = 1 /\ Idle.applied = Nothing
BY MigrationAssumption DEF Idle, RunnerState, Nothing

(* A process that starts, has ended or is past the files remembers nothing. *)
LEMMA IdleFits ==
  ASSUME NEW at \in {"tracking", "count"} \cup Ended,
         at = "count" => \A f \in Order : tracked'[f] # 0
  PROVE  Fits([Idle EXCEPT !.at = at]) /\ [Idle EXCEPT !.at = at].at \notin InTransaction
<1> DEFINE run == [Idle EXCEPT !.at = at]
<1>1. /\ run \in RunnerState /\ run.file = 1 /\ run.applied = Nothing /\ run.at = at
      /\ at \notin InTransaction /\ at # "inserted"
  BY IdleState DEF RunnerState, Ended, Working, InTransaction
<1> HIDE DEF run
<1>2. Fits(run)
  BY <1>1 DEF Fits, Nothing, Order
<1> QED
  BY <1>1, <1>2 DEF run

(* The row of the file a runner has inserted becomes part of the table.     *)
LEMMA AppliedGrows ==
  ASSUME SchemaInv, NEW r \in Runners, runner[r].at = "inserted", Applied(r),
         UNCHANGED <<disk, seeded>>, faults' \in 0 .. MaxFaults, faults' >= faults
  PROVE  /\ tracked' \in [Order -> {0} \cup Versions] /\ effect' = tracked'
         /\ tracked'[runner[r].file] # 0
         /\ \A f \in Order : tracked[f] # 0 => tracked'[f] = tracked[f]
         /\ \A f \in Order : tracked'[f] # tracked[f] => f = runner[r].file
         /\ EditsAreCounted' /\ DatabaseIsWhole'
<1> DEFINE f == runner[r].file
           v == runner[r].version
<1>1. f \in Order /\ v \in Versions /\ v # 0 /\ tracked[f] = 0
  BY DEF SchemaInv, MigrationTypeOK, Pending, InTransaction
<1>2. /\ tracked \in [Order -> {0} \cup Versions] /\ effect = tracked
      /\ tracked' = [tracked EXCEPT ![f] = v]
  BY DEF SchemaInv, MigrationTypeOK, DatabaseIsWhole, Applied
<1>3. effect' = tracked'
  BY <1>1, <1>2 DEF Applied
<1>4. \A g \in Order : g < f => tracked[g] # 0
  BY DEF SchemaInv, Behind, Working, InTransaction
<1>5. EditsAreCounted'
  BY DEF SchemaInv, EditsAreCounted, MigrationTypeOK, Versions, Order
<1> HIDE DEF f, v
<1>6. \A g, h \in Order : g < h /\ tracked'[h] # 0 => tracked'[g] # 0
  BY <1>1, <1>2, <1>4 DEF SchemaInv, DatabaseIsWhole
<1>7. DatabaseIsWhole'
  BY <1>1, <1>2, <1>3, <1>6 DEF SchemaInv, DatabaseIsWhole
<1> QED
  BY <1>1, <1>2, <1>3, <1>5, <1>7 DEF f

-------------------------------------------------------------------------------
LEMMA StepIsWhole == SchemaInv /\ [MigrationNext]_migrationVars => SchemaInv'
<1> SUFFICES ASSUME SchemaInv, [MigrationNext]_migrationVars PROVE SchemaInv'
  OBVIOUS
<1> USE MigrationAssumption
<1>1. CASE UNCHANGED migrationVars
  BY <1>1 DEF migrationVars, SchemaInv, MigrationTypeOK, EditsAreCounted, Behind, Pending,
              OneHolder, DatabaseIsWhole
<1>2. ASSUME NEW f \in Order, Edit(f) PROVE SchemaInv'
  <2>a. MigrationTypeOK'
    BY <1>2 DEF Edit, SchemaInv, MigrationTypeOK, EditsAreCounted, Versions, Order
  <2>b. EditsAreCounted'
    BY <1>2 DEF Edit, SchemaInv, MigrationTypeOK, EditsAreCounted, Versions, Order
  <2>1. MigrationTypeOK' /\ EditsAreCounted'
    BY <2>a, <2>b
  <2>2. (\A r \in Runners : Behind(r)' /\ Pending(r)') /\ OneHolder' /\ DatabaseIsWhole'
    BY <1>2 DEF Edit, SchemaInv, Behind, Pending, OneHolder, DatabaseIsWhole
  <2> QED
    BY <2>1, <2>2 DEF SchemaInv
<1>3. ASSUME NEW r \in Runners,
             Run(r) \/ RunnerStep(r) \/ Die(r) \/ DieCommitted(r)
      PROVE SchemaInv'
  <2> DEFINE R == runner[r]
  <2>0. /\ R \in RunnerState /\ Behind(r) /\ Pending(r)
        /\ runs \in 0 .. MaxRuns /\ faults \in 0 .. MaxFaults
        /\ tracked \in [Order -> {0} \cup Versions] /\ disk \in [Order -> Versions]
        /\ effect = tracked /\ seeded \subseteq Tables
    BY DEF SchemaInv, MigrationTypeOK, DatabaseIsWhole, RunnerState
  <2>1. CASE Run(r)
    <3>1. Fits([Idle EXCEPT !.at = "tracking"])
          /\ [Idle EXCEPT !.at = "tracking"].at \notin InTransaction
      BY IdleFits
    <3>2. runs' \in 0 .. MaxRuns
      BY <2>0, <2>1 DEF Run
    <3>3. RunnerMoves(r, [Idle EXCEPT !.at = "tracking"])
      BY <2>0, <2>1, <3>1, <3>2 DEF Run, RunnerMoves
    <3> QED
      BY <3>3, OnlyTheRunnerMoves
  <2>2. ASSUME NEW code \in Ended, EndRun(r, code), UNCHANGED <<tracked, effect, seeded>>
        PROVE SchemaInv'
    <3>1. Fits([Idle EXCEPT !.at = code]) /\ [Idle EXCEPT !.at = code].at \notin InTransaction
      BY <2>2, IdleFits DEF Ended
    <3>2. RunnerMoves(r, [Idle EXCEPT !.at = code])
      BY <2>0, <2>2, <3>1 DEF EndRun, Continue, RunnerMoves
    <3> QED
      BY <3>2, OnlyTheRunnerMoves
  <2>3. CASE LoadApplied(r)
    <3> DEFINE run == [R EXCEPT !.at = "files", !.applied = tracked]
    <3>1. run \in RunnerState /\ run.at = "files" /\ run.file = R.file /\ run.applied = tracked
      BY <2>0 DEF RunnerState, Working
    <3>2. runner' = [runner EXCEPT ![r] = run] /\ R.at \in Working /\ tracked' = tracked
      BY <2>3 DEF LoadApplied, Continue, Working
    <3> HIDE DEF run
    <3>3. Fits(run)
      BY <2>0, <3>1, <3>2 DEF Fits, Behind, InTransaction
    <3>4. UNCHANGED <<disk, tracked, effect, seeded, runs, faults>>
          /\ run.at \notin InTransaction
      BY <2>3, <3>1 DEF LoadApplied, Continue, InTransaction
    <3>5. RunnerMoves(r, run)
      BY <2>0, <3>2, <3>3, <3>4 DEF RunnerMoves
    <3> QED
      BY <3>5, OnlyTheRunnerMoves
  <2>4. ASSUME R.at \in Working, R.file \in Order, tracked'[R.file] # 0,
               \A f \in Order : tracked[f] # 0 => tracked'[f] # 0
        PROVE  Fits(NextFile(R)) /\ NextFile(R).at \notin InTransaction
    <3> DEFINE run == NextFile(R)
    <3>0. R.file + 1 \in 1 .. Files + 1
      BY <2>4 DEF Order
    <3>1. /\ run \in RunnerState /\ run.at = "files" /\ run.file = R.file + 1
          /\ run.applied = R.applied
      BY <2>0, <3>0 DEF NextFile, RunnerState, Working
    <3> HIDE DEF run
    <3>2. \A f \in Order : f < run.file => f < R.file \/ f = R.file
      BY <2>4, <3>1 DEF Order
    <3>3. Fits(run)
      BY <2>0, <2>4, <3>1, <3>2 DEF Fits, Behind, InTransaction
    <3> QED
      BY <3>1, <3>3 DEF run, InTransaction
  <2>5. CASE SkipFile(r)
    <3>1. /\ R.at \in Working /\ R.file \in Order
          /\ runner' = [runner EXCEPT ![r] = NextFile(R)]
          /\ UNCHANGED <<disk, tracked, effect, seeded, runs, faults>>
      BY <2>5 DEF SkipFile, AtFile, Continue, Working
    <3>2. tracked[R.file] # 0
      BY <2>0, <2>5, <3>1 DEF SkipFile, Behind, Versions
    <3>3. RunnerMoves(r, NextFile(R))
      BY <2>0, <2>4, <3>1, <3>2 DEF RunnerMoves
    <3> QED
      BY <3>3, OnlyTheRunnerMoves
  <2>6. CASE RefuseFile(r)
    BY <2>2, <2>6 DEF RefuseFile, Ended
  <2>7. CASE RunBody(r)
    <3>1. CASE EndRun(r, "failed")
      BY <2>2, <2>7, <3>1 DEF RunBody, Ended
    <3>2. CASE Continue(r, [R EXCEPT !.at = "ran", !.version = disk[R.file]])
      <4> DEFINE run == [R EXCEPT !.at = "ran", !.version = disk[R.file]]
      <4>1. R.at \in Working /\ R.file \in Order /\ disk[R.file] \in Versions
            /\ disk[R.file] # 0 /\ UNCHANGED <<tracked, effect, seeded>>
        BY <2>0, <2>7 DEF RunBody, AtFile, Versions, Working
      <4>2. /\ run \in RunnerState /\ run.at = "ran" /\ run.file = R.file
            /\ run.applied = R.applied /\ run.version = disk[R.file]
        BY <2>0, <4>1 DEF RunnerState, Working, InTransaction
      <4>3. \A q \in Runners : ~(runner[q].at \in InTransaction /\ runner[q].file = R.file)
        BY <2>7 DEF RunBody, Holds
      <4>4. runner' = [runner EXCEPT ![r] = run] /\ UNCHANGED <<disk, runs, faults>>
        BY <3>2 DEF Continue
      <4> HIDE DEF run
      <4>5. Fits(run)
        BY <2>0, <4>1, <4>2 DEF Fits, Behind
      <4>6. RunnerMoves(r, run)
        BY <2>0, <4>1, <4>2, <4>3, <4>4, <4>5 DEF RunnerMoves
      <4> QED
        BY <4>6, OnlyTheRunnerMoves
    <3> QED
      BY <2>7, <3>1, <3>2 DEF RunBody
  <2>8. CASE Insert(r)
    <3>1. CASE tracked[R.file] = 0
      <4> DEFINE run == [R EXCEPT !.at = "inserted"]
      <4>1. R.at = "ran" /\ R.at \in Working /\ R.at \in InTransaction
            /\ UNCHANGED <<tracked, effect, seeded>>
        BY <2>8 DEF Insert, Working, InTransaction
      <4>2. /\ run \in RunnerState /\ run.at = "inserted" /\ run.file = R.file
            /\ run.applied = R.applied /\ run.version = R.version
        BY <2>0 DEF RunnerState, Working, InTransaction
      <4>3. \A q \in Runners \ {r} : ~(runner[q].at \in InTransaction /\ runner[q].file = R.file)
        BY <4>1 DEF SchemaInv, OneHolder
      <4>4. runner' = [runner EXCEPT ![r] = run] /\ UNCHANGED <<disk, runs, faults>>
        BY <2>8, <3>1 DEF Insert, Continue
      <4> HIDE DEF run
      <4>5. Fits(run)
        BY <2>0, <3>1, <4>1, <4>2 DEF Fits, Behind, Pending
      <4>6. RunnerMoves(r, run)
        BY <2>0, <4>1, <4>2, <4>3, <4>4, <4>5 DEF RunnerMoves
      <4> QED
        BY <4>6, OnlyTheRunnerMoves
    <3>2. CASE tracked[R.file] # 0
      BY <2>2, <2>8, <3>2 DEF Insert, Ended
    <3> QED
      BY <3>1, <3>2
  <2>9. ASSUME R.at = "inserted", Applied(r), UNCHANGED <<disk, seeded>>,
               faults' \in 0 .. MaxFaults, faults' >= faults, runs' = runs,
               NEW run, runner' = [runner EXCEPT ![r] = run], run.at \notin InTransaction,
               Fits(run)
        PROVE SchemaInv'
    <3>1. \A q \in Runners \ {r} : ~(runner[q].at = "inserted" /\ runner[q].file = R.file)
      BY <2>9 DEF SchemaInv, OneHolder, InTransaction
    <3>2. /\ tracked' \in [Order -> {0} \cup Versions] /\ effect' = tracked'
          /\ \A f \in Order : tracked[f] # 0 => tracked'[f] = tracked[f]
          /\ \A f \in Order : tracked'[f] # tracked[f] => f = R.file
          /\ EditsAreCounted' /\ DatabaseIsWhole'
      BY <2>9, AppliedGrows
    <3>3. \A f \in Order : tracked'[f] # tracked[f]
             => \A q \in Runners \ {r} : ~(runner[q].at = "inserted" /\ runner[q].file = f)
      BY <3>1, <3>2
    <3>4. disk' \in [Order -> Versions] /\ seeded' \subseteq Tables /\ runs' \in 0 .. MaxRuns
      BY <2>0, <2>9
    <3> QED
      BY <2>9, <3>2, <3>3, <3>4, OneRunnerMoves
  <2>10. CASE Commit(r)
    <3>1. /\ R.at = "inserted" /\ R.at \in Working /\ R.at \in InTransaction
          /\ R.file \in Order /\ Applied(r) /\ runner' = [runner EXCEPT ![r] = NextFile(R)]
          /\ UNCHANGED <<disk, runs, faults, seeded>>
      BY <2>0, <2>10 DEF Commit, Continue, Pending, InTransaction, Working
    <3>2. faults' \in 0 .. MaxFaults /\ faults' >= faults
      BY <2>0, <3>1
    <3>3. tracked'[R.file] # 0 /\ \A f \in Order : tracked[f] # 0 => tracked'[f] = tracked[f]
      BY <3>1, <3>2, AppliedGrows
    <3> QED
      BY <2>4, <2>9, <3>1, <3>2, <3>3
  <2>11. CASE EndFiles(r)
    <3>1. CASE r \in Seeders
      <4>1. \A f \in Order : tracked'[f] # 0
        BY <2>0, <2>11 DEF EndFiles, Behind, Working, Order, RunnerState
      <4>2. Fits([Idle EXCEPT !.at = "count"])
            /\ [Idle EXCEPT !.at = "count"].at \notin InTransaction
        BY <4>1, IdleFits
      <4>3. RunnerMoves(r, [Idle EXCEPT !.at = "count"])
        BY <2>0, <2>11, <3>1, <4>2 DEF EndFiles, Continue, RunnerMoves
      <4> QED
        BY <4>3, OnlyTheRunnerMoves
    <3>2. CASE r \notin Seeders
      BY <2>2, <2>11, <3>2 DEF EndFiles, Ended
    <3> QED
      BY <3>1, <3>2
  <2>12. CASE Count(r)
    <3>1. PICK t \in Tables \ R.counted :
            Continue(r, [R EXCEPT !.counted = R.counted \cup {t},
                                  !.found = R.found \/ t \in seeded])
      BY <2>12 DEF Count
    <3> DEFINE found == R.found \/ t \in seeded
    <3>2. found \in BOOLEAN
      OBVIOUS
    <3> HIDE DEF found
    <3> DEFINE run == [R EXCEPT !.counted = R.counted \cup {t}, !.found = found]
    <3>3. /\ run \in RunnerState /\ run.at = R.at /\ run.file = R.file
          /\ run.applied = R.applied /\ run.version = R.version
      BY <2>0, <3>1, <3>2 DEF RunnerState
    <3>4. runner' = [runner EXCEPT ![r] = run] /\ UNCHANGED <<disk, runs, faults>>
      BY <3>1 DEF Continue, found
    <3>5. R.at = "count" /\ UNCHANGED <<tracked, effect, seeded>>
      BY <2>12 DEF Count
    <3> HIDE DEF run
    <3>6. Fits(run) /\ run.at \notin InTransaction
      BY <2>0, <3>3, <3>5 DEF Fits, Behind, InTransaction
    <3>7. RunnerMoves(r, run)
      BY <2>0, <3>4, <3>5, <3>6 DEF RunnerMoves
    <3> QED
      BY <3>7, OnlyTheRunnerMoves
  <2>13. CASE Seed(r)
    <3>1. \A f \in Order : tracked[f] # 0
      BY <2>0, <2>13 DEF Seed, Behind
    <3>2. DatabaseIsWhole' /\ EditsAreCounted'
      BY <2>13, <3>1 DEF Seed, EndRun, Continue, SchemaInv, DatabaseIsWhole, EditsAreCounted
    <3>3. Fits([Idle EXCEPT !.at = "done"]) /\ [Idle EXCEPT !.at = "done"].at \notin InTransaction
      BY IdleFits DEF Ended
    <3> QED
      BY <2>0, <2>13, <3>2, <3>3, OneRunnerMoves DEF Seed, EndRun, Continue
  <2>14. CASE SkipSeed(r)
    BY <2>2, <2>14 DEF SkipSeed, Ended
  <2>15. ASSUME Die(r) \/ DieCommitted(r)
         PROVE /\ faults' \in 0 .. MaxFaults /\ faults' >= faults
               /\ Fits([Idle EXCEPT !.at = "failed"])
               /\ [Idle EXCEPT !.at = "failed"].at \notin InTransaction
    BY <2>0, <2>15, IdleFits DEF Die, DieCommitted, Ended
  <2>16. CASE Die(r)
    <3>1. RunnerMoves(r, [Idle EXCEPT !.at = "failed"])
      BY <2>0, <2>15, <2>16 DEF Die, RunnerMoves
    <3> QED
      BY <3>1, OnlyTheRunnerMoves
  <2>17. CASE DieCommitted(r)
    BY <2>0, <2>9, <2>15, <2>17 DEF DieCommitted
  <2> QED
    BY <1>3, <2>1, <2>3, <2>5, <2>6, <2>7, <2>8, <2>10, <2>11, <2>12, <2>13, <2>14, <2>16, <2>17
       DEF RunnerStep
<1> QED
  BY <1>1, <1>2, <1>3 DEF MigrationNext

-------------------------------------------------------------------------------
(* Wherever runners die, overlap and are run again, and files are edited in *)
(* between, schema_migrations says what is in effect, the files applied are *)
(* the first ones, and the seed comes after the schema, as a whole          *)
(* (scripts/migrate.ts:42-109).                                             *)
THEOREM DatabaseStaysWhole == MigrationSpec => []DatabaseIsWhole
<1>1. SchemaInv => DatabaseIsWhole
  BY DEF SchemaInv
<1> QED
  BY InitIsWhole, StepIsWhole, <1>1, PTL DEF MigrationSpec

(* No step takes a variable out of its type: versions stay within what the  *)
(* edits allow, and a runner is never past the end of the files.            *)
THEOREM MigrationTypeCorrect == MigrationSpec => []MigrationTypeOK
<1>1. SchemaInv => MigrationTypeOK
  BY DEF SchemaInv
<1> QED
  BY InitIsWhole, StepIsWhole, <1>1, PTL DEF MigrationSpec

CallState ==
  [at : {"free", "answered", "lost"} \cup InHandler, method : Methods,
   attempts : 0 .. Retries + 1, late : 0 .. Retries + 1,
   carried : 0 .. Retries + 1, answer : Answers \cup {"none"}]

(* Every attempt is with the service, carried out, left behind or over; a   *)
(* write has one, and it is made after the last step that may refuse it.    *)
AttemptsAreCounted(c) ==
  /\ c.carried + c.late + (IF c.at = "upstream" THEN 1 ELSE 0) <= c.attempts
  /\ c.method # "GET" => c.attempts <= 1
  /\ c.at \in {"free", "arrived", "known"} => c.attempts = 0
  /\ c.at = "forward" => c.attempts <= Retries
  /\ c.at = "forward" /\ c.method # "GET" => c.attempts = 0

AnswerIsHonest(c) ==
  /\ c.at = "carried" => c.carried > 0
  /\ c.at # "answered" => c.answer = "none"
  /\ c.answer \in Refusals => c.carried + c.late = 0
  /\ c.answer = "rejected" /\ c.method # "GET" => c.carried + c.late = 0
  /\ c.answer = "ok" => c.carried > 0

Sound(c) == c \in CallState /\ AttemptsAreCounted(c) /\ AnswerIsHonest(c)

CallsInv ==
  /\ keyed \in BOOLEAN /\ trouble \in 0 .. MaxTrouble
  /\ call \in [Slots -> CallState]
  /\ \A s \in Slots : Sound(call[s])

-------------------------------------------------------------------------------
LEMMA SlotIsSound == Sound(Free)
<1>1. /\ Free \in CallState /\ Free.at = "free" /\ Free.attempts = 0 /\ Free.late = 0
      /\ Free.carried = 0 /\ Free.answer = "none"
  BY GatewayAssumption DEF Free, CallState, Methods
<1>2. AttemptsAreCounted(Free)
  BY <1>1 DEF AttemptsAreCounted
<1>3. AnswerIsHonest(Free)
  BY <1>1 DEF AnswerIsHonest, Refusals
<1> QED
  BY <1>1, <1>2, <1>3 DEF Sound

LEMMA ArrivalIsSound ==
  ASSUME NEW method \in Methods
  PROVE  Sound([Free EXCEPT !.at = "arrived", !.method = method])
<1> DEFINE c == [Free EXCEPT !.at = "arrived", !.method = method]
<1>1. Free \in CallState /\ Free.attempts = 0 /\ Free.late = 0 /\ Free.carried = 0
      /\ Free.answer = "none"
  BY GatewayAssumption DEF Free, CallState, Methods
<1>2. /\ c \in CallState /\ c.at = "arrived" /\ c.attempts = 0 /\ c.late = 0
      /\ c.carried = 0 /\ c.answer = "none"
  BY <1>1 DEF CallState, InHandler
<1> HIDE DEF c
<1>3. AttemptsAreCounted(c)
  BY <1>2 DEF AttemptsAreCounted
<1>4. AnswerIsHonest(c)
  BY <1>2 DEF AnswerIsHonest, Refusals
<1> QED
  BY <1>2, <1>3, <1>4 DEF c, Sound

LEMMA InitIsHonest == GatewayInit => CallsInv
<1> SUFFICES ASSUME GatewayInit PROVE CallsInv
  OBVIOUS
<1> QED
  BY SlotIsSound, GatewayAssumption DEF GatewayInit, CallsInv, Sound

(* A call that is answered before anything has reached the service.         *)
LEMMA RefusedIsSound ==
  ASSUME NEW c, Sound(c), c.at \in {"arrived", "known"}, NEW answer \in Refusals
  PROVE  Sound([c EXCEPT !.at = "answered", !.answer = answer])
<1> DEFINE d == [c EXCEPT !.at = "answered", !.answer = answer]
<1>1. /\ d \in CallState /\ d.at = "answered" /\ d.answer = answer /\ d.method = c.method
      /\ d.attempts = c.attempts /\ d.late = c.late /\ d.carried = c.carried
  BY DEF Sound, CallState, Answers
<1> HIDE DEF d
<1>2. c.attempts = 0 /\ c.late \in Nat /\ c.carried \in Nat /\ c.late + c.carried <= 0
  BY GatewayAssumption DEF Sound, AttemptsAreCounted, CallState
<1>3. Sound(d)
  BY <1>1, <1>2 DEF Sound, AttemptsAreCounted, AnswerIsHonest, Refusals
<1> QED
  BY <1>3 DEF d

(* A call whose attempt came to nothing, with what is left behind of it, is *)
(* repeated if it may be, and answered with an error if not.                *)
LEMMA AgainIsSound ==
  ASSUME NEW c \in CallState, NEW answer \in {"502", "504"}, c.answer = "none",
         c.carried + c.late <= c.attempts, c.method # "GET" => c.attempts <= 1
  PROVE  Sound(IF MayRepeat(c) THEN [c EXCEPT !.at = "forward"]
               ELSE [c EXCEPT !.at = "answered", !.answer = answer])
<1>1. CASE MayRepeat(c)
  <2> DEFINE d == [c EXCEPT !.at = "forward"]
  <2>1. /\ d \in CallState /\ d.at = "forward" /\ d.answer = "none" /\ d.method = "GET"
        /\ d.attempts = c.attempts /\ d.late = c.late /\ d.carried = c.carried
    BY <1>1 DEF CallState, MayRepeat, InHandler
  <2>2. c.attempts \in Nat /\ c.attempts <= Retries
    BY <1>1, GatewayAssumption DEF MayRepeat, CallState
  <2>3. c.carried \in Nat /\ c.late \in Nat
    BY GatewayAssumption DEF CallState
  <2> HIDE DEF d
  <2>4. AttemptsAreCounted(d)
    BY <2>1, <2>2, <2>3 DEF AttemptsAreCounted
  <2>5. AnswerIsHonest(d)
    BY <2>1 DEF AnswerIsHonest, Refusals
  <2> QED
    BY <1>1, <2>1, <2>4, <2>5 DEF d, Sound
<1>2. CASE ~MayRepeat(c)
  <2> DEFINE d == [c EXCEPT !.at = "answered", !.answer = answer]
  <2>1. /\ d \in CallState /\ d.at = "answered" /\ d.answer = answer /\ d.method = c.method
        /\ d.attempts = c.attempts /\ d.late = c.late /\ d.carried = c.carried
    BY DEF CallState, Answers
  <2>2. c.carried \in Nat /\ c.late \in Nat /\ c.attempts \in Nat
    BY GatewayAssumption DEF CallState
  <2> HIDE DEF d
  <2>3. AttemptsAreCounted(d)
    BY <2>1, <2>2 DEF AttemptsAreCounted
  <2>4. AnswerIsHonest(d)
    BY <2>1 DEF AnswerIsHonest, Refusals
  <2> QED
    BY <1>2, <2>1, <2>3, <2>4 DEF d, Sound
<1> QED
  BY <1>1, <1>2

(* What the service has of an attempt that is given up. *)
LEMMA GivenUpIsCounted ==
  ASSUME NEW c, Sound(c)
  PROVE  /\ GivenUp(c) \in CallState
         /\ GivenUp(c).carried + GivenUp(c).late <= GivenUp(c).attempts
         /\ GivenUp(c).method # "GET" => GivenUp(c).attempts <= 1
         /\ GivenUp(c).at = c.at /\ GivenUp(c).answer = c.answer
<1>1. CASE c.at = "upstream" /\ c.method # "GET"
  <2> DEFINE d == [c EXCEPT !.late = @ + 1]
  <2>1. c.late + 1 \in 0 .. Retries + 1 /\ c.carried + c.late + 1 <= c.attempts
        /\ c.attempts <= 1
    BY <1>1, GatewayAssumption DEF Sound, AttemptsAreCounted, CallState
  <2>2. /\ d \in CallState /\ d.late = c.late + 1 /\ d.carried = c.carried
        /\ d.attempts = c.attempts /\ d.at = c.at /\ d.answer = c.answer /\ d.method = c.method
    BY <2>1 DEF Sound, CallState
  <2>3. GivenUp(c) = d
    BY <1>1 DEF GivenUp
  <2> HIDE DEF d
  <2> QED
    BY <2>1, <2>2, <2>3 DEF CallState, Sound
<1>2. CASE ~(c.at = "upstream" /\ c.method # "GET")
  <2>1. GivenUp(c) = c
    BY <1>2 DEF GivenUp
  <2>2. c.carried \in Nat /\ c.late \in Nat /\ c.attempts \in Nat
    BY GatewayAssumption DEF Sound, CallState
  <2> QED
    BY <2>1, <2>2 DEF Sound, AttemptsAreCounted
<1> QED
  BY <1>1, <1>2

(* One call moves, to a sound one. *)
CallMoves(s, next) ==
  /\ Goes(s, next) /\ Sound(next)
  /\ keyed' \in BOOLEAN /\ trouble' \in 0 .. MaxTrouble

LEMMA OneCallMoves ==
  ASSUME CallsInv, NEW s \in Slots, NEW next, CallMoves(s, next)
  PROVE  CallsInv'
<1>1. call' = [call EXCEPT ![s] = next] /\ next \in CallState /\ Sound(next)
  BY DEF CallMoves, Goes, Sound
<1>2. call' \in [Slots -> CallState]
  BY <1>1 DEF CallsInv
<1>3. \A q \in Slots : call'[q] = next \/ call'[q] = call[q]
  BY <1>1 DEF CallsInv
<1>4. \A q \in Slots : Sound(call'[q])
  BY <1>1, <1>3 DEF CallsInv
<1> QED
  BY <1>2, <1>4 DEF CallsInv, CallMoves

(* What all the steps of one call start from. *)
LEMMA CallIsSound ==
  ASSUME CallsInv, NEW s \in Slots
  PROVE  /\ Sound(call[s]) /\ call[s] \in CallState
         /\ AttemptsAreCounted(call[s]) /\ AnswerIsHonest(call[s])
         /\ call[s].carried \in Nat /\ call[s].late \in Nat /\ call[s].attempts \in Nat
         /\ keyed \in BOOLEAN /\ trouble \in 0 .. MaxTrouble
<1>1. Sound(call[s]) /\ call[s] \in CallState /\ keyed \in BOOLEAN /\ trouble \in 0 .. MaxTrouble
  BY DEF CallsInv
<1>2. AttemptsAreCounted(call[s]) /\ AnswerIsHonest(call[s])
  BY <1>1 DEF Sound
<1>3. call[s].carried \in Nat /\ call[s].late \in Nat /\ call[s].attempts \in Nat
  BY <1>1, GatewayAssumption DEF CallState
<1> QED
  BY <1>1, <1>2, <1>3

-------------------------------------------------------------------------------
LEMMA ArriveIsHonest ==
  ASSUME CallsInv, NEW s \in Slots, NEW m \in Methods, Arrive(s, m), UNCHANGED <<keyed, trouble>>
  PROVE  CallsInv'
<1> DEFINE next == [Free EXCEPT !.at = "arrived", !.method = m]
<1>1. Sound(next)
  BY ArrivalIsSound
<1>2. Goes(s, next)
  BY DEF Arrive
<1> HIDE DEF next
<1>3. CallMoves(s, next)
  BY <1>1, <1>2, CallIsSound DEF CallMoves
<1> QED
  BY <1>3, OneCallMoves

LEMMA LeaveIsHonest ==
  ASSUME CallsInv, NEW s \in Slots, Leave(s), UNCHANGED <<keyed, trouble>>
  PROVE  CallsInv'
<1>1. CallMoves(s, Free)
  BY SlotIsSound, CallIsSound DEF CallMoves, Leave
<1> QED
  BY <1>1, OneCallMoves

(* The middlewares: on, or an answer of refusal. *)
LEMMA GuardIsHonest ==
  ASSUME CallsInv, NEW s \in Slots, NEW at \in {"known", "forward"}, NEW answer \in Refusals,
         call[s].at \in {"arrived", "known"},
         keyed' \in BOOLEAN, trouble' \in 0 .. MaxTrouble,
         Goes(s, [call[s] EXCEPT !.at = at]) \/ Goes(s, Answered(s, answer))
  PROVE  CallsInv'
<1> DEFINE c == call[s]
<1>1. CASE Goes(s, [c EXCEPT !.at = at])
  <2> DEFINE d == [c EXCEPT !.at = at]
  <2>1. /\ d \in CallState /\ d.at = at /\ d.answer = c.answer /\ d.method = c.method
        /\ d.attempts = c.attempts /\ d.late = c.late /\ d.carried = c.carried
    BY CallIsSound DEF CallState, InHandler
  <2>2. c.attempts = 0 /\ c.late \in Nat /\ c.carried \in Nat /\ c.carried + c.late <= 0
        /\ c.answer = "none"
    BY CallIsSound DEF AttemptsAreCounted, AnswerIsHonest
  <2>3. Goes(s, d)
    BY <1>1
  <2> HIDE DEF d, c
  <2>4. AttemptsAreCounted(d)
    BY <2>1, <2>2, GatewayAssumption DEF AttemptsAreCounted
  <2>5. AnswerIsHonest(d)
    BY <2>1, <2>2 DEF AnswerIsHonest, Refusals
  <2>6. CallMoves(s, d)
    BY <2>1, <2>3, <2>4, <2>5 DEF CallMoves, Sound
  <2> QED
    BY <2>6, OneCallMoves
<1>2. CASE Goes(s, Answered(s, answer))
  <2>1. Sound(Answered(s, answer))
    BY CallIsSound, RefusedIsSound DEF Answered
  <2>2. CallMoves(s, Answered(s, answer))
    BY <1>2, <2>1 DEF CallMoves
  <2> QED
    BY <2>2, OneCallMoves
<1> QED
  BY <1>1, <1>2

LEMMA MiddlewaresAreHonest ==
  ASSUME CallsInv, NEW s \in Slots, Authenticate(s) \/ LimitRate(s)
  PROVE  CallsInv'
<1>1. keyed' \in BOOLEAN /\ trouble' \in 0 .. MaxTrouble
  BY CallIsSound, GatewayAssumption DEF Authenticate, LimitRate, Calm, Trouble
<1>2. CASE Authenticate(s)
  <2>1. /\ call[s].at \in {"arrived", "known"}
        /\ \E answer \in Refusals :
              Goes(s, [call[s] EXCEPT !.at = "known"]) \/ Goes(s, Answered(s, answer))
    BY <1>2 DEF Authenticate, Refusals
  <2> QED
    BY <1>1, <2>1, GuardIsHonest
<1>3. CASE LimitRate(s)
  <2>1. /\ call[s].at \in {"arrived", "known"}
        /\ \E answer \in Refusals :
              Goes(s, [call[s] EXCEPT !.at = "forward"]) \/ Goes(s, Answered(s, answer))
    BY <1>3 DEF LimitRate, Refusals
  <2> QED
    BY <1>1, <2>1, GuardIsHonest
<1> QED
  BY <1>2, <1>3

-------------------------------------------------------------------------------
(* What the service does, and what comes back from it. *)
LEMMA ForwardIsHonest ==
  ASSUME CallsInv, NEW s \in Slots, Forward(s)
  PROVE  CallsInv'
<1> DEFINE c == call[s]
<1> DEFINE d == [c EXCEPT !.at = "upstream", !.attempts = @ + 1]
<1>1. /\ c.carried \in Nat /\ c.late \in Nat /\ c.attempts \in Nat /\ c.answer \in Answers \cup {"none"}
      /\ c.attempts <= Retries + 1 /\ (c.method # "GET" => c.attempts <= 1)
      /\ AnswerIsHonest(c)
      /\ c.at = "forward" /\ c.attempts <= Retries /\ c.carried + c.late <= c.attempts
      /\ (c.method # "GET" => c.attempts = 0)
  BY CallIsSound, GatewayAssumption
     DEF Forward, AttemptsAreCounted, AnswerIsHonest, CallState
<1>b. c.attempts + 1 \in 0 .. Retries + 1
  BY <1>1, CallIsSound, GatewayAssumption DEF CallState, AttemptsAreCounted
<1>2. /\ d \in CallState /\ d.at = "upstream" /\ d.answer = c.answer /\ d.method = c.method
      /\ d.attempts = c.attempts + 1 /\ d.late = c.late /\ d.carried = c.carried
  BY <1>1, <1>b, CallIsSound DEF CallState, InHandler, Answers
<1>3. Goes(s, d)
  BY DEF Forward
<1>4. keyed' \in BOOLEAN /\ trouble' \in 0 .. MaxTrouble
  BY CallIsSound, GatewayAssumption DEF Forward, Calm, Trouble
<1> HIDE DEF d, c
<1>5. AttemptsAreCounted(d)
  BY <1>1, <1>2, GatewayAssumption DEF AttemptsAreCounted
<1>6. AnswerIsHonest(d)
  BY <1>1, <1>2 DEF AnswerIsHonest, Refusals
<1>7. CallMoves(s, d)
  BY <1>2, <1>3, <1>4, <1>5, <1>6 DEF CallMoves, Sound
<1> QED
  BY <1>7, OneCallMoves

LEMMA CarryIsHonest ==
  ASSUME CallsInv, NEW s \in Slots, Carry(s)
  PROVE  CallsInv'
<1> DEFINE c == call[s]
<1> DEFINE d == [c EXCEPT !.at = "carried", !.carried = @ + 1]
<1>1. /\ c.carried \in Nat /\ c.late \in Nat /\ c.attempts \in Nat /\ c.answer \in Answers \cup {"none"}
      /\ c.attempts <= Retries + 1 /\ (c.method # "GET" => c.attempts <= 1)
      /\ AnswerIsHonest(c)
      /\ c.at = "upstream" /\ c.carried + c.late + 1 <= c.attempts
  BY CallIsSound, GatewayAssumption
     DEF Carry, AttemptsAreCounted, AnswerIsHonest, CallState
<1>b. c.carried + 1 \in 0 .. Retries + 1
  BY <1>1, CallIsSound, GatewayAssumption DEF CallState, AttemptsAreCounted
<1>2. /\ d \in CallState /\ d.at = "carried" /\ d.answer = c.answer /\ d.method = c.method
      /\ d.attempts = c.attempts /\ d.late = c.late /\ d.carried = c.carried + 1
  BY <1>1, <1>b, CallIsSound DEF CallState, InHandler, Answers
<1>3. Goes(s, d)
  BY DEF Carry
<1>4. keyed' \in BOOLEAN /\ trouble' \in 0 .. MaxTrouble
  BY CallIsSound, GatewayAssumption DEF Carry, Calm, Trouble
<1> HIDE DEF d, c
<1>5. AttemptsAreCounted(d)
  BY <1>1, <1>2, GatewayAssumption DEF AttemptsAreCounted
<1>6. AnswerIsHonest(d)
  BY <1>1, <1>2 DEF AnswerIsHonest, Refusals
<1>7. CallMoves(s, d)
  BY <1>2, <1>3, <1>4, <1>5, <1>6 DEF CallMoves, Sound
<1> QED
  BY <1>7, OneCallMoves

LEMMA RejectIsHonest ==
  ASSUME CallsInv, NEW s \in Slots, Reject(s)
  PROVE  CallsInv'
<1> DEFINE c == call[s]
<1> DEFINE d == [c EXCEPT !.at = "answered", !.answer = "rejected"]
<1>1. /\ c.carried \in Nat /\ c.late \in Nat /\ c.attempts \in Nat /\ c.answer \in Answers \cup {"none"}
      /\ c.attempts <= Retries + 1 /\ (c.method # "GET" => c.attempts <= 1)
      /\ AnswerIsHonest(c)
      /\ c.at = "upstream" /\ c.carried + c.late + 1 <= c.attempts
  BY CallIsSound, GatewayAssumption
     DEF Reject, AttemptsAreCounted, AnswerIsHonest, CallState
<1>2. /\ d \in CallState /\ d.at = "answered" /\ d.answer = "rejected" /\ d.method = c.method
      /\ d.attempts = c.attempts /\ d.late = c.late /\ d.carried = c.carried
  BY <1>1, CallIsSound DEF CallState, InHandler, Answers
<1>3. Goes(s, d)
  BY DEF Reject, Answered
<1>4. keyed' \in BOOLEAN /\ trouble' \in 0 .. MaxTrouble
  BY CallIsSound, GatewayAssumption DEF Reject, Calm, Trouble
<1> HIDE DEF d, c
<1>5. AttemptsAreCounted(d)
  BY <1>1, <1>2, GatewayAssumption DEF AttemptsAreCounted
<1>6. AnswerIsHonest(d)
  BY <1>1, <1>2 DEF AnswerIsHonest, Refusals
<1>7. CallMoves(s, d)
  BY <1>2, <1>3, <1>4, <1>5, <1>6 DEF CallMoves, Sound
<1> QED
  BY <1>7, OneCallMoves

LEMMA CarryLateIsHonest ==
  ASSUME CallsInv, NEW s \in Slots, CarryLate(s)
  PROVE  CallsInv'
<1> DEFINE c == call[s]
<1> DEFINE d == [c EXCEPT !.late = @ - 1, !.carried = @ + 1]
<1>1. /\ c.carried \in Nat /\ c.late \in Nat /\ c.attempts \in Nat /\ c.answer \in Answers \cup {"none"}
      /\ c.attempts <= Retries + 1 /\ (c.method # "GET" => c.attempts <= 1)
      /\ AnswerIsHonest(c)
      /\ c.late > 0 /\ AttemptsAreCounted(c)
  BY CallIsSound, GatewayAssumption
     DEF CarryLate, AttemptsAreCounted, AnswerIsHonest, CallState
<1>b. c.carried + 1 \in 0 .. Retries + 1 /\ c.late - 1 \in 0 .. Retries + 1
  BY <1>1, CallIsSound, GatewayAssumption DEF CallState, AttemptsAreCounted
<1>2. /\ d \in CallState /\ d.at = c.at /\ d.answer = c.answer /\ d.method = c.method
      /\ d.attempts = c.attempts /\ d.late = c.late - 1 /\ d.carried = c.carried + 1
  BY <1>1, <1>b, CallIsSound DEF CallState, InHandler, Answers
<1>3. Goes(s, d)
  BY DEF CarryLate
<1>4. keyed' \in BOOLEAN /\ trouble' \in 0 .. MaxTrouble
  BY CallIsSound, GatewayAssumption DEF CarryLate, Calm, Trouble
<1> HIDE DEF d, c
<1>5. AttemptsAreCounted(d)
  BY <1>1, <1>2, GatewayAssumption DEF AttemptsAreCounted
<1>6. AnswerIsHonest(d)
  BY <1>1, <1>2 DEF AnswerIsHonest, Refusals
<1>7. CallMoves(s, d)
  BY <1>2, <1>3, <1>4, <1>5, <1>6 DEF CallMoves, Sound
<1> QED
  BY <1>7, OneCallMoves

LEMMA NeverMindIsHonest ==
  ASSUME CallsInv, NEW s \in Slots, NeverMind(s)
  PROVE  CallsInv'
<1> DEFINE c == call[s]
<1> DEFINE d == [c EXCEPT !.late = @ - 1]
<1>1. /\ c.carried \in Nat /\ c.late \in Nat /\ c.attempts \in Nat /\ c.answer \in Answers \cup {"none"}
      /\ c.attempts <= Retries + 1 /\ (c.method # "GET" => c.attempts <= 1)
      /\ AnswerIsHonest(c)
      /\ c.late > 0 /\ AttemptsAreCounted(c)
  BY CallIsSound, GatewayAssumption
     DEF NeverMind, AttemptsAreCounted, AnswerIsHonest, CallState
<1>b. c.late - 1 \in 0 .. Retries + 1
  BY <1>1, CallIsSound, GatewayAssumption DEF CallState, AttemptsAreCounted
<1>2. /\ d \in CallState /\ d.at = c.at /\ d.answer = c.answer /\ d.method = c.method
      /\ d.attempts = c.attempts /\ d.late = c.late - 1 /\ d.carried = c.carried
  BY <1>1, <1>b, CallIsSound DEF CallState, InHandler, Answers
<1>3. Goes(s, d)
  BY DEF NeverMind
<1>4. keyed' \in BOOLEAN /\ trouble' \in 0 .. MaxTrouble
  BY CallIsSound, GatewayAssumption DEF NeverMind, Calm, Trouble
<1> HIDE DEF d, c
<1>5. AttemptsAreCounted(d)
  BY <1>1, <1>2, GatewayAssumption DEF AttemptsAreCounted
<1>6. AnswerIsHonest(d)
  BY <1>1, <1>2 DEF AnswerIsHonest, Refusals
<1>7. CallMoves(s, d)
  BY <1>2, <1>3, <1>4, <1>5, <1>6 DEF CallMoves, Sound
<1> QED
  BY <1>7, OneCallMoves

LEMMA RespondIsHonest ==
  ASSUME CallsInv, NEW s \in Slots, Respond(s)
  PROVE  CallsInv'
<1> DEFINE c == call[s]
<1>0. PICK answer \in {"ok", "failed"} : Goes(s, Answered(s, answer))
  BY DEF Respond
<1> DEFINE d == [c EXCEPT !.at = "answered", !.answer = answer]
<1>1. /\ c.carried \in Nat /\ c.late \in Nat /\ c.attempts \in Nat /\ c.answer \in Answers \cup {"none"}
      /\ c.attempts <= Retries + 1 /\ (c.method # "GET" => c.attempts <= 1)
      /\ AnswerIsHonest(c)
      /\ c.at = "carried" /\ c.carried + c.late <= c.attempts
  BY CallIsSound, GatewayAssumption
     DEF Respond, AttemptsAreCounted, AnswerIsHonest, CallState
<1>2. /\ d \in CallState /\ d.at = "answered" /\ d.answer = answer /\ d.method = c.method
      /\ d.attempts = c.attempts /\ d.late = c.late /\ d.carried = c.carried
  BY <1>1, CallIsSound DEF CallState, InHandler, Answers
<1>3. Goes(s, d)
  BY <1>0 DEF Answered
<1>4. keyed' \in BOOLEAN /\ trouble' \in 0 .. MaxTrouble
  BY CallIsSound, GatewayAssumption DEF Respond, Calm, Trouble
<1> HIDE DEF d, c
<1>5. AttemptsAreCounted(d)
  BY <1>1, <1>2, GatewayAssumption DEF AttemptsAreCounted
<1>6. AnswerIsHonest(d)
  BY <1>1, <1>2 DEF AnswerIsHonest, Refusals
<1>7. CallMoves(s, d)
  BY <1>2, <1>3, <1>4, <1>5, <1>6 DEF CallMoves, Sound
<1> QED
  BY <1>7, OneCallMoves

(* The attempt came to nothing: again, or an error. *)
LEMMA AgainIsHonest ==
  ASSUME CallsInv, NEW s \in Slots, NEW next \in CallState, NEW answer \in {"502", "504"},
         Again(s, next, answer), next.answer = "none",
         next.carried + next.late <= next.attempts, next.method # "GET" => next.attempts <= 1,
         keyed' \in BOOLEAN, trouble' \in 0 .. MaxTrouble
  PROVE  CallsInv'
<1> DEFINE d == IF MayRepeat(next) THEN [next EXCEPT !.at = "forward"]
                ELSE [next EXCEPT !.at = "answered", !.answer = answer]
<1>1. Sound(d)
  BY AgainIsSound
<1>2. Goes(s, d)
  BY DEF Again
<1> HIDE DEF d
<1>3. CallMoves(s, d)
  BY <1>1, <1>2 DEF CallMoves
<1> QED
  BY <1>3, OneCallMoves

LEMMA NoConnectionIsHonest ==
  ASSUME CallsInv, NEW s \in Slots, NoConnection(s)
  PROVE  CallsInv'
<1> DEFINE c == call[s]
<1> DEFINE d == [c EXCEPT !.attempts = @ + 1]
<1>1. /\ c.carried \in Nat /\ c.late \in Nat /\ c.attempts \in Nat /\ c.answer \in Answers \cup {"none"}
      /\ c.attempts <= Retries + 1 /\ (c.method # "GET" => c.attempts <= 1)
      /\ AnswerIsHonest(c)
      /\ c.answer = "none" /\ c.at = "forward" /\ c.attempts <= Retries
      /\ c.carried + c.late <= c.attempts /\ (c.method # "GET" => c.attempts = 0)
  BY CallIsSound, GatewayAssumption
     DEF NoConnection, AttemptsAreCounted, AnswerIsHonest, CallState
<1>b. c.attempts + 1 \in 0 .. Retries + 1
  BY <1>1, CallIsSound, GatewayAssumption DEF CallState, AttemptsAreCounted
<1>2. /\ d \in CallState /\ d.at = c.at /\ d.answer = c.answer /\ d.method = c.method
      /\ d.attempts = c.attempts + 1 /\ d.late = c.late /\ d.carried = c.carried
  BY <1>1, <1>b, CallIsSound DEF CallState, InHandler, Answers
<1>3. Again(s, d, "502")
  BY DEF NoConnection
<1>4. keyed' \in BOOLEAN /\ trouble' \in 0 .. MaxTrouble
  BY CallIsSound, GatewayAssumption DEF NoConnection, Trouble
<1> HIDE DEF d, c
<1>5. /\ d \in CallState /\ d.answer = "none" /\ d.carried + d.late <= d.attempts
      /\ (d.method # "GET" => d.attempts <= 1)
  BY <1>1, <1>2
<1> QED
  BY <1>3, <1>4, <1>5, AgainIsHonest

LEMMA GiveUpIsHonest ==
  ASSUME CallsInv, NEW s \in Slots, GiveUp(s)
  PROVE  CallsInv'
<1> DEFINE d == GivenUp(call[s])
<1>1. PICK answer \in {"502", "504"} : Again(s, d, answer)
  BY DEF GiveUp
<1>2. call[s].at # "answered" /\ call[s].answer = "none"
  BY CallIsSound DEF GiveUp, AnswerIsHonest
<1>3. /\ d \in CallState /\ d.answer = "none" /\ d.carried + d.late <= d.attempts
      /\ (d.method # "GET" => d.attempts <= 1)
  BY <1>2, CallIsSound, GivenUpIsCounted
<1>4. keyed' \in BOOLEAN /\ trouble' \in 0 .. MaxTrouble
  BY CallIsSound, GatewayAssumption DEF GiveUp, Trouble
<1> HIDE DEF d
<1> QED
  BY <1>1, <1>3, <1>4, AgainIsHonest

LEMMA LostIsSound ==
  ASSUME NEW c, Sound(c), c.at \in InHandler
  PROVE  Sound([GivenUp(c) EXCEPT !.at = "lost"])
<1> DEFINE g == GivenUp(c)
<1> DEFINE d == [g EXCEPT !.at = "lost"]
<1>1. /\ g \in CallState /\ g.carried + g.late <= g.attempts
      /\ (g.method # "GET" => g.attempts <= 1) /\ g.answer = "none"
  BY GivenUpIsCounted DEF Sound, AnswerIsHonest, InHandler
<1> HIDE DEF g
<1>2. /\ d \in CallState /\ d.at = "lost" /\ d.answer = "none" /\ d.method = g.method
      /\ d.attempts = g.attempts /\ d.late = g.late /\ d.carried = g.carried
  BY <1>1 DEF CallState
<1>3. g.carried \in Nat /\ g.late \in Nat /\ g.attempts \in Nat
  BY <1>1, GatewayAssumption DEF CallState
<1> HIDE DEF d
<1>4. AttemptsAreCounted(d)
  BY <1>1, <1>2, <1>3 DEF AttemptsAreCounted
<1>5. AnswerIsHonest(d)
  BY <1>2 DEF AnswerIsHonest, Refusals
<1>6. Sound(d)
  BY <1>2, <1>4, <1>5 DEF Sound
<1> QED
  BY <1>6 DEF d, g

LEMMA RestartIsHonest ==
  ASSUME CallsInv, RestartGateway
  PROVE  CallsInv'
<1> DEFINE next(s) == IF call[s].at \in InHandler THEN [GivenUp(call[s]) EXCEPT !.at = "lost"]
                      ELSE call[s]
<1>1. \A s \in Slots : Sound(next(s))
  BY LostIsSound DEF CallsInv
<1>2. call' = [s \in Slots |-> next(s)]
  BY DEF RestartGateway
<1>3. keyed' \in BOOLEAN /\ trouble' \in 0 .. MaxTrouble
  BY GatewayAssumption DEF CallsInv, RestartGateway, SeedKeys, Trouble
<1> HIDE DEF next
<1>4. \A s \in Slots : call'[s] = next(s)
  BY <1>2
<1>5. call' \in [Slots -> CallState]
  BY <1>1, <1>2 DEF Sound
<1> QED
  BY <1>1, <1>3, <1>4, <1>5 DEF CallsInv

-------------------------------------------------------------------------------
LEMMA StepIsHonest == CallsInv /\ [GatewayNext]_gatewayVars => CallsInv'
<1> SUFFICES ASSUME CallsInv, [GatewayNext]_gatewayVars PROVE CallsInv'
  OBVIOUS
<1>1. CASE \E s \in Slots : GatewayStep(s)
  <2> SUFFICES ASSUME NEW s \in Slots, GatewayStep(s) PROVE CallsInv'
    BY <1>1
  <2>1. CASE HandlerStep(s)
    BY <2>1, MiddlewaresAreHonest, ForwardIsHonest, CarryIsHonest, RespondIsHonest
    DEF HandlerStep
  <2>2. CASE NoConnection(s) \/ Reject(s) \/ GiveUp(s)
    BY <2>2, NoConnectionIsHonest, RejectIsHonest, GiveUpIsHonest
  <2>3. CASE CarryLate(s) \/ NeverMind(s)
    BY <2>3, CarryLateIsHonest, NeverMindIsHonest
  <2> QED
    BY <2>1, <2>2, <2>3 DEF GatewayStep
<1>2. CASE \E s \in Slots, m \in Methods : Arrive(s, m) /\ UNCHANGED <<keyed, trouble>>
  BY <1>2, ArriveIsHonest
<1>3. CASE \E s \in Slots : Leave(s) /\ UNCHANGED <<keyed, trouble>>
  BY <1>3, LeaveIsHonest
<1>4. CASE RestartGateway
  BY <1>4, RestartIsHonest
<1>5. CASE RestartRedis
  <2>1. keyed' = FALSE /\ call' = call /\ Trouble
    BY <1>5 DEF RestartRedis
  <2>2. trouble \in 0 .. MaxTrouble
    BY DEF CallsInv
  <2>3. trouble' \in 0 .. MaxTrouble
    BY <2>1, <2>2, GatewayAssumption DEF Trouble
  <2>4. keyed' \in BOOLEAN
    BY <2>1
  <2> QED
    BY <2>1, <2>3, <2>4 DEF CallsInv
<1>6. CASE UNCHANGED gatewayVars
  BY <1>6 DEF gatewayVars, CallsInv
<1> QED
  BY <1>1, <1>2, <1>3, <1>4, <1>5, <1>6 DEF GatewayNext

LEMMA CallsInvariant == GatewaySpec => []CallsInv
<1> QED
  BY InitIsHonest, StepIsHonest, PTL DEF GatewaySpec

(* jsonProxyClient.ts and the middlewares: the types of the gateway's state. *)
THEOREM GatewayTypeCorrect == GatewaySpec => []GatewayTypeOK
<1>1. CallsInv => GatewayTypeOK
  BY DEF CallsInv, GatewayTypeOK, CallState
<1> QED
  BY <1>1, CallsInvariant, PTL

(* jsonProxyClient.ts:26-54: a write reaches the service at most once and a *)
(* read as often as it is repeated, a refused request never; and success is *)
(* said of what was carried out only.                                       *)
THEOREM AnswersStayHonest == GatewaySpec => []AnswersAreHonest
<1>1. CallsInv => AnswersAreHonest
  <2> SUFFICES ASSUME CallsInv, NEW s \in Slots
               PROVE  LET c == call[s]
                      IN  /\ c.carried + c.late + (IF c.at = "upstream" THEN 1 ELSE 0)
                               <= (IF c.method = "GET" THEN Retries + 1 ELSE 1)
                          /\ c.answer \in Refusals => c.carried + c.late = 0
                          /\ c.answer = "rejected" /\ c.method # "GET" => c.carried + c.late = 0
                          /\ c.answer = "ok" => c.carried > 0
    BY DEF AnswersAreHonest
  <2>1. /\ AttemptsAreCounted(call[s]) /\ AnswerIsHonest(call[s])
        /\ call[s].carried \in Nat /\ call[s].late \in Nat /\ call[s].attempts \in Nat
        /\ call[s].attempts <= Retries + 1
    BY CallIsSound, GatewayAssumption DEF CallState
  <2> QED
    BY <2>1, GatewayAssumption DEF AttemptsAreCounted, AnswerIsHonest
<1> QED
  BY <1>1, CallsInvariant, PTL

-------------------------------------------------------------------------------
(* The deployment *)

SchemaIsThere == (\A f \in Order : tracked[f] # 0) /\ seeded = Tables

(* What a run that ended well leaves, and what it means to have found a row. *)
Outcome(r) ==
  /\ runner[r].at = "done" =>
       (\A f \in Order : tracked[f] # 0) /\ (r \in Seeders => seeded = Tables)
  /\ runner[r].found => seeded # {}

ProbeState == [on : BOOLEAN, asked : SUBSET Services, failed : BOOLEAN]

ProcessesAreTyped ==
  /\ proc \in [Servers -> {"none", "listening", "draining", "closing", "exited"}]
  /\ request \in [Servers -> {"none", "connected", "left"}]
  /\ tick \in [Servers -> {"idle", "transaction", "between"}]
  /\ probe \in ProbeState /\ monitor \in BOOLEAN

Started(s) == proc[s] # "none"

(* The monitor, and the health check it waits for, have seen every service   *)
(* that has answered run.                                                    *)
ChecksAreTrue ==
  /\ probe.on /\ ~probe.failed => \A s \in Services \ probe.asked : Started(s)
  /\ monitor => \A s \in Services : Started(s)

DeploymentInv ==
  /\ SchemaInv /\ (\A r \in Runners : Outcome(r))
  /\ ProcessesAreTyped
  /\ (\E s \in Servers : Started(s)) => SchemaIsThere
  /\ ChecksAreTrue

-------------------------------------------------------------------------------
LEMMA ProcessesBegin == DeploymentInit => DeploymentInv
<1> SUFFICES ASSUME DeploymentInit PROVE DeploymentInv
  OBVIOUS
<1>1. MigrationInit
  BY DEF DeploymentInit
<1>2. SchemaInv
  BY <1>1, InitIsWhole
<1>3. \A r \in Runners : runner[r].at = "off" /\ runner[r].found = FALSE
  BY <1>1 DEF MigrationInit, Idle
<1>4. \A r \in Runners : Outcome(r)
  BY <1>3 DEF Outcome
<1>5. /\ ProcessesAreTyped /\ (\A s \in Servers : ~Started(s))
      /\ ~probe.on /\ monitor = FALSE
  BY DEF DeploymentInit, NoProbe, ProcessesAreTyped, ProbeState, Started
<1> QED
  BY <1>2, <1>4, <1>5 DEF DeploymentInv, ChecksAreTrue

(* A runner goes on, or its run ends, and the tables only grow.              *)
RunnerGoes(r, run) ==
  /\ runner' = [runner EXCEPT ![r] = run]
  /\ \A f \in Order : tracked[f] # 0 => tracked'[f] # 0
  /\ seeded' = seeded \/ seeded' = Tables
  /\ run.at = "done" => (\A f \in Order : tracked'[f] # 0) /\ (r \in Seeders => seeded' = Tables)
  /\ run.found => seeded' # {}

LEMMA Remembers ==
  ASSUME NEW run \in RunnerState, NEW at
  PROVE  [run EXCEPT !.at = at].at = at /\ [run EXCEPT !.at = at].found = run.found
BY DEF RunnerState

LEMMA EndsAs ==
  ASSUME NEW at
  PROVE  [Idle EXCEPT !.at = at].at = at /\ [Idle EXCEPT !.at = at].found = FALSE
BY DEF Idle

LEMMA SchemaGrows ==
  ASSUME SchemaInv, NEW r \in Runners, Outcome(r),
         Run(r) \/ RunnerStep(r) \/ Die(r) \/ DieCommitted(r)
  PROVE  \E run : RunnerGoes(r, run)
<1>0. /\ runner[r] \in RunnerState /\ Behind(r)
      /\ tracked \in [Order -> {0} \cup Versions] /\ seeded \in {{}, Tables}
  BY DEF SchemaInv, MigrationTypeOK, RunnerState, DatabaseIsWhole
<1>1. PICK R \in RunnerState : R = runner[r]
  BY <1>0
<1>2. R.found => seeded # {}
  BY <1>1 DEF Outcome
(* A run that does not end well, and nothing is remembered of it.            *)
<1>3. ASSUME NEW at, at # "done", runner' = [runner EXCEPT ![r] = [Idle EXCEPT !.at = at]],
             UNCHANGED <<tracked, seeded>>
      PROVE  \E run : RunnerGoes(r, run)
  BY <1>3, EndsAs DEF RunnerGoes
<1>4. ASSUME NEW run, runner' = [runner EXCEPT ![r] = run], run.at # "done", run.found = R.found,
             UNCHANGED <<tracked, seeded>>
      PROVE  \E x : RunnerGoes(r, x)
  BY <1>2, <1>4 DEF RunnerGoes
<1>5. ASSUME Applied(r), runner[r].at = "inserted"
      PROVE  \A f \in Order : tracked[f] # 0 => tracked'[f] # 0
  <2>1. runner[r].version # 0 /\ runner[r].file \in Order
    BY <1>5 DEF SchemaInv, Pending, InTransaction
  <2> QED
    BY <1>0, <1>5, <2>1 DEF Applied
<1>6. /\ NextFile(R).at = "files" /\ NextFile(R).found = R.found
  BY DEF NextFile, RunnerState
<1>7. CASE Run(r)
  BY <1>3, <1>7 DEF Run
<1>8. CASE LoadApplied(r)
  <2> DEFINE run == [R EXCEPT !.at = "files", !.applied = tracked]
  <2>1. run.at = "files" /\ run.found = R.found
    BY DEF RunnerState
  <2>2. runner' = [runner EXCEPT ![r] = run] /\ UNCHANGED <<tracked, seeded>>
    BY <1>1, <1>8 DEF LoadApplied, Continue
  <2> HIDE DEF run
  <2> QED
    BY <1>4, <2>1, <2>2
<1>9. CASE SkipFile(r)
  BY <1>1, <1>4, <1>6, <1>9 DEF SkipFile, Continue
<1>10. CASE RefuseFile(r)
  BY <1>3, <1>10 DEF RefuseFile, EndRun, Continue
<1>11. CASE RunBody(r)
  <2>1. CASE EndRun(r, "failed")
    BY <1>3, <1>11, <2>1 DEF RunBody, EndRun, Continue
  <2>2. CASE Continue(r, [runner[r] EXCEPT !.at = "ran", !.version = disk[runner[r].file]])
    <3> DEFINE run == [R EXCEPT !.at = "ran", !.version = disk[R.file]]
    <3>1. run.at = "ran" /\ run.found = R.found
      BY DEF RunnerState
    <3>2. runner' = [runner EXCEPT ![r] = run] /\ UNCHANGED <<tracked, seeded>>
      BY <1>1, <1>11, <2>2 DEF RunBody, Continue
    <3> HIDE DEF run
    <3> QED
      BY <1>4, <3>1, <3>2
  <2> QED
    BY <1>11, <2>1, <2>2 DEF RunBody
<1>12. CASE Insert(r)
  <2>1. [R EXCEPT !.at = "inserted"].at = "inserted"
        /\ [R EXCEPT !.at = "inserted"].found = R.found
    BY Remembers
  <2> QED
    BY <1>1, <1>3, <1>4, <1>12, <2>1 DEF Insert, EndRun, Continue
<1>13. CASE Commit(r)
  <2>1. /\ runner' = [runner EXCEPT ![r] = NextFile(R)] /\ seeded' = seeded
        /\ Applied(r) /\ runner[r].at = "inserted"
    BY <1>1, <1>13 DEF Commit, Continue
  <2> QED
    BY <1>2, <1>5, <1>6, <2>1 DEF RunnerGoes
<1>14. CASE EndFiles(r)
  <2>1. /\ \A f \in Order : tracked[f] # 0
        /\ UNCHANGED <<tracked, seeded>>
    <3>1. R.at = "files" /\ R.at \in Working /\ R.file > Files
      BY <1>1, <1>14 DEF EndFiles, Working
    <3>2. \A f \in Order : f < R.file
      BY <3>1, MigrationAssumption DEF Order, RunnerState
    <3> QED
      BY <1>0, <1>1, <1>14, <3>1, <3>2 DEF EndFiles, Behind
  <2>2. CASE r \in Seeders
    BY <1>3, <1>14, <2>2 DEF EndFiles, Continue
  <2>3. CASE r \notin Seeders
    <3>1. runner' = [runner EXCEPT ![r] = [Idle EXCEPT !.at = "done"]]
      BY <1>14, <2>3 DEF EndFiles, EndRun, Continue
    <3> QED
      BY <2>1, <2>3, <3>1, EndsAs DEF RunnerGoes
  <2> QED
    BY <2>2, <2>3
<1>15. CASE Count(r)
  <2>1. PICK t \in Tables \ R.counted :
          Continue(r, [R EXCEPT !.counted = R.counted \cup {t}, !.found = R.found \/ t \in seeded])
    BY <1>1, <1>15 DEF Count
  <2> DEFINE found == R.found \/ t \in seeded
  <2>2. found => seeded # {}
    BY <1>2
  <2>3. R.at = "count" /\ UNCHANGED <<tracked, seeded>>
    BY <1>1, <1>15 DEF Count
  <2> DEFINE run == [R EXCEPT !.counted = R.counted \cup {t}, !.found = found]
  <2>4. runner' = [runner EXCEPT ![r] = run]
    BY <2>1 DEF Continue
  <2> HIDE DEF found
  <2>5. run.at = R.at /\ run.found = found
    BY DEF RunnerState
  <2> HIDE DEF run
  <2> QED
    BY <2>2, <2>3, <2>4, <2>5 DEF RunnerGoes
<1>16. CASE Seed(r) \/ SkipSeed(r)
  <2>1. /\ runner' = [runner EXCEPT ![r] = [Idle EXCEPT !.at = "done"]]
        /\ tracked' = tracked /\ seeded' = Tables
    <3>1. CASE Seed(r)
      BY <3>1 DEF Seed, EndRun, Continue
    <3>2. CASE SkipSeed(r)
      BY <1>0, <1>1, <1>2, <3>2 DEF SkipSeed, EndRun, Continue
    <3> QED
      BY <1>16, <3>1, <3>2
  <2>2. \A f \in Order : tracked[f] # 0
    BY <1>0, <1>16 DEF Seed, SkipSeed, Behind
  <2> QED
    BY <2>1, <2>2, EndsAs DEF RunnerGoes
<1>17. CASE Die(r)
  BY <1>3, <1>17 DEF Die
<1>18. CASE DieCommitted(r)
  BY <1>5, <1>18, EndsAs DEF DieCommitted, RunnerGoes
<1> QED
  BY <1>7, <1>8, <1>9, <1>10, <1>11, <1>12, <1>13, <1>14, <1>15, <1>16, <1>17, <1>18
     DEF RunnerStep

LEMMA MigrationKeepsPromises ==
  ASSUME SchemaInv, \A r \in Runners : Outcome(r), MigrationNext
  PROVE  /\ SchemaInv' /\ (\A r \in Runners : Outcome(r)') /\ (SchemaIsThere => SchemaIsThere')
<1>1. SchemaInv'
  BY StepIsWhole
<1>2. CASE \E f \in Order : Edit(f)
  BY <1>1, <1>2 DEF Edit, Outcome, SchemaIsThere
<1>3. ASSUME NEW r \in Runners, Run(r) \/ RunnerStep(r) \/ Die(r) \/ DieCommitted(r)
      PROVE  (\A q \in Runners : Outcome(q)') /\ (SchemaIsThere => SchemaIsThere')
  <2>1. PICK run : RunnerGoes(r, run)
    BY <1>3, SchemaGrows
  <2>2. runner' = [runner EXCEPT ![r] = run]
    BY <2>1 DEF RunnerGoes
  <2>3. runner'[r] = run /\ \A q \in Runners \ {r} : runner'[q] = runner[q]
    BY <2>2 DEF SchemaInv, MigrationTypeOK
  <2>4. (seeded # {} => seeded' # {}) /\ (seeded = Tables => seeded' = Tables)
    BY <2>1 DEF RunnerGoes, SchemaInv, DatabaseIsWhole
  <2>5. \A q \in Runners : Outcome(q)'
    <3> SUFFICES ASSUME NEW q \in Runners PROVE Outcome(q)'
      OBVIOUS
    <3>1. CASE q = r
      BY <2>1, <2>3, <3>1 DEF Outcome, RunnerGoes, Order
    <3>2. CASE q # r
      <4>1. Outcome(q) /\ runner'[q] = runner[q]
        BY <2>3, <3>2
      <4> QED
        BY <2>1, <2>4, <4>1 DEF Outcome, RunnerGoes, Order
    <3> QED
      BY <3>1, <3>2
  <2> QED
    BY <2>1, <2>4, <2>5 DEF SchemaIsThere, RunnerGoes, Order
<1> QED
  BY <1>1, <1>2, <1>3 DEF MigrationNext

(* Nothing happens to the database, and faults are counted.                  *)
SchemaRests ==
  /\ UNCHANGED <<disk, tracked, effect, seeded, runner, runs>>
  /\ faults' \in 0 .. MaxFaults /\ faults' >= faults

LEMMA RestKeepsPromises ==
  ASSUME SchemaInv, \A r \in Runners : Outcome(r), SchemaRests
  PROVE  /\ SchemaInv' /\ (\A r \in Runners : Outcome(r)') /\ (SchemaIsThere => SchemaIsThere')
<1>1. MigrationTypeOK'
  BY DEF SchemaInv, MigrationTypeOK, SchemaRests
<1>2. EditsAreCounted'
  BY DEF SchemaInv, MigrationTypeOK, EditsAreCounted, SchemaRests, Versions, Order
<1>3. /\ (\A r \in Runners : Behind(r)' /\ Pending(r)') /\ OneHolder' /\ DatabaseIsWhole'
  BY DEF SchemaInv, SchemaRests, Behind, Pending, OneHolder, DatabaseIsWhole
<1>4. (\A r \in Runners : Outcome(r)') /\ (SchemaIsThere => SchemaIsThere')
  BY DEF SchemaRests, Outcome, SchemaIsThere
<1> QED
  BY <1>1, <1>2, <1>3, <1>4 DEF SchemaInv

ProcStates == {"none", "listening", "draining", "closing", "exited"}
RequestStates == {"none", "connected", "left"}
TickStates == {"idle", "transaction", "between"}

(* One process moves, and starts only when the migrator has ended well.      *)
ProcessMoves(s) ==
  /\ proc' \in [Servers -> ProcStates] /\ request' \in [Servers -> RequestStates]
  /\ tick' \in [Servers -> TickStates]
  /\ \A q \in Servers \ {s} : proc'[q] = proc[q] /\ request'[q] = request[q] /\ tick'[q] = tick[q]
  /\ Started(s) => Started(s)'
  /\ Started(s)' => Started(s) \/ MigratorSucceeded
  /\ UNCHANGED <<probe, monitor>>

LEMMA SuccessIsSchema ==
  ASSUME DeploymentInv, MigratorSucceeded
  PROVE  SchemaIsThere
BY DeploymentAssumption, MigrationAssumption
   DEF DeploymentInv, MigratorSucceeded, Outcome, SchemaIsThere

LEMMA ServicesAreServers == Services \subseteq Servers /\ Gateway \in Servers /\ Gateway \notin Services
BY DeploymentAssumption DEF Servers, Gateway, AllServices

LEMMA ProcessMovesInOrder ==
  ASSUME DeploymentInv, NEW s \in Servers, ProcessMoves(s), SchemaRests
  PROVE  DeploymentInv'
<1>1. /\ SchemaInv' /\ (\A r \in Runners : Outcome(r)') /\ (SchemaIsThere => SchemaIsThere')
  BY RestKeepsPromises DEF DeploymentInv
<1>2. ProcessesAreTyped'
  BY DEF DeploymentInv, ProcessesAreTyped, ProcessMoves, ProcStates, RequestStates, TickStates
<1>3. ASSUME NEW q \in Servers
      PROVE  (Started(q) => Started(q)') /\ (Started(q)' => Started(q) \/ MigratorSucceeded)
  <2>1. CASE q = s
    BY <2>1 DEF ProcessMoves
  <2>2. CASE q # s
    BY <2>2 DEF ProcessMoves, DeploymentInv, Started
  <2> QED
    BY <2>1, <2>2
<1>4. (\E q \in Servers : Started(q)') => SchemaIsThere'
  BY <1>1, <1>3, SuccessIsSchema DEF DeploymentInv
<1>5. ChecksAreTrue'
  BY <1>3, ServicesAreServers DEF ProcessMoves, DeploymentInv, ChecksAreTrue
<1> QED
  BY <1>1, <1>2, <1>3, <1>4, <1>5, ServicesAreServers DEF DeploymentInv, Servers

LEMMA FaultsAreTyped ==
  ASSUME DeploymentInv
  PROVE  /\ faults \in 0 .. MaxFaults
         /\ UNCHANGED migrationVars => SchemaRests
         /\ Fault /\ UNCHANGED <<disk, tracked, effect, seeded, runner, runs>> => SchemaRests
<1>1. faults \in 0 .. MaxFaults
  BY DEF DeploymentInv, SchemaInv, MigrationTypeOK
<1>2. UNCHANGED migrationVars => SchemaRests
  BY <1>1 DEF migrationVars, SchemaRests
<1>3. Fault /\ UNCHANGED <<disk, tracked, effect, seeded, runner, runs>> => SchemaRests
  BY <1>1, MigrationAssumption DEF Fault, SchemaRests
<1> QED
  BY <1>1, <1>2, <1>3

LEMMA ServerIs ==
  ASSUME DeploymentInv, NEW s \in Servers
  PROVE  /\ proc \in [Servers -> ProcStates] /\ request \in [Servers -> RequestStates]
         /\ tick \in [Servers -> TickStates]
BY DEF DeploymentInv, ProcessesAreTyped, ProcStates, RequestStates, TickStates

(* What a process does, one thing at a time.                                 *)
LEMMA ServerStepMoves ==
  ASSUME DeploymentInv, NEW s \in Servers,
         ProcessStep(s) \/ Signal(s) \/ (s = Gateway /\ (BootGateway \/ BootFails))
  PROVE  ProcessMoves(s)
<1> USE ServerIs
<1>1. CASE Boot(s)
  BY <1>1 DEF Boot, ProcessMoves, Started, ProcStates, RequestStates, TickStates
<1>2. CASE s = Gateway /\ BootGateway
  BY <1>2 DEF BootGateway, ProcessMoves, Started, ProcStates
<1>3. CASE s = Gateway /\ BootFails
  BY <1>3 DEF BootFails, ProcessMoves, Started, ProcStates
<1>4. CASE Accept(s)
  BY <1>4 DEF Accept, ProcessMoves, Started, RequestStates
<1>5. CASE Answer(s)
  BY <1>5 DEF Answer, ProcessMoves, Started, RequestStates
<1>6. CASE TickBegin(s)
  BY <1>6 DEF TickBegin, ProcessMoves, Started, TickStates
<1>7. CASE TickCommit(s)
  <2>1. PICK next \in {"between", "idle"} : tick' = [tick EXCEPT ![s] = next]
    BY <1>7 DEF TickCommit
  <2> QED
    BY <1>7, <2>1 DEF TickCommit, ProcessMoves, Started, TickStates
<1>8. CASE TickContinue(s)
  BY <1>8 DEF TickContinue, ProcessMoves, Started, TickStates
<1>9. CASE Close(s)
  BY <1>9 DEF Close, ProcessMoves, Started, ProcStates
<1>10. CASE Exit(s)
  BY <1>10 DEF Exit, Stop, ProcessMoves, Started, ProcStates, RequestStates
<1>11. CASE Deadline(s)
  BY <1>11 DEF Deadline, Stop, ProcessMoves, Started, ProcStates, RequestStates
<1>12. CASE Signal(s)
  BY <1>12 DEF Signal, ProcessMoves, Started, ProcStates
<1>13. CASE HangUp(s)
  BY <1>13 DEF HangUp, ProcessMoves, Started, RequestStates
<1> QED
  BY <1>1, <1>2, <1>3, <1>4, <1>5, <1>6, <1>7, <1>8, <1>9, <1>10, <1>11, <1>12, <1>13
     DEF ProcessStep, TickStep

(* The checks of /ready do not go round in a circle, so there is one answer, *)
(* and a service that is ready has started.                                  *)
LEMMA ReadyIsStarted ==
  ASSUME NEW s \in Services, Ready[s]
  PROVE  Started(s)
<1> DEFINE Up(t) == proc[t] = "listening"
           alone == [t \in Services |-> Up(t)]
           next == [t \in Services |-> Up(t) /\ \A n \in Needs(t) : alone[n]]
           all == [t \in Services |-> Up(t) /\ \A n \in Needs(t) : next[n]]
<1>1. /\ \A t \in Services : Needs(t) \subseteq Services
      /\ \A t \in Services : t \notin {"catalog", "orders"} => Needs(t) = {}
      /\ \A t \in Services : t = "catalog" => Needs(t) \subseteq {"payments"}
      /\ \A t \in Services : t = "orders" => Needs(t) \subseteq {"catalog", "inventory", "payments"}
  BY DEF Needs, CatalogNeeds, OrdersNeeds
<1>2. \A t \in Services : t # "orders" => all[t] = next[t]
  BY <1>1
<1>3. \A t \in Services : t # "orders" /\ t # "catalog" => next[t] = alone[t]
  BY <1>1
<1>4. all = [t \in Services |-> Up(t) /\ \A n \in Needs(t) : all[n]]
  <2>1. ASSUME NEW t \in Services
        PROVE  (\A n \in Needs(t) : all[n]) <=> (\A n \in Needs(t) : next[n])
    BY <1>1, <1>2
  <2> QED
    BY <2>1
<1> DEFINE IsReady(f) == f = [t \in Services |-> proc[t] = "listening" /\ \A n \in Needs(t) : f[n]]
<1>5. IsReady(all)
  BY <1>4
<1>6. Ready = CHOOSE f : IsReady(f)
  BY DEF Ready
<1> HIDE DEF all, Answers
<1>7. IsReady(Ready)
  BY <1>5, <1>6
<1>8. Ready = [t \in Services |-> proc[t] = "listening" /\ \A n \in Needs(t) : Ready[n]]
  BY <1>7 DEF Answers
<1>9. proc[s] = "listening"
  BY <1>8
<1> QED
  BY <1>9 DEF Started

(* The health check goes on, or the monitor is started.                      *)
LEMMA ProbingIsInOrder ==
  ASSUME DeploymentInv, Probing, SchemaRests
  PROVE  DeploymentInv'
<1>1. /\ SchemaInv' /\ (\A r \in Runners : Outcome(r)') /\ (SchemaIsThere => SchemaIsThere')
  BY RestKeepsPromises DEF DeploymentInv
<1>2. UNCHANGED <<proc, request, tick>>
  BY DEF Probing, ProbeBegin, ProbeAnswer, ProbeEnd
<1>3. (\E s \in Servers : Started(s)') => SchemaIsThere'
  BY <1>1, <1>2 DEF DeploymentInv, Started
<1>4. probe \in ProbeState /\ monitor \in BOOLEAN
  BY DEF DeploymentInv, ProcessesAreTyped
<1>5. probe' \in ProbeState /\ monitor' \in BOOLEAN /\ ChecksAreTrue'
  <2>1. CASE ProbeBegin
    <3>1. /\ probe' = [on |-> TRUE, asked |-> Services, failed |-> FALSE] /\ monitor' = monitor
      BY <2>1 DEF ProbeBegin
    <3> QED
      BY <1>2, <1>4, <3>1 DEF ProbeState, DeploymentInv, ChecksAreTrue, Started
  <2>2. ASSUME NEW s \in Services, ProbeAnswer(s)
        PROVE  probe' \in ProbeState /\ monitor' \in BOOLEAN /\ ChecksAreTrue'
    <3> DEFINE wrong == probe.failed \/ ~Ready[s]
    <3>1. /\ probe' = [probe EXCEPT !.asked = probe.asked \ {s}, !.failed = wrong]
          /\ probe.on /\ monitor' = monitor
      BY <2>2 DEF ProbeAnswer
    <3>2. wrong \in BOOLEAN /\ (~wrong => ~probe.failed /\ Started(s))
      BY <1>4, ReadyIsStarted DEF ProbeState
    <3> HIDE DEF wrong
    <3>3. /\ probe' \in ProbeState /\ probe'.on = probe.on
          /\ probe'.asked = probe.asked \ {s} /\ probe'.failed = wrong
      BY <1>4, <3>1, <3>2 DEF ProbeState
    <3> QED
      BY <1>2, <1>4, <3>1, <3>2, <3>3 DEF DeploymentInv, ChecksAreTrue, Started
  <2>3. CASE ProbeEnd
    <3>1. /\ probe.on /\ probe.asked = {} /\ probe' = NoProbe /\ monitor' = ~probe.failed
      BY <2>3 DEF ProbeEnd
    <3>2. probe' \in ProbeState /\ probe'.on = FALSE
      BY <3>1 DEF NoProbe, ProbeState
    <3> QED
      BY <1>2, <1>4, <3>1, <3>2 DEF DeploymentInv, ChecksAreTrue, Started
  <2> QED
    BY <2>1, <2>2, <2>3 DEF Probing
<1>6. ProcessesAreTyped'
  BY <1>2, <1>5 DEF DeploymentInv, ProcessesAreTyped
<1> QED
  BY <1>1, <1>3, <1>5, <1>6 DEF DeploymentInv

LEMMA NothingMoves ==
  ASSUME DeploymentInv, UNCHANGED <<migrationVars, deploymentVars>>
  PROVE  DeploymentInv'
<1>1. SchemaRests
  BY FaultsAreTyped
<1>2. /\ SchemaInv' /\ (\A r \in Runners : Outcome(r)') /\ (SchemaIsThere => SchemaIsThere')
  BY <1>1, RestKeepsPromises DEF DeploymentInv
<1> QED
  BY <1>2 DEF DeploymentInv, deploymentVars, ProcessesAreTyped, Started, ChecksAreTrue

LEMMA DeploymentGoesOn ==
  ASSUME DeploymentInv, [DeploymentNext]_<<migrationVars, deploymentVars>>
  PROVE  DeploymentInv'
<1>1. CASE MigrationNext /\ UNCHANGED deploymentVars
  <2>1. /\ SchemaInv' /\ (\A r \in Runners : Outcome(r)') /\ (SchemaIsThere => SchemaIsThere')
    BY <1>1, MigrationKeepsPromises DEF DeploymentInv
  <2> QED
    BY <1>1, <2>1 DEF DeploymentInv, deploymentVars, ProcessesAreTyped, Started,
                      ChecksAreTrue
<1>2. ASSUME NEW s \in Servers, ProcessStep(s), UNCHANGED migrationVars
      PROVE  DeploymentInv'
  BY <1>2, ServerStepMoves, ProcessMovesInOrder, FaultsAreTyped
<1>3. CASE BootGateway /\ UNCHANGED migrationVars
  BY <1>3, ServerStepMoves, ProcessMovesInOrder, FaultsAreTyped, ServicesAreServers
<1>4. CASE Probing /\ UNCHANGED migrationVars
  BY <1>4, ProbingIsInOrder, FaultsAreTyped
<1>5. CASE Outside /\ UNCHANGED <<disk, tracked, effect, seeded, runner, runs>>
  <2>1. SchemaRests
    BY <1>5, FaultsAreTyped DEF Outside, BootFails, Signal
  <2>2. CASE BootFails
    BY <2>1, <2>2, ServerStepMoves, ProcessMovesInOrder, ServicesAreServers
  <2>3. ASSUME NEW s \in Servers, Signal(s) PROVE DeploymentInv'
    BY <2>1, <2>3, ServerStepMoves, ProcessMovesInOrder
  <2> QED
    BY <1>5, <2>2, <2>3 DEF Outside
<1>6. CASE UNCHANGED <<migrationVars, deploymentVars>>
  BY <1>6, NothingMoves
<1> QED
  BY <1>1, <1>2, <1>3, <1>4, <1>5, <1>6 DEF DeploymentNext

LEMMA DeploymentInvariant == DeploymentSpec => []DeploymentInv
<1>1. DeploymentInit => DeploymentInv
  BY ProcessesBegin
<1>2. DeploymentInv /\ [DeploymentNext]_<<migrationVars, deploymentVars>> => DeploymentInv'
  BY DeploymentGoesOn
<1> QED
  BY <1>1, <1>2, PTL DEF DeploymentSpec

(* Processes, jobs, the health check and the database under them are only    *)
(* ever in the states the code has for them.                                 *)
THEOREM DeploymentTypeCorrect == DeploymentSpec => []DeploymentTypeOK
<1>1. DeploymentInv => DeploymentTypeOK
  BY DEF DeploymentInv, ProcessesAreTyped, ProbeState, SchemaInv, DeploymentTypeOK
<1> QED
  BY <1>1, DeploymentInvariant, PTL

(* Whatever runs of the migrations overlap, die or are repeated by hand, no  *)
(* process starts before the whole schema and the seed are there, and the    *)
(* monitor not before every service (docker-compose.yml:30-149).             *)
THEOREM NothingEverStartsTooEarly == DeploymentSpec => []NothingStartsTooEarly
<1>1. DeploymentInv => NothingStartsTooEarly
  BY DEF DeploymentInv, NothingStartsTooEarly, SchemaIsThere, Migrated, ChecksAreTrue, Started
<1> QED
  BY <1>1, DeploymentInvariant, PTL

(* Bringing the system up and taking it down leaves the migrations what they *)
(* are: the database stays whole under a deployment, too.                    *)
THEOREM DeploymentKeepsDatabaseWhole == DeploymentSpec => []DatabaseIsWhole
<1>1. DeploymentInv => DatabaseIsWhole
  BY DEF DeploymentInv, SchemaInv
<1> QED
  BY <1>1, DeploymentInvariant, PTL

-------------------------------------------------------------------------------
(* The traffic of the monitor *)

Mutation == "price-rule-mutation"

ClientState ==
  [by : Names \cup {Nobody}, tries : 0 .. ClientTries, is : {"awaited", "orphan", "gone"}]

(* A slot without a call has no client, and a client that waits for an       *)
(* answer has a scenario.                                                    *)
Claimed(s) ==
  /\ client[s] \in ClientState
  /\ call[s].at = "free" => client[s] = NoClient
  /\ client[s].is # "gone" => client[s].by # Nobody

MonitorIsTyped ==
  /\ schedule \in Seq(Names) /\ fires \in 0 .. MaxFires
  /\ client \in [Slots -> ClientState]
  /\ stage \in [Names -> 0 .. 3]
  /\ alerts \in [Names -> Nat] /\ alerted \in [Names -> BOOLEAN]
  /\ rules \in Int /\ interrupted \in Nat

StageIsAwaited(n) ==
  IF Running(n)
    THEN /\ stage[n] \in DOMAIN Script(n)
         /\ Cardinality(Awaited(n)) = Script(n)[stage[n]].calls
         /\ \A s \in Awaited(n) : call[s].method = Script(n)[stage[n]].method
    ELSE Awaited(n) = {}

Orphans(n) == {s \in Slots : client[s].by = n /\ client[s].is = "orphan"}
MakesSeveral(n) == \E i \in DOMAIN Script(n) : Script(n)[i].calls > 1

AlertsAreCounted(n) ==
  /\ alerted[n] => alerts[n] > 0
  /\ Orphans(n) # {} => alerts[n] > 0 /\ MakesSeveral(n)

(* What a service may still do for a call: a write does it at most once.     *)
CanCarry(c) == c.at \in {"arrived", "known", "forward", "upstream"} \/ c.late > 0

(* Rules that may still be created, and the rule of the run at work deleted. *)
Creating == {s \in Slots : client[s].by = Mutation /\ call[s].method = "POST" /\ CanCarry(call[s])}
Deleted == \E s \in Awaited(Mutation) : call[s].method = "DELETE" /\ call[s].carried > 0

(* The one rule of the run at work.                                          *)
Own == IF Running(Mutation) /\ ~alerted[Mutation] /\ ~Deleted THEN 1 ELSE 0

RulesAreCovered == rules + Cardinality(Creating) <= alerts[Mutation] + interrupted + Own

TrafficInv ==
  /\ CallsInv /\ MonitorIsTyped
  /\ (\A s \in Slots : Claimed(s))
  /\ (\A n \in Names : StageIsAwaited(n) /\ AlertsAreCounted(n))
  /\ RulesAreCovered

-------------------------------------------------------------------------------
(* A finite set has subsets of every size up to its own.                     *)
LEMMA SubsetOfSize ==
  ASSUME NEW S, IsFiniteSet(S), NEW n \in Nat, n <= Cardinality(S)
  PROVE  \E T \in SUBSET S : Cardinality(T) = n
<1>1. Cardinality(S) \in Nat /\ ExistsBijection(1 .. Cardinality(S), S)
  BY FS_CardinalityType
<1>2. PICK f : f \in Bijection(1 .. Cardinality(S), S)
  BY <1>1, Fun_ExistsBij
<1>3. 1 .. n \in SUBSET (1 .. Cardinality(S))
  BY <1>1
<1> DEFINE g == Restrict(f, 1 .. n)
<1>4. g \in Bijection(1 .. n, Range(g))
  BY <1>2, <1>3, Fun_BijRestrict
<1>5. f \in [1 .. Cardinality(S) -> S]
  BY <1>2, Fun_BijectionProperties
<1>6. g \in [1 .. n -> S]
  BY <1>3, <1>5, Fun_RestrictProperties
<1> HIDE DEF g
<1>7. Range(g) \subseteq S
  BY <1>6, Fun_RangeProperties
<1>8. ExistsBijection(1 .. n, Range(g))
  BY <1>4, Fun_ExistsBij
<1>9. Cardinality(Range(g)) = n
  BY <1>8, FS_CountingElements
<1> QED
  BY <1>7, <1>9

LEMMA SlotsAreCounted ==
  ASSUME NEW T, T \subseteq Slots
  PROVE  IsFiniteSet(T) /\ Cardinality(T) \in Nat
<1>1. IsFiniteSet(T)
  BY MonitorAssumption, FS_Subset
<1> QED
  BY <1>1, FS_CardinalityType

LEMMA NamesAre ==
  /\ Names = {"browse-catalog", "price-lookup", "order-burst", "price-rule-mutation",
              "payment-retry-storm", "cancellations", "settlement-report"}
  /\ Mutation \in Names /\ Nobody \notin Names
BY DEF Names, Scenarios, Mutation, Nobody

(* Every stage makes a call.                                                 *)
LEMMA StagesAre ==
  ASSUME NEW n \in Names
  PROVE  /\ DOMAIN Script(n) = 1 .. Len(Script(n)) /\ Len(Script(n)) \in 1 .. 3
         /\ \A i \in DOMAIN Script(n) :
              Script(n)[i].calls \in Nat \ {0} /\ Script(n)[i].method \in Methods
<1> USE MonitorAssumption DEF Script, Stage, Methods
<1>1. CASE n = "browse-catalog"
  BY <1>1 DEF BrowseCatalog
<1>2. CASE n = "price-lookup"
  BY <1>2 DEF PriceLookup
<1>3. CASE n = "order-burst"
  BY <1>3 DEF OrderBurst
<1>4. CASE n = "price-rule-mutation"
  BY <1>4 DEF PriceRuleMutation
<1>5. CASE n = "payment-retry-storm"
  BY <1>5 DEF PaymentRetryStorm
<1>6. CASE n = "cancellations"
  BY <1>6 DEF Cancellations
<1>7. CASE n = "settlement-report"
  BY <1>7 DEF SettlementReport
<1> QED
  BY <1>1, <1>2, <1>3, <1>4, <1>5, <1>6, <1>7, NamesAre

LEMMA MutationIs ==
  /\ Len(Script(Mutation)) = 3 /\ DOMAIN Script(Mutation) = 1 .. 3
  /\ Script(Mutation)[1].method = "POST" /\ Script(Mutation)[1].calls = 1
  /\ Script(Mutation)[2].method = "GET" /\ Script(Mutation)[2].calls = 1
  /\ Script(Mutation)[3].method = "DELETE" /\ Script(Mutation)[3].calls = 1
  /\ \A i : GoesOn(Mutation, i) => i = 2
BY DEF Mutation, Script, PriceRuleMutation, Stage, GoesOn

LEMMA ClientsAre ==
  /\ NoClient \in ClientState /\ NoClient.by = Nobody /\ NoClient.is = "gone"
  /\ \A n \in Names :
       /\ [by |-> n, tries |-> 1, is |-> "awaited"] \in ClientState
       /\ [by |-> n, tries |-> 1, is |-> "awaited"] # NoClient
BY MonitorAssumption DEF NoClient, ClientState

LEMMA TrafficBegins == GatewayInit /\ MonitorInit(Seq(Names) \ {<<>>}) => TrafficInv
<1> SUFFICES ASSUME GatewayInit, MonitorInit(Seq(Names) \ {<<>>}) PROVE TrafficInv
  OBVIOUS
<1>1. CallsInv
  BY InitIsHonest
<1>2. /\ schedule \in Seq(Names) /\ fires = 0 /\ rules = 0
      /\ stage = [n \in Names |-> 0] /\ client = [s \in Slots |-> NoClient]
      /\ alerts = [n \in Names |-> 0] /\ alerted = [n \in Names |-> FALSE] /\ interrupted = 0
  BY DEF MonitorInit
<1>3. MonitorIsTyped
  BY <1>2, ClientsAre, MonitorAssumption DEF MonitorIsTyped
<1>4. \A s \in Slots : Claimed(s)
  BY <1>2, ClientsAre DEF Claimed
<1>5. \A n \in Names : StageIsAwaited(n) /\ AlertsAreCounted(n)
  BY <1>2, ClientsAre DEF StageIsAwaited, AlertsAreCounted, Running, Awaited, Orphans
<1>6. Creating = {}
  BY <1>2, ClientsAre, NamesAre DEF Creating
<1>7. RulesAreCovered
  <2>1. alerts[Mutation] = 0 /\ Own \in Nat
    BY <1>2, NamesAre DEF Own
  <2> QED
    BY <1>2, <1>6, <2>1, FS_EmptySet DEF RulesAreCovered
<1> QED
  BY <1>1, <1>3, <1>4, <1>5, <1>7 DEF TrafficInv


-------------------------------------------------------------------------------
(* What the gateway and the services make of a call: it is carried out, or   *)
(* can be carried out only if it could before.                               *)
WorkedOn(c, d) ==
  /\ c.at # "free" /\ d.at # "free" /\ d.method = c.method
  /\ \/ d.carried = c.carried /\ (c.method # "GET" /\ CanCarry(d) => CanCarry(c))
     \/ d.carried = c.carried + 1 /\ CanCarry(c)

LEMMA AnsweredIs ==
  ASSUME NEW c \in CallState, NEW at \in {"answered", "known", "forward", "lost"}, NEW answer
  PROVE  /\ [c EXCEPT !.at = at].at = at /\ [c EXCEPT !.at = at].method = c.method
         /\ [c EXCEPT !.at = at].late = c.late /\ [c EXCEPT !.at = at].carried = c.carried
         /\ [c EXCEPT !.at = at, !.answer = answer].at = at
         /\ [c EXCEPT !.at = at, !.answer = answer].method = c.method
         /\ [c EXCEPT !.at = at, !.answer = answer].late = c.late
         /\ [c EXCEPT !.at = at, !.answer = answer].carried = c.carried
BY DEF CallState

(* Given up, repeated or answered.                                           *)
LEMMA GivenUpIs ==
  ASSUME NEW c \in CallState
  PROVE  /\ GivenUp(c).method = c.method /\ GivenUp(c).carried = c.carried
         /\ GivenUp(c).at = c.at
         /\ GivenUp(c).late > 0 => c.at = "upstream" \/ c.late > 0
<1>1. CASE c.at = "upstream" /\ c.method # "GET"
  <2> DEFINE d == [c EXCEPT !.late = @ + 1]
  <2>1. d.method = c.method /\ d.carried = c.carried /\ d.at = c.at
    BY DEF CallState
  <2>2. GivenUp(c) = d
    BY <1>1 DEF GivenUp
  <2> HIDE DEF d
  <2> QED
    BY <1>1, <2>1, <2>2
<1>2. CASE ~(c.at = "upstream" /\ c.method # "GET")
  BY <1>2 DEF GivenUp
<1> QED
  BY <1>1, <1>2

LEMMA GatewayStepGoesOn ==
  ASSUME CallsInv, NEW s \in Slots, GatewayStep(s)
  PROVE  \E d : call' = [call EXCEPT ![s] = d] /\ WorkedOn(call[s], d)
<1>1. PICK c \in CallState : c = call[s]
  BY CallIsSound
<1>2. Sound(c) /\ c.late \in Nat /\ c.carried \in Nat
  BY <1>1, CallIsSound
<1>3. c.at = "free" => c.late = 0
  BY <1>2 DEF Sound, AttemptsAreCounted
<1>4. ASSUME NEW at \in {"answered", "known", "forward"}, c.at # "free",
             at # "answered" => c.at \in {"arrived", "known"},
             Goes(s, [call[s] EXCEPT !.at = at])
      PROVE  \E d : call' = [call EXCEPT ![s] = d] /\ WorkedOn(call[s], d)
  <2> DEFINE d == [c EXCEPT !.at = at]
  <2>1. d.at = at /\ d.method = c.method /\ d.late = c.late /\ d.carried = c.carried
    BY AnsweredIs
  <2>2. call' = [call EXCEPT ![s] = d]
    BY <1>1, <1>4 DEF Goes
  <2> HIDE DEF d
  <2>3. WorkedOn(c, d)
    BY <1>4, <2>1 DEF WorkedOn, CanCarry
  <2> QED
    BY <1>1, <2>2, <2>3
<1>5. ASSUME NEW answer, c.at # "free", Goes(s, Answered(s, answer))
      PROVE  \E d : call' = [call EXCEPT ![s] = d] /\ WorkedOn(call[s], d)
  <2> DEFINE d == [c EXCEPT !.at = "answered", !.answer = answer]
  <2>1. d.at = "answered" /\ d.method = c.method /\ d.late = c.late /\ d.carried = c.carried
    BY AnsweredIs
  <2>2. call' = [call EXCEPT ![s] = d]
    BY <1>1, <1>5 DEF Goes, Answered
  <2> HIDE DEF d
  <2>3. WorkedOn(c, d)
    BY <1>5, <2>1 DEF WorkedOn, CanCarry
  <2> QED
    BY <1>1, <2>2, <2>3
<1>6. ASSUME NEW next \in CallState, NEW answer, Again(s, next, answer), c.at # "free",
             next.method = c.method, next.carried = c.carried,
             next.late > 0 => c.at = "upstream" \/ c.late > 0
      PROVE  \E d : call' = [call EXCEPT ![s] = d] /\ WorkedOn(call[s], d)
  <2>1. CASE MayRepeat(next)
    <3> DEFINE d == [next EXCEPT !.at = "forward"]
    <3>1. d.at = "forward" /\ d.method = c.method /\ d.carried = c.carried
      BY <1>6, AnsweredIs
    <3>2. call' = [call EXCEPT ![s] = d] /\ next.method = "GET"
      BY <1>6, <2>1 DEF Again, Goes, MayRepeat
    <3> HIDE DEF d
    <3>3. WorkedOn(c, d)
      BY <1>6, <3>1, <3>2 DEF WorkedOn
    <3> QED
      BY <1>1, <3>2, <3>3
  <2>2. CASE ~MayRepeat(next)
    <3> DEFINE d == [next EXCEPT !.at = "answered", !.answer = answer]
    <3>1. d.at = "answered" /\ d.method = c.method /\ d.carried = c.carried /\ d.late = next.late
      BY <1>6, AnsweredIs
    <3>2. call' = [call EXCEPT ![s] = d]
      BY <1>6, <2>2 DEF Again, Goes
    <3> HIDE DEF d
    <3>3. WorkedOn(c, d)
      BY <1>6, <3>1 DEF WorkedOn, CanCarry
    <3> QED
      BY <1>1, <3>2, <3>3
  <2> QED
    BY <2>1, <2>2
<1>7. CASE Authenticate(s)
  BY <1>1, <1>4, <1>5, <1>7 DEF Authenticate
<1>8. CASE LimitRate(s)
  BY <1>1, <1>4, <1>5, <1>8 DEF LimitRate
<1>9. CASE Forward(s)
  <2> DEFINE d == [c EXCEPT !.at = "upstream", !.attempts = @ + 1]
  <2>1. d.at = "upstream" /\ d.method = c.method /\ d.late = c.late /\ d.carried = c.carried
    BY DEF CallState
  <2>2. call' = [call EXCEPT ![s] = d] /\ c.at = "forward"
    BY <1>1, <1>9 DEF Forward, Goes
  <2> HIDE DEF d
  <2>3. WorkedOn(c, d)
    BY <2>1, <2>2 DEF WorkedOn, CanCarry
  <2> QED
    BY <1>1, <2>2, <2>3
<1>10. CASE Carry(s)
  <2> DEFINE d == [c EXCEPT !.at = "carried", !.carried = @ + 1]
  <2>1. d.at = "carried" /\ d.method = c.method /\ d.carried = c.carried + 1
    BY DEF CallState
  <2>2. call' = [call EXCEPT ![s] = d] /\ c.at = "upstream"
    BY <1>1, <1>10 DEF Carry, Goes
  <2> HIDE DEF d
  <2>3. WorkedOn(c, d)
    BY <2>1, <2>2 DEF WorkedOn, CanCarry
  <2> QED
    BY <1>1, <2>2, <2>3
<1>11. CASE Respond(s)
  BY <1>1, <1>5, <1>11 DEF Respond
<1>12. CASE Reject(s)
  BY <1>1, <1>5, <1>12 DEF Reject
<1>13. CASE NoConnection(s)
  <2> DEFINE next == [c EXCEPT !.attempts = @ + 1]
  <2>1. c.attempts + 1 \in 0 .. Retries + 1
    BY <1>1, <1>2, <1>13, GatewayAssumption
       DEF NoConnection, Sound, AttemptsAreCounted, CallState
  <2>2. /\ next \in CallState /\ next.method = c.method /\ next.carried = c.carried
        /\ next.late = c.late
    BY <2>1 DEF CallState
  <2>3. Again(s, next, "502") /\ c.at = "forward"
    BY <1>1, <1>13 DEF NoConnection
  <2> HIDE DEF next
  <2> QED
    BY <1>6, <2>2, <2>3
<1>14. CASE GiveUp(s)
  <2>1. PICK answer : Again(s, GivenUp(c), answer)
    BY <1>1, <1>14 DEF GiveUp
  <2>2. GivenUp(c) \in CallState
    BY <1>2, GivenUpIsCounted
  <2>3. c.at # "free"
    BY <1>1, <1>14 DEF GiveUp
  <2>4. /\ GivenUp(c).method = c.method /\ GivenUp(c).carried = c.carried
        /\ GivenUp(c).late > 0 => c.at = "upstream" \/ c.late > 0
    BY GivenUpIs
  <2> QED
    BY <1>6, <2>1, <2>2, <2>3, <2>4
<1>15. CASE CarryLate(s)
  <2> DEFINE d == [c EXCEPT !.late = @ - 1, !.carried = @ + 1]
  <2>1. d.at = c.at /\ d.method = c.method /\ d.carried = c.carried + 1
    BY DEF CallState
  <2>2. call' = [call EXCEPT ![s] = d] /\ c.late > 0
    BY <1>1, <1>15 DEF CarryLate, Goes
  <2>3. c.at # "free"
    BY <1>3, <2>2
  <2> HIDE DEF d
  <2>4. WorkedOn(c, d)
    BY <2>1, <2>2, <2>3 DEF WorkedOn, CanCarry
  <2> QED
    BY <1>1, <2>2, <2>4
<1>16. CASE NeverMind(s)
  <2> DEFINE d == [c EXCEPT !.late = @ - 1]
  <2>1. d.at = c.at /\ d.method = c.method /\ d.carried = c.carried
    BY DEF CallState
  <2>2. call' = [call EXCEPT ![s] = d] /\ c.late > 0
    BY <1>1, <1>16 DEF NeverMind, Goes
  <2>3. c.at # "free"
    BY <1>3, <2>2
  <2> HIDE DEF d
  <2>4. WorkedOn(c, d)
    BY <2>1, <2>2, <2>3 DEF WorkedOn, CanCarry
  <2> QED
    BY <1>1, <2>2, <2>4
<1> QED
  BY <1>7, <1>8, <1>9, <1>10, <1>11, <1>12, <1>13, <1>14, <1>15, <1>16
     DEF GatewayStep, HandlerStep

-------------------------------------------------------------------------------
(* The scenario n has heard the answers it awaited, and sends calls in the   *)
(* given slots, or none.                                                     *)
ScenarioMoves(n, slots, method) ==
  /\ slots \subseteq FreeSlots /\ method \in Methods
  /\ \A s \in Awaited(n) : call[s].at = "answered"
  /\ call' = [s \in Slots |->
                IF s \in slots THEN [Free EXCEPT !.at = "arrived", !.method = method]
                ELSE Kept(s, n)]
  /\ client' = [s \in Slots |->
                  IF s \in slots THEN [by |-> n, tries |-> 1, is |-> "awaited"] ELSE Heard(s, n)]

(* What becomes of a slot when the scenario n moves: it gets a call, its     *)
(* call is over and forgotten or left to the service, or it stays as it is.  *)
SlotMoves(s, n, slots, method) ==
  \/ /\ s \in slots /\ call[s].at = "free"
     /\ call'[s] = [Free EXCEPT !.at = "arrived", !.method = method]
     /\ client'[s] = [by |-> n, tries |-> 1, is |-> "awaited"]
  \/ /\ s \notin slots /\ s \in Awaited(n) /\ call'[s] = Free /\ client'[s] = NoClient
  \/ /\ s \notin slots /\ s \in Awaited(n) /\ call'[s] = call[s]
     /\ client'[s] = [client[s] EXCEPT !.is = "gone"] /\ call[s].at # "free"
  \/ /\ s \notin slots /\ s \notin Awaited(n) /\ call'[s] = call[s] /\ client'[s] = client[s]

LEMMA SlotsMove ==
  ASSUME TrafficInv, NEW n \in Names, NEW slots, NEW method, ScenarioMoves(n, slots, method),
         NEW s \in Slots
  PROVE  SlotMoves(s, n, slots, method)
<1>1. CASE s \in slots
  BY <1>1 DEF ScenarioMoves, SlotMoves, FreeSlots
<1>2. CASE s \notin slots
  <2>1. call'[s] = Kept(s, n) /\ client'[s] = Heard(s, n)
    BY <1>2 DEF ScenarioMoves
  <2>2. Over(s, n) <=> s \in Awaited(n)
    BY DEF ScenarioMoves, Over
  <2>3. s \in Awaited(n) => call[s].at # "free"
    BY DEF ScenarioMoves
  <2> QED
    BY <1>2, <2>1, <2>2, <2>3 DEF SlotMoves, Kept, Heard
<1> QED
  BY <1>1, <1>2

LEMMA ArrivedIs ==
  ASSUME NEW method \in Methods
  PROVE  /\ [Free EXCEPT !.at = "arrived", !.method = method].at = "arrived"
         /\ [Free EXCEPT !.at = "arrived", !.method = method].method = method
         /\ [Free EXCEPT !.at = "arrived", !.method = method].carried = 0
BY DEF Free

LEMMA FreeIs == Free.at = "free" /\ Free.method = "GET" /\ Free.late = 0 /\ Free.carried = 0
BY DEF Free

LEMMA GoneIs ==
  ASSUME NEW c \in ClientState
  PROVE  /\ [c EXCEPT !.is = "gone"] \in ClientState /\ [c EXCEPT !.is = "gone"].by = c.by
         /\ [c EXCEPT !.is = "gone"].is = "gone"
         /\ [c EXCEPT !.is = "orphan"] \in ClientState /\ [c EXCEPT !.is = "orphan"].by = c.by
         /\ [c EXCEPT !.is = "orphan"].is = "orphan"
BY DEF ClientState

(* The slots of a scenario after a step.                                     *)
LEMMA ScenarioMovesSlots ==
  ASSUME TrafficInv, NEW n \in Names, NEW slots, NEW method, ScenarioMoves(n, slots, method),
         keyed' = keyed, trouble' = trouble
  PROVE  /\ CallsInv' /\ client' \in [Slots -> ClientState]
         /\ \A s \in Slots : Claimed(s)'
         /\ Awaited(n)' = slots /\ (\A s \in slots : call'[s].method = method /\ call'[s].carried = 0)
         /\ \A m \in Names \ {n} :
              Awaited(m)' = Awaited(m) /\ \A s \in Awaited(m) : call'[s] = call[s]
         /\ \A m \in Names : Orphans(m)' \subseteq Orphans(m)
         /\ Creating' \subseteq
              Creating \cup (IF n = Mutation /\ method = "POST" THEN slots ELSE {})
<1> DEFINE new == [Free EXCEPT !.at = "arrived", !.method = method]
           mine == [by |-> n, tries |-> 1, is |-> "awaited"]
<1>1. \A s \in Slots : SlotMoves(s, n, slots, method)
  BY SlotsMove
<1>2. /\ \A s \in Slots : Sound(call[s]) /\ Claimed(s) /\ client[s] \in ClientState
      /\ keyed \in BOOLEAN /\ trouble \in 0 .. MaxTrouble
  <2>1. CallsInv /\ \A s \in Slots : Claimed(s)
    BY DEF TrafficInv
  <2>2. \A s \in Slots : client[s] \in ClientState
    BY <2>1 DEF Claimed
  <2> QED
    BY <2>1, <2>2 DEF CallsInv
<1>3. /\ method \in Methods /\ slots \subseteq Slots
      /\ call' = [s \in Slots |-> call'[s]] /\ client' = [s \in Slots |-> client'[s]]
  BY DEF ScenarioMoves, FreeSlots
<1>4. Sound(new) /\ new.at = "arrived" /\ new.method = method /\ new.carried = 0
  BY <1>3, ArrivalIsSound, ArrivedIs
<1>5. Sound(Free) /\ Free.at = "free" /\ Free.method = "GET"
  BY SlotIsSound, FreeIs
<1>6. mine \in ClientState /\ mine.by = n /\ mine.is = "awaited" /\ n # Nobody
  BY ClientsAre, NamesAre
<1>7. NoClient \in ClientState /\ NoClient.by = Nobody /\ NoClient.is = "gone" /\ Nobody \notin Names
  BY ClientsAre, NamesAre
<1>8. ASSUME NEW s \in Slots
      PROVE  /\ [client[s] EXCEPT !.is = "gone"] \in ClientState
             /\ [client[s] EXCEPT !.is = "gone"].by = client[s].by
             /\ [client[s] EXCEPT !.is = "gone"].is = "gone"
  BY <1>2, GoneIs
<1> HIDE DEF new, mine
<1>9. ASSUME NEW s \in Slots
      PROVE  \/ /\ s \in slots /\ call[s].at = "free" /\ call'[s] = new /\ client'[s] = mine
             \/ /\ s \notin slots /\ s \in Awaited(n) /\ call'[s] = Free /\ client'[s] = NoClient
             \/ /\ s \notin slots /\ s \in Awaited(n) /\ call'[s] = call[s] /\ call[s].at # "free"
                /\ client'[s] \in ClientState /\ client'[s].by = client[s].by
                /\ client'[s].is = "gone"
             \/ /\ s \notin slots /\ s \notin Awaited(n) /\ call'[s] = call[s]
                /\ client'[s] = client[s]
  BY <1>1, <1>8 DEF SlotMoves, new, mine
<1>10. \A s \in Slots : Sound(call'[s]) /\ client'[s] \in ClientState
  BY <1>2, <1>4, <1>5, <1>6, <1>7, <1>9
<1>11. CallsInv'
  <2>1. call' \in [Slots -> CallState]
    BY <1>3, <1>10 DEF Sound
  <2> QED
    BY <1>2, <1>10, <2>1 DEF CallsInv
<1>12. client' \in [Slots -> ClientState]
  BY <1>3, <1>10
<1>13. \A s \in Slots : Claimed(s)'
  BY <1>2, <1>4, <1>6, <1>7, <1>9, <1>10 DEF Claimed
<1>14. Awaited(n)' = slots /\ (\A s \in slots : call'[s].method = method /\ call'[s].carried = 0)
  <2>1. ASSUME NEW s \in Slots
        PROVE  client'[s].by = n /\ client'[s].is = "awaited" <=> s \in slots
    BY <1>6, <1>7, <1>9 DEF Awaited
  <2>2. \A s \in slots : call'[s] = new
    BY <1>3, <1>9
  <2> QED
    BY <1>3, <1>4, <2>1, <2>2 DEF Awaited
<1>15. ASSUME NEW m \in Names \ {n}
       PROVE  Awaited(m)' = Awaited(m) /\ \A s \in Awaited(m) : call'[s] = call[s]
  <2>1. ASSUME NEW s \in Slots
        PROVE  /\ client'[s].by = m /\ client'[s].is = "awaited"
                    <=> client[s].by = m /\ client[s].is = "awaited"
               /\ client[s].by = m /\ client[s].is = "awaited" => call'[s] = call[s]
    <3>1. call[s].at = "free" => client[s].by # m
      BY <1>2, <1>7 DEF Claimed
    <3> QED
      BY <1>6, <1>7, <1>9, <3>1 DEF Awaited
  <2> QED
    BY <2>1 DEF Awaited
<1>16. ASSUME NEW m \in Names PROVE Orphans(m)' \subseteq Orphans(m)
  BY <1>6, <1>7, <1>9 DEF Orphans
<1>17. Creating' \subseteq Creating \cup (IF n = Mutation /\ method = "POST" THEN slots ELSE {})
  <2> SUFFICES ASSUME NEW s \in Slots, client'[s].by = Mutation, call'[s].method = "POST",
                      CanCarry(call'[s]), s \notin Creating
               PROVE  n = Mutation /\ method = "POST" /\ s \in slots
    BY DEF Creating
  <2> QED
    BY <1>4, <1>5, <1>6, <1>7, <1>9, NamesAre DEF Creating
<1> QED
  BY <1>11, <1>12, <1>13, <1>14, <1>15, <1>16, <1>17

LEMMA MonitorIs ==
  ASSUME TrafficInv
  PROVE  /\ CallsInv /\ schedule \in Seq(Names) /\ fires \in 0 .. MaxFires
         /\ client \in [Slots -> ClientState] /\ stage \in [Names -> 0 .. 3]
         /\ alerts \in [Names -> Nat] /\ alerted \in [Names -> BOOLEAN]
         /\ rules \in Int /\ interrupted \in Nat
         /\ \A s \in Slots : Claimed(s)
         /\ \A n \in Names : StageIsAwaited(n) /\ AlertsAreCounted(n)
         /\ RulesAreCovered /\ Own \in 0 .. 1
         /\ Creating \subseteq Slots /\ Cardinality(Creating) \in Nat
<1>1. Creating \subseteq Slots
  BY DEF Creating
<1>2. Cardinality(Creating) \in Nat
  BY <1>1, SlotsAreCounted
<1>3. Own \in 0 .. 1
  BY DEF Own
<1> QED
  BY <1>1, <1>2, <1>3 DEF TrafficInv, MonitorIsTyped

(* The rules stay covered when what may be created does not grow by more     *)
(* than what covers it.                                                      *)
LEMMA StaysCovered ==
  ASSUME TrafficInv, rules' = rules, interrupted' = interrupted, Own' \in 0 .. 1, alerts'[Mutation] \in Nat,
         NEW more \in 0 .. 1, Cardinality(Creating)' \in Nat,
         Cardinality(Creating)' <= Cardinality(Creating) + more,
         alerts[Mutation] + Own + more <= alerts'[Mutation] + Own'
  PROVE  RulesAreCovered'
<1>1. /\ rules + Cardinality(Creating) <= alerts[Mutation] + interrupted + Own
      /\ interrupted \in Nat /\ alerts[Mutation] \in Nat /\ Own \in 0 .. 1 /\ rules \in Int /\ Cardinality(Creating) \in Nat
  BY MonitorIs, NamesAre DEF RulesAreCovered
<1>2. rules + Cardinality(Creating)' <= alerts'[Mutation] + interrupted + Own'
  BY <1>1
<1> QED
  BY <1>2 DEF RulesAreCovered

LEMMA CreatingGrows ==
  ASSUME TrafficInv, NEW slots, Creating' \subseteq Creating \cup slots, slots \subseteq Slots
  PROVE  /\ Cardinality(Creating)' \in Nat
         /\ slots = {} => Cardinality(Creating)' <= Cardinality(Creating)
         /\ Cardinality(slots) = 1 => Cardinality(Creating)' <= Cardinality(Creating) + 1
<1>1. /\ IsFiniteSet(Creating) /\ IsFiniteSet(slots) /\ Creating' \subseteq Slots
      /\ Cardinality(Creating) \in Nat
  <2>1. Creating \subseteq Slots
    BY DEF Creating
  <2> QED
    BY <2>1, SlotsAreCounted
<1>2. Cardinality(Creating') \in Nat /\ IsFiniteSet(Creating')
  BY <1>1, SlotsAreCounted
<1>3. slots = {} => Cardinality(Creating') <= Cardinality(Creating)
  BY <1>1, FS_Subset
<1>4. ASSUME Cardinality(slots) = 1 PROVE Cardinality(Creating') <= Cardinality(Creating) + 1
  <2>1. PICK x : slots = {x}
    BY <1>1, <1>4, FS_Singleton
  <2>2. /\ IsFiniteSet(Creating \cup {x})
        /\ Cardinality(Creating \cup {x}) =
             IF x \in Creating THEN Cardinality(Creating) ELSE Cardinality(Creating) + 1
    BY <1>1, FS_AddElement
  <2>3. Cardinality(Creating') <= Cardinality(Creating \cup {x})
    BY <2>1, <2>2, FS_Subset
  <2>4. Cardinality(Creating \cup {x}) \in Nat
    BY <2>2, FS_CardinalityType
  <2> QED
    BY <1>1, <1>2, <2>2, <2>3, <2>4
<1> QED
  BY <1>2, <1>3, <1>4

LEMMA SendIsMove ==
  ASSUME TrafficInv, NEW n \in Names, NEW which \in DOMAIN Script(n), SendStage(n, which),
         \A s \in Awaited(n) : call[s].at = "answered"
  PROVE  \E slots : /\ ScenarioMoves(n, slots, Script(n)[which].method)
                    /\ Cardinality(slots) = Script(n)[which].calls
                    /\ stage' = [stage EXCEPT ![n] = which]
<1> DEFINE calls == Script(n)[which].calls
           slots == CHOOSE some \in SUBSET FreeSlots : Cardinality(some) = calls
<1>1. calls \in Nat /\ Script(n)[which].method \in Methods
  BY StagesAre
<1>2. Cardinality(FreeSlots) >= calls /\ IsFiniteSet(FreeSlots) /\ Cardinality(FreeSlots) \in Nat
  BY SlotsAreCounted DEF SendStage, FreeSlots
<1>3. \E some \in SUBSET FreeSlots : Cardinality(some) = calls
  BY <1>1, <1>2, SubsetOfSize
<1>4. slots \in SUBSET FreeSlots /\ Cardinality(slots) = calls
  BY <1>3
<1>5. ScenarioMoves(n, slots, Script(n)[which].method) /\ stage' = [stage EXCEPT ![n] = which]
  BY <1>1, <1>4 DEF SendStage, ScenarioMoves
<1> QED
  BY <1>4, <1>5

(* What the scenario n comes to when it moves; more is the rule it may create. *)
ScenarioComesTo(n, slots, method, which, more) ==
  /\ ScenarioMoves(n, slots, method) /\ stage' = [stage EXCEPT ![n] = which]
  /\ which > 0 => /\ which \in DOMAIN Script(n) /\ method = Script(n)[which].method
                  /\ Cardinality(slots) = Script(n)[which].calls
  /\ which = 0 => slots = {}
  /\ UNCHANGED <<keyed, trouble, schedule, rules, interrupted>> /\ fires' \in 0 .. MaxFires
  /\ alerts' \in [Names -> Nat] /\ alerted' \in [Names -> BOOLEAN]
  /\ \A m \in Names \ {n} : alerts'[m] = alerts[m] /\ alerted'[m] = alerted[m]
  /\ alerts'[n] >= alerts[n] /\ (alerted'[n] => alerts'[n] > 0)
  /\ which > 0 /\ method = "POST" => more = 1
  /\ n = Mutation => alerts[n] + Own + more
                       <= alerts'[n] + (IF which > 0 /\ ~alerted'[n] THEN 1 ELSE 0)

LEMMA ScenarioIsRight ==
  ASSUME TrafficInv, NEW n \in Names, NEW slots, NEW method, NEW which \in 0 .. 3,
         NEW more \in 0 .. 1, ScenarioComesTo(n, slots, method, which, more)
  PROVE  TrafficInv'
<1>0. /\ ScenarioMoves(n, slots, method) /\ stage' = [stage EXCEPT ![n] = which]
      /\ which > 0 => /\ which \in DOMAIN Script(n) /\ method = Script(n)[which].method
                      /\ Cardinality(slots) = Script(n)[which].calls
      /\ which = 0 => slots = {}
      /\ UNCHANGED <<keyed, trouble, schedule, rules, interrupted>> /\ fires' \in 0 .. MaxFires
      /\ alerts' \in [Names -> Nat] /\ alerted' \in [Names -> BOOLEAN]
      /\ \A m \in Names \ {n} : alerts'[m] = alerts[m] /\ alerted'[m] = alerted[m]
      /\ alerts'[n] >= alerts[n] /\ (alerted'[n] => alerts'[n] > 0)
      /\ which > 0 /\ method = "POST" => more = 1
      /\ n = Mutation => alerts[n] + Own + more
                           <= alerts'[n] + (IF which > 0 /\ ~alerted'[n] THEN 1 ELSE 0)
  BY DEF ScenarioComesTo
<1> USE <1>0
<1>1. /\ CallsInv' /\ client' \in [Slots -> ClientState]
      /\ \A s \in Slots : Claimed(s)'
      /\ Awaited(n)' = slots /\ (\A s \in slots : call'[s].method = method /\ call'[s].carried = 0)
      /\ \A m \in Names \ {n} :
           Awaited(m)' = Awaited(m) /\ \A s \in Awaited(m) : call'[s] = call[s]
      /\ \A m \in Names : Orphans(m)' \subseteq Orphans(m)
      /\ Creating' \subseteq
           Creating \cup (IF n = Mutation /\ method = "POST" THEN slots ELSE {})
  BY ScenarioMovesSlots
<1>2. /\ stage \in [Names -> 0 .. 3] /\ stage'[n] = which
      /\ \A m \in Names \ {n} : stage'[m] = stage[m]
  BY MonitorIs
<1>3. MonitorIsTyped'
  BY <1>1, <1>2, MonitorIs DEF MonitorIsTyped
<1>4. ASSUME NEW m \in Names PROVE StageIsAwaited(m)'
  <2>1. CASE m = n
    BY <1>1, <1>2, <2>1 DEF StageIsAwaited, Running
  <2>2. CASE m # n
    <3>1. /\ Awaited(m)' = Awaited(m) /\ stage'[m] = stage[m] /\ StageIsAwaited(m)
          /\ \A s \in Awaited(m) : call'[s] = call[s]
      BY <1>1, <1>2, <2>2, MonitorIs
    <3> QED
      BY <3>1 DEF StageIsAwaited, Running
  <2> QED
    BY <2>1, <2>2
<1>5. ASSUME NEW m \in Names PROVE AlertsAreCounted(m)'
  <2>1. AlertsAreCounted(m) /\ Orphans(m)' \subseteq Orphans(m) /\ alerts[m] \in Nat /\ alerts'[m] \in Nat
    BY <1>1, MonitorIs
  <2>2. alerts'[m] >= alerts[m] /\ (alerted'[m] => alerts'[m] > 0)
    BY <2>1 DEF AlertsAreCounted
  <2> QED
    BY <2>1, <2>2 DEF AlertsAreCounted
<1>6. RulesAreCovered'
  <2>a. Own' \in 0 .. 1
    BY DEF Own
  <2>b. Mutation \in Names
    BY NamesAre
  <2>1. Own' \in 0 .. 1 /\ alerts'[Mutation] \in Nat /\ alerts[Mutation] \in Nat /\ Own \in 0 .. 1
    BY <2>a, <2>b, MonitorIs
  <2>2. slots \subseteq Slots
    BY DEF ScenarioMoves, FreeSlots
  <2>3. CASE n = Mutation
    <3>1. ~Deleted'
      BY <1>1, <2>2, <2>3 DEF Deleted
    <3>2. Own' = IF which > 0 /\ ~alerted'[n] THEN 1 ELSE 0
      BY <1>2, <2>3, <3>1 DEF Own, Running
    <3>3. /\ Cardinality(Creating)' \in Nat
          /\ Cardinality(Creating)' <= Cardinality(Creating) + more
      <4>1. CASE which > 0 /\ method = "POST"
        <5>1. Cardinality(slots) = 1
          <6>1. which \in 1 .. 3
            BY <4>1
          <6> QED
            BY <2>3, <4>1, <6>1, MutationIs
        <5>2. Creating' \subseteq Creating \cup slots
          BY <1>1
        <5> QED
          BY <2>2, <4>1, <5>1, <5>2, CreatingGrows
      <4>2. CASE ~(which > 0 /\ method = "POST")
        <5>1. Creating' \subseteq Creating \cup {}
          BY <1>1, <4>2
        <5>2. Cardinality(Creating)' \in Nat /\ Cardinality(Creating)' <= Cardinality(Creating)
          BY <5>1, CreatingGrows
        <5> QED
          BY <4>2, <5>2, MonitorIs
      <4> QED
        BY <4>1, <4>2
    <3> QED
      BY <2>1, <2>3, <3>2, <3>3, StaysCovered
  <2>4. CASE n # Mutation
    <3>1. Creating' \subseteq Creating \cup {}
      BY <1>1, <2>4
    <3>a. Cardinality(Creating)' \in Nat /\ Cardinality(Creating)' <= Cardinality(Creating)
      BY <3>1, CreatingGrows
    <3>2. Cardinality(Creating)' \in Nat /\ Cardinality(Creating)' <= Cardinality(Creating) + 0
      BY <3>a, MonitorIs
    <3>3. Deleted' <=> Deleted
      BY <1>1, <2>4, NamesAre DEF Deleted
    <3>4. /\ stage'[Mutation] = stage[Mutation] /\ alerted'[Mutation] = alerted[Mutation]
          /\ alerts'[Mutation] = alerts[Mutation]
      BY <1>2, <2>4, NamesAre
    <3>5. Own' = Own
      BY <3>3, <3>4 DEF Own, Running
    <3>6. alerts[Mutation] + Own + 0 <= alerts'[Mutation] + Own'
      BY <2>1, <3>4, <3>5
    <3>7. 0 \in 0 .. 1
      OBVIOUS
    <3> QED
      BY <2>1, <3>2, <3>6, <3>7, StaysCovered
  <2> QED
    BY <2>3, <2>4
<1> QED
  BY <1>1, <1>3, <1>4, <1>5, <1>6 DEF TrafficInv

(* Nothing of it depends on the keys or on the timers.                       *)
LEMMA MonitorStands ==
  ASSUME TrafficInv, CallsInv', fires' \in 0 .. MaxFires,
         UNCHANGED <<call, schedule, stage, client, alerts, alerted, rules, interrupted>>
  PROVE  TrafficInv'
<1>1. /\ UNCHANGED <<call, schedule, stage, client, alerts, alerted, rules, interrupted>>
      /\ fires' \in 0 .. MaxFires
  OBVIOUS
<1>2. MonitorIsTyped'
  BY <1>1 DEF TrafficInv, MonitorIsTyped
<1>3. \A s \in Slots : Claimed(s)'
  BY <1>1 DEF TrafficInv, Claimed
<1>4. ASSUME NEW n \in Names PROVE StageIsAwaited(n)' /\ AlertsAreCounted(n)'
  BY <1>1 DEF TrafficInv, StageIsAwaited, AlertsAreCounted, Awaited, Orphans, Running
<1>5. RulesAreCovered'
  BY <1>1 DEF TrafficInv, RulesAreCovered, Creating, Own, Deleted, Awaited, Running
<1> QED
  BY <1>2, <1>3, <1>4, <1>5 DEF TrafficInv

(* A scenario that starts.                                                   *)
LEMMA FireIsRight ==
  ASSUME TrafficInv, NEW n \in Names, Fire(n)
  PROVE  TrafficInv'
<1>1. /\ UNCHANGED <<keyed, trouble, schedule, alerts, rules, interrupted>> /\ fires' \in 0 .. MaxFires
  BY MonitorIs, MonitorAssumption DEF Fire
<1>2. CASE MayStart(n)
  <2>1. SendStage(n, 1) /\ alerted' = [alerted EXCEPT ![n] = FALSE] /\ ~Running(n)
    BY <1>2 DEF Fire, MayStart
  <2>2. Awaited(n) = {}
    BY <2>1, MonitorIs DEF StageIsAwaited
  <2>3. 1 \in DOMAIN Script(n) /\ 1 \in 0 .. 3
    BY StagesAre
  <2>4. PICK slots : /\ ScenarioMoves(n, slots, Script(n)[1].method)
                     /\ Cardinality(slots) = Script(n)[1].calls
                     /\ stage' = [stage EXCEPT ![n] = 1]
    BY <2>1, <2>2, <2>3, SendIsMove
  <2>5. /\ alerted' \in [Names -> BOOLEAN] /\ alerted'[n] = FALSE
        /\ \A m \in Names \ {n} : alerted'[m] = alerted[m]
        /\ alerts \in [Names -> Nat] /\ alerts[n] \in Nat
    BY <2>1, MonitorIs
  <2> DEFINE more == IF Script(n)[1].method = "POST" THEN 1 ELSE 0
  <2>6. more \in 0 .. 1
    OBVIOUS
  <2>7. n = Mutation => alerts[n] + Own + more <= alerts[n] + 1
    <3> SUFFICES ASSUME n = Mutation PROVE alerts[n] + Own + more <= alerts[n] + 1
      OBVIOUS
    <3>1. Own = 0
      BY <2>1 DEF Own
    <3> QED
      BY <2>5, <2>6, <3>1
  <2> HIDE DEF more
  <2>9. ScenarioComesTo(n, slots, Script(n)[1].method, 1, more)
    <3>1. Script(n)[1].method = "POST" => more = 1
      BY DEF more
    <3>2. alerts' = alerts
      BY <1>1
    <3> QED
      BY <1>1, <2>3, <2>4, <2>5, <2>6, <2>7, <3>1, <3>2 DEF ScenarioComesTo
  <2> QED
    BY <2>3, <2>6, <2>9, ScenarioIsRight
<1>3. CASE ~MayStart(n)
  <2>1. UNCHANGED <<call, client, stage, alerted>>
    BY <1>3 DEF Fire
  <2>2. CallsInv'
    BY <1>1, <2>1, MonitorIs DEF CallsInv
  <2> QED
    BY <1>1, <2>1, <2>2, MonitorStands
<1> QED
  BY <1>2, <1>3

(* An alert of the run at work.                                              *)
LEMMA AlertIs ==
  ASSUME TrafficInv, NEW n \in Names, NEW raised \in BOOLEAN, Alert(n, raised)
  PROVE  /\ alerts' \in [Names -> Nat] /\ alerted' \in [Names -> BOOLEAN]
         /\ \A m \in Names \ {n} : alerts'[m] = alerts[m] /\ alerted'[m] = alerted[m]
         /\ alerted'[n] = (alerted[n] \/ raised)
         /\ alerts'[n] = (IF raised /\ ~alerted[n] THEN alerts[n] + 1 ELSE alerts[n])
         /\ alerts'[n] >= alerts[n] /\ (alerted'[n] => alerts'[n] > 0)
<1>1. alerts \in [Names -> Nat] /\ alerted \in [Names -> BOOLEAN] /\ AlertsAreCounted(n)
  BY MonitorIs
<1>2. alerts[n] \in Nat /\ alerted[n] \in BOOLEAN /\ (alerted[n] => alerts[n] > 0)
  BY <1>1 DEF AlertsAreCounted
<1> DEFINE count == IF raised /\ ~alerted[n] THEN alerts[n] + 1 ELSE alerts[n]
           flag == alerted[n] \/ raised
<1>3. alerts' = [alerts EXCEPT ![n] = count] /\ alerted' = [alerted EXCEPT ![n] = flag]
  BY DEF Alert
<1>4. count \in Nat /\ count >= alerts[n] /\ (flag => count > 0)
  BY <1>2
<1>5. flag \in BOOLEAN
  BY <1>2
<1> HIDE DEF count, flag
<1>6. /\ alerts' \in [Names -> Nat] /\ alerts'[n] = count
      /\ \A m \in Names \ {n} : alerts'[m] = alerts[m]
  BY <1>1, <1>3, <1>4
<1>7. /\ alerted' \in [Names -> BOOLEAN] /\ alerted'[n] = flag
      /\ \A m \in Names \ {n} : alerted'[m] = alerted[m]
  BY <1>1, <1>3, <1>5
<1> QED
  BY <1>4, <1>6, <1>7 DEF count, flag

LEMMA StageOverIsRight ==
  ASSUME TrafficInv, NEW n \in Names, StageOver(n)
  PROVE  TrafficInv'
<1> DEFINE bad == \E s \in Awaited(n) : IsError(call[s].answer)
<1> DEFINE more == stage[n] < Len(Script(n)) /\ (bad => GoesOn(n, stage[n]))
<1>1. /\ Running(n) /\ Awaited(n) # {} /\ Alert(n, bad)
      /\ \A s \in Awaited(n) : call[s].at = "answered"
      /\ UNCHANGED <<keyed, trouble, schedule, fires, rules, interrupted>>
  BY DEF StageOver
<1>2. /\ more => SendStage(n, stage[n] + 1)
      /\ ~more => /\ call' = [s \in Slots |-> Kept(s, n)]
                  /\ client' = [s \in Slots |-> Heard(s, n)]
                  /\ stage' = [stage EXCEPT ![n] = 0]
  BY DEF StageOver
<1>3. /\ stage[n] \in DOMAIN Script(n) /\ stage[n] \in 1 .. Len(Script(n))
      /\ Len(Script(n)) \in 1 .. 3 /\ stage[n] \in 1 .. 3
      /\ \A s \in Awaited(n) : call[s].method = Script(n)[stage[n]].method
  <2>1. StageIsAwaited(n) /\ Len(Script(n)) \in 1 .. 3 /\ DOMAIN Script(n) = 1 .. Len(Script(n))
    BY MonitorIs, StagesAre
  <2>2. stage[n] \in DOMAIN Script(n) /\ \A s \in Awaited(n) : call[s].method = Script(n)[stage[n]].method
    BY <1>1, <2>1 DEF StageIsAwaited
  <2> QED
    BY <2>1, <2>2
<1>4. bad \in BOOLEAN
  OBVIOUS
<1>5. /\ alerts \in [Names -> Nat] /\ alerts[n] \in Nat /\ Own \in 0 .. 1 /\ fires' \in 0 .. MaxFires
  BY <1>1, MonitorIs
<1>6. /\ alerts' \in [Names -> Nat] /\ alerted' \in [Names -> BOOLEAN]
      /\ \A m \in Names \ {n} : alerts'[m] = alerts[m] /\ alerted'[m] = alerted[m]
      /\ alerted'[n] = (alerted[n] \/ bad)
      /\ alerts'[n] = (IF bad /\ ~alerted[n] THEN alerts[n] + 1 ELSE alerts[n])
      /\ alerts'[n] >= alerts[n] /\ (alerted'[n] => alerts'[n] > 0)
  <2> HIDE DEF bad
  <2> QED
    BY <1>1, <1>4, AlertIs
<1>7. n = Mutation /\ alerted[n] => Own = 0
  BY DEF Own
(* The rule of the run is deleted when the last stage was answered well.     *)
<1>8. n = Mutation /\ ~bad /\ ~more => Own = 0
  <2> SUFFICES ASSUME n = Mutation, ~bad, ~more PROVE Own = 0
    OBVIOUS
  <2>1. stage[n] = 3
    BY <1>3, MutationIs
  <2>2. PICK s \in Awaited(n) : call[s].answer = "ok"
    BY <1>1 DEF IsError
  <2>3. call[s].method = "DELETE"
    BY <1>3, <2>1, MutationIs
  <2>4. call[s].carried > 0
    BY <2>2, CallIsSound, MonitorIs DEF AnswerIsHonest, Awaited
  <2>5. Deleted
    BY <2>2, <2>3, <2>4 DEF Deleted
  <2> QED
    BY <2>5 DEF Own
<1> HIDE DEF bad
<1>9. CASE more
  <2> DEFINE which == stage[n] + 1
  <2>1. which \in DOMAIN Script(n) /\ which \in 2 .. 3 /\ which \in 0 .. 3
    BY <1>3, <1>9, StagesAre
  <2>2. SendStage(n, which)
    BY <1>2, <1>9
  <2> HIDE DEF more, which
  <2>3. PICK slots : /\ ScenarioMoves(n, slots, Script(n)[which].method)
                     /\ Cardinality(slots) = Script(n)[which].calls
                     /\ stage' = [stage EXCEPT ![n] = which]
    BY <1>1, <2>1, <2>2, SendIsMove
  <2> DEFINE extra == IF which > 0 /\ Script(n)[which].method = "POST" THEN 1 ELSE 0
  <2>4. extra \in 0 .. 1
    OBVIOUS
  <2>5. n = Mutation => extra = 0
    BY <2>1, MutationIs
  <2> HIDE DEF extra
  <2>6. n = Mutation => alerts[n] + Own + extra
                          <= alerts'[n] + (IF which > 0 /\ ~alerted'[n] THEN 1 ELSE 0)
    BY <1>5, <1>6, <1>7, <2>1, <2>5
  <2>7. Script(n)[which].method = "POST" => extra = 1
    BY <2>1 DEF extra
  <2>8. which # 0
    BY <2>1
  <2>9. ScenarioComesTo(n, slots, Script(n)[which].method, which, extra)
    BY <1>1, <1>5, <1>6, <2>1, <2>3, <2>4, <2>6, <2>7, <2>8 DEF ScenarioComesTo
  <2> QED
    BY <2>1, <2>4, <2>9, ScenarioIsRight
<1>10. CASE ~more
  <2>1. ScenarioMoves(n, {}, "GET")
    BY <1>1, <1>2, <1>10 DEF ScenarioMoves, Methods
  <2>2. stage' = [stage EXCEPT ![n] = 0]
    BY <1>2, <1>10
  <2>3. n = Mutation => alerts[n] + Own + 0 <= alerts'[n] + 0
    BY <1>5, <1>6, <1>7, <1>8, <1>10
  <2>4. ScenarioComesTo(n, {}, "GET", 0, 0)
    BY <1>1, <1>5, <1>6, <2>1, <2>2, <2>3 DEF ScenarioComesTo
  <2>5. 0 \in 0 .. 3 /\ 0 \in 0 .. 1
    OBVIOUS
  <2> QED
    BY <2>4, <2>5, ScenarioIsRight
<1> QED
  BY <1>9, <1>10

-------------------------------------------------------------------------------
(* Steps that end no stage: who waits for which call stays as it is.         *)
ClientsStay ==
  /\ CallsInv' /\ client' \in [Slots -> ClientState] /\ (\A s \in Slots : Claimed(s)')
  /\ UNCHANGED <<schedule, fires, stage, alerts, alerted, interrupted>> /\ rules' \in Int
  /\ \A n \in Names :
       /\ Awaited(n)' = Awaited(n) /\ Orphans(n)' \subseteq Orphans(n)
       /\ \A s \in Awaited(n) : call'[s].method = call[s].method

(* What they make of the rules: nothing; one is created, or one deleted.     *)
RulesStay == rules' = rules /\ Creating' \subseteq Creating /\ (Deleted' => Deleted)
RuleIsCreated(s) ==
  /\ rules' = rules + 1 /\ s \in Creating /\ Creating' \subseteq Creating \ {s}
  /\ Deleted' => Deleted
RuleIsDeleted == rules' = rules - 1 /\ Creating' \subseteq Creating

LEMMA OwnStays ==
  ASSUME UNCHANGED <<stage, alerted>>
  PROVE  Own' \in 0 .. 1 /\ Own \in 0 .. 1 /\ ((Deleted' => Deleted) => Own <= Own')
<1>1. stage'[Mutation] = stage[Mutation] /\ alerted'[Mutation] = alerted[Mutation]
  OBVIOUS
<1>2. Own = 1 \/ Own = 0
  BY DEF Own
<1>3. Own' = 1 \/ Own' = 0
  BY DEF Own
<1>4. (Deleted' => Deleted) /\ Own = 1 => Own' = 1
  BY <1>1 DEF Own, Running
<1> QED
  BY <1>2, <1>3, <1>4

LEMMA RulesStayCovered ==
  ASSUME TrafficInv, ClientsStay, NEW s \in Slots, RulesStay \/ RuleIsCreated(s) \/ RuleIsDeleted
  PROVE  RulesAreCovered'
<1>1. /\ rules + Cardinality(Creating) <= alerts[Mutation] + interrupted + Own
      /\ interrupted \in Nat /\ alerts[Mutation] \in Nat /\ rules \in Int /\ Cardinality(Creating) \in Nat
      /\ IsFiniteSet(Creating)
  <2>1. Creating \subseteq Slots
    BY DEF Creating
  <2> QED
    BY <2>1, MonitorIs, NamesAre, SlotsAreCounted DEF RulesAreCovered
<1>2. /\ Own' \in 0 .. 1 /\ Own \in 0 .. 1 /\ ((Deleted' => Deleted) => Own <= Own')
      /\ alerts'[Mutation] = alerts[Mutation] /\ interrupted' = interrupted
  BY OwnStays DEF ClientsStay
<1>3. ASSUME Creating' \subseteq Creating
      PROVE  Cardinality(Creating') \in Nat /\ Cardinality(Creating') <= Cardinality(Creating)
  <2>1. Cardinality(Creating') <= Cardinality(Creating) /\ IsFiniteSet(Creating')
    BY <1>1, <1>3, FS_Subset
  <2> QED
    BY <2>1, FS_CardinalityType
<1>4. CASE RulesStay
  <2>1. rules' + Cardinality(Creating') <= alerts'[Mutation] + interrupted' + Own'
    BY <1>1, <1>2, <1>3, <1>4 DEF RulesStay
  <2> QED
    BY <2>1 DEF RulesAreCovered
<1>5. CASE RuleIsCreated(s)
  <2>1. /\ IsFiniteSet(Creating \ {s}) /\ Cardinality(Creating \ {s}) = Cardinality(Creating) - 1
    BY <1>1, <1>5, FS_RemoveElement DEF RuleIsCreated
  <2>2. /\ Cardinality(Creating') <= Cardinality(Creating \ {s}) /\ IsFiniteSet(Creating')
    BY <1>5, <2>1, FS_Subset DEF RuleIsCreated
  <2>3. Cardinality(Creating') \in Nat
    BY <2>2, FS_CardinalityType
  <2>4. rules' + Cardinality(Creating') <= alerts'[Mutation] + interrupted' + Own'
    BY <1>1, <1>2, <1>5, <2>1, <2>2, <2>3 DEF RuleIsCreated
  <2> QED
    BY <2>4 DEF RulesAreCovered
<1>6. CASE RuleIsDeleted
  <2>1. rules' + Cardinality(Creating') <= alerts'[Mutation] + interrupted' + Own'
    BY <1>1, <1>2, <1>3, <1>6 DEF RuleIsDeleted
  <2> QED
    BY <2>1 DEF RulesAreCovered
<1> QED
  BY <1>4, <1>5, <1>6

LEMMA ClientsStayRight ==
  ASSUME TrafficInv, ClientsStay, NEW s \in Slots, RulesStay \/ RuleIsCreated(s) \/ RuleIsDeleted
  PROVE  TrafficInv'
<1>1. /\ CallsInv' /\ client' \in [Slots -> ClientState] /\ (\A t \in Slots : Claimed(t)')
      /\ UNCHANGED <<schedule, fires, stage, alerts, alerted, interrupted>> /\ rules' \in Int
      /\ \A n \in Names :
           /\ Awaited(n)' = Awaited(n) /\ Orphans(n)' \subseteq Orphans(n)
           /\ \A t \in Awaited(n) : call'[t].method = call[t].method
  BY DEF ClientsStay
<1>2. MonitorIsTyped'
  BY <1>1, MonitorIs DEF MonitorIsTyped
<1>3. ASSUME NEW n \in Names PROVE StageIsAwaited(n)' /\ AlertsAreCounted(n)'
  <2>1. StageIsAwaited(n) /\ AlertsAreCounted(n)
    BY MonitorIs
  <2>2. /\ stage'[n] = stage[n] /\ Awaited(n)' = Awaited(n) /\ Orphans(n)' \subseteq Orphans(n)
        /\ alerts'[n] = alerts[n] /\ alerted'[n] = alerted[n]
        /\ \A t \in Awaited(n) : call'[t].method = call[t].method
    BY <1>1
  <2>3. StageIsAwaited(n)'
    BY <2>1, <2>2 DEF StageIsAwaited, Running
  <2> QED
    BY <2>1, <2>2, <2>3 DEF AlertsAreCounted
<1>4. RulesAreCovered'
  BY RulesStayCovered
<1> QED
  BY <1>1, <1>2, <1>3, <1>4 DEF TrafficInv

(* A write that has been carried out is not carried out again.               *)
LEMMA CarriedOnce ==
  ASSUME NEW c, Sound(c), c.method # "GET", c.carried > 0
  PROVE  ~CanCarry(c)
<1>1. /\ c.carried \in Nat /\ c.late \in Nat /\ c.attempts \in Nat
  BY GatewayAssumption DEF Sound, CallState
<1>2. /\ c.carried + c.late + (IF c.at = "upstream" THEN 1 ELSE 0) <= c.attempts
      /\ c.attempts <= 1
      /\ c.at \in {"arrived", "known", "forward"} => c.attempts = 0
  BY DEF Sound, AttemptsAreCounted
<1>3. c.late = 0 /\ c.at # "upstream" /\ c.attempts # 0
  BY <1>1, <1>2
<1> QED
  BY <1>1, <1>2, <1>3 DEF CanCarry

LEMMA WorkIsRight ==
  ASSUME TrafficInv, NEW s \in Slots, Work(s)
  PROVE  TrafficInv'
<1> DEFINE carriedNow == call'[s].carried > call[s].carried /\ client[s].by = Mutation
<1>1. /\ GatewayStep(s) /\ UNCHANGED <<schedule, fires, stage, client, alerts, alerted, interrupted>>
      /\ rules' = IF carriedNow /\ call[s].method = "POST" THEN rules + 1
                  ELSE IF carriedNow /\ call[s].method = "DELETE" THEN rules - 1
                  ELSE rules
  BY DEF Work, Mutation
<1>2. CallsInv /\ CallsInv'
  BY <1>1, MonitorIs, StepIsHonest DEF GatewayNext
<1>3. PICK d : call' = [call EXCEPT ![s] = d] /\ WorkedOn(call[s], d)
  BY <1>1, <1>2, GatewayStepGoesOn
<1>4. /\ call'[s] = d /\ \A t \in Slots \ {s} : call'[t] = call[t]
  BY <1>2, <1>3 DEF CallsInv
<1>5. PICK c : c = call[s]
  OBVIOUS
<1>6. /\ c.at # "free" /\ d.at # "free" /\ d.method = c.method /\ Sound(d)
      /\ c.carried \in Nat /\ d.carried \in Nat /\ rules \in Int
      /\ \/ d.carried = c.carried /\ (c.method # "GET" /\ CanCarry(d) => CanCarry(c))
         \/ d.carried = c.carried + 1 /\ CanCarry(c)
  <2>1. c.carried \in Nat
    BY <1>2, <1>5, CallIsSound
  <2>2. Sound(d)
    BY <1>2, <1>4 DEF CallsInv
  <2>3. rules \in Int
    BY MonitorIs
  <2> QED
    BY <1>3, <1>5, <2>1, <2>2, <2>3 DEF WorkedOn
<1>7. \A t \in Slots : Claimed(t)'
  BY <1>1, <1>4, <1>5, <1>6, MonitorIs DEF Claimed
<1>8. ASSUME NEW n \in Names
      PROVE  /\ Awaited(n)' = Awaited(n) /\ Orphans(n)' \subseteq Orphans(n)
             /\ \A t \in Awaited(n) : call'[t].method = call[t].method
  BY <1>1, <1>4, <1>5, <1>6 DEF Awaited, Orphans
<1>9. rules' \in Int
  <2> HIDE DEF carriedNow
  <2> QED
    BY <1>1, <1>6
<1>10. ClientsStay
  BY <1>1, <1>2, <1>7, <1>8, <1>9, MonitorIs DEF ClientsStay
<1>11. Awaited(Mutation)' = Awaited(Mutation)
  BY <1>8, NamesAre
<1>12. ASSUME client[s].by # Mutation PROVE RulesStay
  <2>1. rules' = rules
    BY <1>1, <1>12
  <2>2. Creating' \subseteq Creating
    BY <1>1, <1>4, <1>12 DEF Creating
  <2>3. \A t \in Awaited(Mutation) : call'[t] = call[t]
    BY <1>4, <1>12 DEF Awaited
  <2> QED
    BY <1>11, <2>1, <2>2, <2>3 DEF RulesStay, Deleted
<1>13. ASSUME d.carried = c.carried, c.method # "GET" /\ CanCarry(d) => CanCarry(c) PROVE RulesStay
  <2>1. rules' = rules
    BY <1>1, <1>4, <1>5, <1>6, <1>13
  <2>2. Creating' \subseteq Creating
    BY <1>1, <1>4, <1>5, <1>6, <1>13 DEF Creating
  <2>3. \A t \in Awaited(Mutation) :
          call'[t].method = call[t].method /\ call'[t].carried = call[t].carried
    BY <1>4, <1>5, <1>6, <1>13 DEF Awaited
  <2> QED
    BY <1>11, <2>1, <2>2, <2>3 DEF RulesStay, Deleted
<1>14. ASSUME client[s].by = Mutation, d.carried = c.carried + 1, CanCarry(c)
       PROVE  RulesStay \/ RuleIsCreated(s) \/ RuleIsDeleted
  <2>1. carriedNow
    BY <1>4, <1>5, <1>6, <1>14
  <2>2. CASE c.method = "POST"
    <3>1. rules' = rules + 1
      BY <1>1, <1>5, <2>1, <2>2
    <3>2. s \in Creating
      BY <1>5, <1>14, <2>2 DEF Creating
    <3>3. d.carried > 0
      BY <1>6, <1>14
    <3>4. ~CanCarry(d)
      BY <1>6, <2>2, <3>3, CarriedOnce
    <3>5. Creating' \subseteq Creating \ {s}
      BY <1>1, <1>4, <3>4 DEF Creating
    <3>6. \A t \in Awaited(Mutation) : call'[t].method = "DELETE" => call'[t] = call[t]
      BY <1>4, <1>6, <2>2 DEF Awaited
    <3>7. Deleted' => Deleted
      BY <1>11, <3>6 DEF Deleted
    <3> QED
      BY <3>1, <3>2, <3>5, <3>7 DEF RuleIsCreated
  <2>3. CASE c.method # "POST"
    <3>1. Creating' \subseteq Creating
      BY <1>1, <1>4, <1>5, <1>6, <2>3 DEF Creating
    <3>2. CASE c.method = "DELETE"
      <4>1. rules' = rules - 1
        BY <1>1, <1>5, <2>1, <3>2
      <4> QED
        BY <3>1, <4>1 DEF RuleIsDeleted
    <3>3. CASE c.method # "DELETE"
      <4>1. rules' = rules
        BY <1>1, <1>5, <2>3, <3>3
      <4>2. \A t \in Awaited(Mutation) : call'[t].method = "DELETE" => call'[t] = call[t]
        BY <1>4, <1>6, <3>3 DEF Awaited
      <4>3. Deleted' => Deleted
        BY <1>11, <4>2 DEF Deleted
      <4> QED
        BY <3>1, <4>1, <4>3 DEF RulesStay
    <3> QED
      BY <3>2, <3>3
  <2> QED
    BY <2>2, <2>3
<1>15. RulesStay \/ RuleIsCreated(s) \/ RuleIsDeleted
  BY <1>6, <1>12, <1>13, <1>14
<1> QED
  BY <1>10, <1>15, ClientsStayRight

(* A step of the gateway that no service has a part in.                      *)
LEMMA RestartGatewayIsRight ==
  ASSUME TrafficInv, RestartGateway, UNCHANGED monitorVars, NEW s \in Slots
  PROVE  TrafficInv'
<1>1. /\ UNCHANGED <<schedule, fires, stage, client, alerts, alerted, rules, interrupted>>
      /\ CallsInv /\ CallsInv' /\ rules \in Int
  BY MonitorIs, StepIsHonest DEF GatewayNext, monitorVars
<1>2. ASSUME NEW t \in Slots
      PROVE  /\ call'[t].method = call[t].method /\ call'[t].carried = call[t].carried
             /\ CanCarry(call'[t]) => CanCarry(call[t])
             /\ call'[t].at = "free" => call[t].at = "free"
  <2>1. CASE call[t].at \in InHandler
    <3> DEFINE g == GivenUp(call[t])
    <3> DEFINE d == [g EXCEPT !.at = "lost"]
    <3>1. call'[t] = d
      BY <2>1 DEF RestartGateway
    <3>2. /\ g \in CallState /\ g.method = call[t].method /\ g.carried = call[t].carried
          /\ g.late > 0 => call[t].at = "upstream" \/ call[t].late > 0
      BY <1>1, CallIsSound, GivenUpIsCounted, GivenUpIs
    <3> HIDE DEF g
    <3>3. d.at = "lost" /\ d.method = g.method /\ d.late = g.late /\ d.carried = g.carried
      BY <3>2, AnsweredIs
    <3> HIDE DEF d
    <3> QED
      BY <3>1, <3>2, <3>3 DEF CanCarry
  <2>2. CASE call[t].at \notin InHandler
    BY <2>2 DEF RestartGateway
  <2> QED
    BY <2>1, <2>2
<1>3. \A t \in Slots : Claimed(t)'
  BY <1>1, <1>2, MonitorIs DEF Claimed
<1>4. ASSUME NEW n \in Names
      PROVE  /\ Awaited(n)' = Awaited(n) /\ Orphans(n)' \subseteq Orphans(n)
             /\ \A t \in Awaited(n) : call'[t].method = call[t].method
  BY <1>1, <1>2 DEF Awaited, Orphans
<1>5. ClientsStay
  BY <1>1, <1>3, <1>4, MonitorIs DEF ClientsStay
<1>6. Creating' \subseteq Creating
  BY <1>1, <1>2 DEF Creating
<1>7. Deleted' => Deleted
  BY <1>1, <1>2 DEF Deleted, Awaited
<1>8. RulesStay
  BY <1>1, <1>6, <1>7 DEF RulesStay
<1> QED
  BY <1>5, <1>8, ClientsStayRight

(* Steps of one slot that leave the rest of the monitor alone.               *)
SlotChanges(s, c, k) ==
  /\ call' = [call EXCEPT ![s] = c] /\ client' = [client EXCEPT ![s] = k]
  /\ k \in ClientState /\ (c.at = "free" => k = NoClient) /\ (k.is # "gone" => k.by # Nobody)
  /\ k.is = "awaited" <=> client[s].is = "awaited"
  /\ k.is = "awaited" => k.by = client[s].by /\ c.method = call[s].method /\ c.carried = 0
  /\ k.is = "orphan" => k.by = client[s].by /\ client[s].is = "orphan"
  /\ k.by = Mutation /\ c.method = "POST" /\ CanCarry(c) => s \in Creating
  /\ UNCHANGED <<schedule, fires, stage, alerts, alerted, rules, interrupted>>

LEMMA SlotChangesRight ==
  ASSUME TrafficInv, CallsInv', NEW s \in Slots, NEW c, NEW k, SlotChanges(s, c, k)
  PROVE  TrafficInv'
<1>1. /\ call' = [call EXCEPT ![s] = c] /\ client' = [client EXCEPT ![s] = k]
      /\ k \in ClientState /\ (c.at = "free" => k = NoClient) /\ (k.is # "gone" => k.by # Nobody)
      /\ k.is = "awaited" <=> client[s].is = "awaited"
      /\ k.is = "awaited" => k.by = client[s].by /\ c.method = call[s].method /\ c.carried = 0
      /\ k.is = "orphan" => k.by = client[s].by /\ client[s].is = "orphan"
      /\ k.by = Mutation /\ c.method = "POST" /\ CanCarry(c) => s \in Creating
      /\ UNCHANGED <<schedule, fires, stage, alerts, alerted, rules, interrupted>>
  BY DEF SlotChanges
<1>2. /\ call \in [Slots -> CallState] /\ client \in [Slots -> ClientState] /\ rules \in Int
      /\ \A t \in Slots : Claimed(t)
  BY MonitorIs DEF CallsInv
<1>3. /\ call'[s] = c /\ client'[s] = k /\ client' \in [Slots -> ClientState]
      /\ \A t \in Slots \ {s} : call'[t] = call[t] /\ client'[t] = client[t]
  BY <1>1, <1>2
<1>4. \A t \in Slots : Claimed(t)'
  BY <1>1, <1>2, <1>3 DEF Claimed
<1>5. ASSUME NEW n \in Names
      PROVE  /\ Awaited(n)' = Awaited(n) /\ Orphans(n)' \subseteq Orphans(n)
             /\ \A t \in Awaited(n) : call'[t].method = call[t].method
  BY <1>1, <1>3 DEF Awaited, Orphans
<1>6. ClientsStay
  BY <1>1, <1>2, <1>3, <1>4, <1>5 DEF ClientsStay
<1>7. Creating' \subseteq Creating
  BY <1>1, <1>3 DEF Creating
<1>8. Deleted' => Deleted
  <2> SUFFICES ASSUME NEW t \in Slots, client'[t].by = Mutation, client'[t].is = "awaited",
                      call'[t].method = "DELETE", call'[t].carried > 0
               PROVE  Deleted
    BY DEF Deleted, Awaited
  <2>1. t # s
    BY <1>1, <1>3
  <2> QED
    BY <1>3, <2>1 DEF Deleted, Awaited
<1>9. RulesStay
  BY <1>1, <1>7, <1>8 DEF RulesStay
<1> QED
  BY <1>6, <1>9, ClientsStayRight

LEMMA ForgetIsRight ==
  ASSUME TrafficInv, NEW s \in Slots, Forget(s)
  PROVE  TrafficInv'
<1>1. /\ client[s].is # "awaited" /\ Leave(s) /\ client' = [client EXCEPT ![s] = NoClient]
      /\ call' = [call EXCEPT ![s] = Free]
      /\ UNCHANGED <<keyed, trouble, schedule, fires, stage, alerts, alerted, rules, interrupted>>
  BY DEF Forget, Leave, Goes
<1>2. CallsInv'
  BY <1>1, MonitorIs, LeaveIsHonest
<1>3. SlotChanges(s, Free, NoClient)
  BY <1>1, ClientsAre, FreeIs DEF SlotChanges
<1> QED
  BY <1>2, <1>3, SlotChangesRight

(* The GET is sent again.                                                    *)
LEMMA ResendIsRight ==
  ASSUME TrafficInv, NEW s \in Slots, client[s].is # "gone",
         call[s].method = "GET", client[s].tries < ClientTries,
         call' = [call EXCEPT ![s] = [Free EXCEPT !.at = "arrived"]],
         client' = [client EXCEPT ![s].tries = @ + 1],
         UNCHANGED <<keyed, trouble, schedule, fires, stage, alerts, alerted, rules, interrupted>>
  PROVE  TrafficInv'
<1> DEFINE c == [at |-> "arrived", method |-> "GET", attempts |-> 0, late |-> 0, carried |-> 0,
                 answer |-> "none"]
<1>1. [Free EXCEPT !.at = "arrived"] = c
  BY DEF Free
<1>2. Sound(c) /\ c.at = "arrived" /\ c.method = "GET" /\ c.carried = 0
  <2>1. /\ c \in CallState /\ c.at = "arrived" /\ c.method = "GET" /\ c.attempts = 0
        /\ c.late = 0 /\ c.carried = 0 /\ c.answer = "none"
    BY GatewayAssumption DEF CallState, Methods, InHandler
  <2> HIDE DEF c
  <2>2. AttemptsAreCounted(c)
    BY <2>1 DEF AttemptsAreCounted
  <2>3. AnswerIsHonest(c)
    BY <2>1 DEF AnswerIsHonest, Refusals
  <2> QED
    BY <2>1, <2>2, <2>3 DEF Sound
<1>3. call' = [call EXCEPT ![s] = c]
  BY <1>1
<1> HIDE DEF c
<1>4. CallsInv'
  <2>1. CallsInv /\ keyed' \in BOOLEAN /\ trouble' \in 0 .. MaxTrouble
    BY MonitorIs DEF CallsInv
  <2>2. CallMoves(s, c)
    BY <1>2, <1>3, <2>1 DEF CallMoves, Goes
  <2> QED
    BY <2>1, <2>2, OneCallMoves
<1>5. PICK k \in ClientState : k = client[s]
  BY MonitorIs
<1> DEFINE j == [k EXCEPT !.tries = @ + 1]
<1>6. k.tries + 1 \in 0 .. ClientTries
  BY <1>5, MonitorAssumption DEF ClientState
<1>7. j \in ClientState /\ j.by = k.by /\ j.is = k.is
  BY <1>6 DEF ClientState
<1>8. client' = [client EXCEPT ![s] = j]
  BY <1>5
<1> HIDE DEF j
<1>9. k.by # Nobody
  BY <1>5, MonitorIs DEF Claimed
<1>10. SlotChanges(s, c, j)
  BY <1>2, <1>3, <1>5, <1>7, <1>8, <1>9 DEF SlotChanges
<1> QED
  BY <1>4, <1>10, SlotChangesRight

(* The stage of a call makes several when it awaits another one too.         *)
LEMMA AnotherIsAwaited ==
  ASSUME TrafficInv, NEW n \in Names, NEW s \in Awaited(n), NEW t \in Awaited(n), s # t
  PROVE  MakesSeveral(n)
<1>1. /\ stage[n] \in DOMAIN Script(n)
      /\ Cardinality(Awaited(n)) = Script(n)[stage[n]].calls
  BY MonitorIs DEF StageIsAwaited
<1>2. Awaited(n) \subseteq Slots
  BY DEF Awaited
<1>3. /\ IsFiniteSet(Awaited(n)) /\ Cardinality(Awaited(n)) \in Nat
      /\ IsFiniteSet({s, t}) /\ Cardinality({s, t}) = 2
  <2>1. IsFiniteSet({s}) /\ Cardinality({s}) = 1
    BY FS_Singleton
  <2>2. IsFiniteSet({s} \cup {t}) /\ Cardinality({s} \cup {t}) = Cardinality({s}) + 1
    BY <2>1, FS_AddElement
  <2>3. {s} \cup {t} = {s, t}
    OBVIOUS
  <2> QED
    BY <1>2, <2>1, <2>2, <2>3, SlotsAreCounted
<1>4. Cardinality({s, t}) <= Cardinality(Awaited(n))
  <2>1. {s, t} \subseteq Awaited(n)
    OBVIOUS
  <2> QED
    BY <1>3, <2>1, FS_Subset
<1>5. Script(n)[stage[n]].calls > 1
  BY <1>1, <1>3, <1>4
<1> QED
  BY <1>1, <1>5 DEF MakesSeveral

LEMMA ThrowIsRight ==
  ASSUME TrafficInv, CallsInv', NEW s \in Slots, Throw(s), client[s].is # "gone",
         UNCHANGED <<call, schedule, fires, rules, interrupted>>
  PROVE  TrafficInv'
<1>1. PICK n \in Names : n = client[s].by
  BY MonitorIs DEF Claimed, ClientState
<1>2. \A t \in Slots : Claimed(t) /\ client[t] \in ClientState
  BY MonitorIs
<1>3. \A t \in Slots : /\ [client[t] EXCEPT !.is = "gone"] \in ClientState
                       /\ [client[t] EXCEPT !.is = "gone"].by = client[t].by
                       /\ [client[t] EXCEPT !.is = "gone"].is = "gone"
                       /\ [client[t] EXCEPT !.is = "orphan"] \in ClientState
                       /\ [client[t] EXCEPT !.is = "orphan"].by = client[t].by
                       /\ [client[t] EXCEPT !.is = "orphan"].is = "orphan"
  BY <1>2, GoneIs
<1>4. CASE client[s].is = "awaited"
  <2>1. /\ client' = [t \in Slots |->
                        IF t = s THEN [client[t] EXCEPT !.is = "gone"]
                        ELSE IF t \in Awaited(n) THEN [client[t] EXCEPT !.is = "orphan"]
                        ELSE client[t]]
        /\ stage' = [stage EXCEPT ![n] = 0] /\ Alert(n, TRUE)
    BY <1>1, <1>4 DEF Throw, StopRunning
  <2>2. s \in Awaited(n)
    BY <1>1, <1>4 DEF Awaited
  <2>3. ASSUME NEW t \in Slots
        PROVE  /\ client'[t] \in ClientState /\ client'[t].by = client[t].by
               /\ t \notin Awaited(n) => client'[t] = client[t]
               /\ t \in Awaited(n) => client'[t].is # "awaited"
               /\ t = s => client'[t].is = "gone"
    BY <1>2, <1>3, <2>1, <2>2
  <2>4. /\ client' \in [Slots -> ClientState]
    BY <2>1, <2>3
  <2>5. \A t \in Slots : Claimed(t)'
    <3>1. ASSUME NEW t \in Slots, call[t].at = "free" PROVE client'[t] = NoClient
      <4>1. client[t] = NoClient
        BY <1>2, <3>1 DEF Claimed
      <4>2. t \notin Awaited(n)
        BY <4>1, ClientsAre DEF Awaited
      <4> QED
        BY <2>3, <4>1, <4>2
    <3>2. ASSUME NEW t \in Slots, client'[t].is # "gone" PROVE client'[t].by # Nobody
      BY <1>2, <2>3, <3>2, NamesAre DEF Claimed, Awaited
    <3> QED
      BY <2>3, <3>1, <3>2 DEF Claimed
  <2>6. Awaited(n)' = {}
    BY <2>3 DEF Awaited
  <2>7. ASSUME NEW m \in Names \ {n}
        PROVE  Awaited(m)' = Awaited(m) /\ Orphans(m)' = Orphans(m)
    <3>1. ASSUME NEW t \in Slots, client[t].by = m \/ client'[t].by = m
          PROVE  client'[t] = client[t]
      BY <2>3, <3>1 DEF Awaited
    <3> QED
      BY <3>1 DEF Awaited, Orphans
  <2>8. /\ alerts' \in [Names -> Nat] /\ alerted' \in [Names -> BOOLEAN]
        /\ \A m \in Names \ {n} : alerts'[m] = alerts[m] /\ alerted'[m] = alerted[m]
        /\ alerted'[n]
        /\ alerts'[n] = (IF ~alerted[n] THEN alerts[n] + 1 ELSE alerts[n])
        /\ alerts'[n] >= alerts[n] /\ alerts'[n] > 0
    BY <2>1, AlertIs
  <2>9. /\ stage' \in [Names -> 0 .. 3] /\ stage'[n] = 0
        /\ \A m \in Names \ {n} : stage'[m] = stage[m]
    BY <2>1, MonitorIs
  <2>10. MonitorIsTyped'
    BY <2>4, <2>8, <2>9, MonitorIs DEF MonitorIsTyped
  <2>11. ASSUME NEW m \in Names PROVE StageIsAwaited(m)'
    <3>1. CASE m = n
      BY <2>6, <2>9, <3>1 DEF StageIsAwaited, Running
    <3>2. CASE m # n
      <4>1. /\ StageIsAwaited(m) /\ Awaited(m)' = Awaited(m) /\ stage'[m] = stage[m]
            /\ call' = call
        BY <2>7, <2>9, <3>2, MonitorIs
      <4> QED
        BY <4>1 DEF StageIsAwaited, Running
    <3> QED
      BY <3>1, <3>2
  <2>12. ASSUME NEW m \in Names PROVE AlertsAreCounted(m)'
    <3>1. CASE m = n
      <4>1. ASSUME NEW t \in Orphans(n)' PROVE MakesSeveral(n)
        <5>1. t \in Slots /\ client'[t].by = n /\ client'[t].is = "orphan"
          BY <4>1 DEF Orphans
        <5>2. CASE t \in Awaited(n)
          <6>1. t # s
            BY <2>3, <5>1
          <6> QED
            BY <2>2, <5>2, <6>1, AnotherIsAwaited
        <5>3. CASE t \notin Awaited(n)
          <6>1. t \in Orphans(n)
            BY <2>3, <5>1, <5>3 DEF Orphans
          <6> QED
            BY <6>1, MonitorIs DEF AlertsAreCounted
        <5> QED
          BY <5>2, <5>3
      <4> QED
        BY <2>8, <3>1, <4>1 DEF AlertsAreCounted
    <3>2. CASE m # n
      <4>1. /\ AlertsAreCounted(m) /\ Orphans(m)' = Orphans(m) /\ alerts'[m] = alerts[m]
            /\ alerted'[m] = alerted[m]
        BY <2>7, <2>8, <3>2, MonitorIs
      <4> QED
        BY <4>1 DEF AlertsAreCounted
    <3> QED
      BY <3>1, <3>2
  <2>13. RulesAreCovered'
    <3>1. Creating' = Creating
      BY <2>3 DEF Creating
    <3>2. /\ Cardinality(Creating)' \in Nat
          /\ Cardinality(Creating)' <= Cardinality(Creating) + 0
      BY <3>1, MonitorIs
    <3>3. /\ Own' \in 0 .. 1 /\ Own \in 0 .. 1
          /\ alerts[Mutation] \in Nat /\ alerts'[Mutation] \in Nat /\ 0 \in 0 .. 1
      <4>1. Own' \in 0 .. 1
        BY DEF Own
      <4>2. Own \in 0 .. 1 /\ alerts \in [Names -> Nat] /\ Mutation \in Names
        BY MonitorIs, NamesAre
      <4>3. alerts[Mutation] \in Nat /\ alerts'[Mutation] \in Nat
        BY <2>8, <4>2
      <4> QED
        BY <4>1, <4>2, <4>3
    <3>4. alerts[Mutation] + Own + 0 <= alerts'[Mutation] + Own'
      <4>1. CASE n = Mutation
        <5>1. alerted[n] => Own = 0
          BY <4>1 DEF Own
        <5> QED
          BY <2>8, <3>3, <4>1, <5>1
      <4>2. CASE n # Mutation
        <5>1. /\ stage'[Mutation] = stage[Mutation] /\ alerted'[Mutation] = alerted[Mutation]
              /\ alerts'[Mutation] = alerts[Mutation] /\ Awaited(Mutation)' = Awaited(Mutation)
          BY <2>7, <2>8, <2>9, <4>2, NamesAre
        <5>2. Own' = Own
          BY <5>1 DEF Own, Running, Deleted
        <5> QED
          BY <3>3, <5>1, <5>2
      <4> QED
        BY <4>1, <4>2
    <3> QED
      BY <3>2, <3>3, <3>4, StaysCovered
  <2> QED
    BY <2>5, <2>10, <2>11, <2>12, <2>13 DEF TrafficInv
<1>5. CASE client[s].is # "awaited"
  <2>1. PICK k \in ClientState : k = client[s]
    BY <1>2
  <2> DEFINE j == [k EXCEPT !.is = "gone"]
  <2>2. j \in ClientState /\ j.by = k.by /\ j.is = "gone"
    BY GoneIs
  <2>3. client' = [client EXCEPT ![s] = j] /\ UNCHANGED <<stage, alerts, alerted>>
    BY <1>5, <2>1 DEF Throw
  <2> HIDE DEF j
  <2>4. call[s].at # "free"
    BY <1>2, ClientsAre DEF Claimed
  <2>5. call' = [call EXCEPT ![s] = call[s]]
    BY MonitorIs DEF CallsInv
  <2>6. j.by = Mutation /\ call[s].method = "POST" /\ CanCarry(call[s]) => s \in Creating
    BY <2>1, <2>2 DEF Creating
  <2>7. SlotChanges(s, call[s], j)
    BY <1>5, <2>2, <2>3, <2>4, <2>5, <2>6 DEF SlotChanges
  <2> QED
    BY <2>7, SlotChangesRight
<1> QED
  BY <1>4, <1>5

LEMMA ClientLostIsRight ==
  ASSUME TrafficInv, NEW s \in Slots, ClientLost(s)
  PROVE  TrafficInv'
<1>1. client[s].is # "gone" /\ UNCHANGED <<keyed, trouble, schedule, fires, rules, interrupted>>
  BY DEF ClientLost
<1>2. CASE call[s].method = "GET" /\ client[s].tries < ClientTries
  <2>1. /\ call' = [call EXCEPT ![s] = [Free EXCEPT !.at = "arrived"]]
        /\ client' = [client EXCEPT ![s].tries = @ + 1]
        /\ UNCHANGED <<stage, alerts, alerted>>
    BY <1>2 DEF ClientLost
  <2> QED
    BY <1>1, <1>2, <2>1, ResendIsRight
<1>3. CASE ~(call[s].method = "GET" /\ client[s].tries < ClientTries)
  <2>1. Throw(s) /\ UNCHANGED call
    BY <1>3 DEF ClientLost
  <2>2. CallsInv'
    BY <1>1, <2>1, MonitorIs DEF CallsInv
  <2> QED
    BY <1>1, <2>1, <2>2, ThrowIsRight
<1> QED
  BY <1>2, <1>3

LEMMA ClientAbortsIsRight ==
  ASSUME TrafficInv, NEW s \in Slots, ClientAborts(s)
  PROVE  TrafficInv'
<1>1. /\ client[s].is # "gone" /\ Throw(s) /\ Trouble
      /\ UNCHANGED <<keyed, call, schedule, fires, rules, interrupted>>
  BY DEF ClientAborts
<1>2. CallsInv'
  <2>1. CallsInv
    BY MonitorIs
  <2>2. trouble' \in 0 .. MaxTrouble
    BY <1>1, <2>1, GatewayAssumption DEF CallsInv, Trouble
  <2> QED
    BY <1>1, <2>1, <2>2 DEF CallsInv
<1> QED
  BY <1>1, <1>2, ThrowIsRight

(* The rule of a run at work is from now on one of an interrupted run.       *)
LEMMA RestartMonitorIsRight ==
  ASSUME TrafficInv, RestartMonitor
  PROVE  TrafficInv'
<1> DEFINE lost == IF Running(Mutation) /\ ~alerted[Mutation] THEN 1 ELSE 0
<1>1. /\ stage' = [n \in Names |-> 0]
      /\ client' = [s \in Slots |-> [client[s] EXCEPT !.is = "gone"]]
      /\ interrupted' = interrupted + lost /\ Trouble
      /\ UNCHANGED <<keyed, call, schedule, fires, alerts, alerted, rules>>
  BY DEF RestartMonitor, Mutation
<1>2. lost \in 0 .. 1 /\ Own \in 0 .. 1 /\ Own <= lost
  BY DEF Own
<1> HIDE DEF lost
<1>3. ASSUME NEW s \in Slots
      PROVE  /\ client'[s] \in ClientState /\ client'[s].by = client[s].by /\ client'[s].is = "gone"
             /\ client[s] = NoClient => client'[s] = NoClient
  <2>1. client[s] \in ClientState
    BY MonitorIs
  <2>2. client[s] = NoClient => [client[s] EXCEPT !.is = "gone"] = NoClient
    BY DEF NoClient
  <2> QED
    BY <1>1, <2>1, <2>2, GoneIs
<1>4. CallsInv'
  <2>1. CallsInv
    BY MonitorIs
  <2>2. trouble' \in 0 .. MaxTrouble
    BY <1>1, <2>1, GatewayAssumption DEF CallsInv, Trouble
  <2> QED
    BY <1>1, <2>1, <2>2 DEF CallsInv
<1>5. MonitorIsTyped'
  <2>1. client' \in [Slots -> ClientState]
    BY <1>1, <1>3
  <2>2. interrupted' \in Nat
    BY <1>1, <1>2, MonitorIs
  <2>3. stage' \in [Names -> 0 .. 3]
    BY <1>1
  <2> QED
    BY <1>1, <2>1, <2>2, <2>3, MonitorIs DEF MonitorIsTyped
<1>6. \A s \in Slots : Claimed(s)'
  BY <1>1, <1>3, MonitorIs DEF Claimed
<1>7. ASSUME NEW n \in Names PROVE StageIsAwaited(n)' /\ AlertsAreCounted(n)'
  <2>1. Awaited(n)' = {} /\ Orphans(n)' = {} /\ stage'[n] = 0
    BY <1>1, <1>3 DEF Awaited, Orphans
  <2>2. AlertsAreCounted(n)
    BY MonitorIs
  <2> QED
    BY <1>1, <2>1, <2>2 DEF StageIsAwaited, AlertsAreCounted, Running
<1>8. RulesAreCovered'
  <2>1. Creating' = Creating
    BY <1>1, <1>3 DEF Creating
  <2>2. Own' \in 0 .. 1
    BY DEF Own
  <2>3. /\ rules + Cardinality(Creating) <= alerts[Mutation] + interrupted + Own
        /\ interrupted \in Nat /\ alerts[Mutation] \in Nat /\ rules \in Int
        /\ Cardinality(Creating) \in Nat
    BY MonitorIs, NamesAre DEF RulesAreCovered
  <2>4. rules + Cardinality(Creating) <= alerts[Mutation] + (interrupted + lost) + Own'
    BY <1>2, <2>2, <2>3
  <2> QED
    BY <1>1, <2>1, <2>4 DEF RulesAreCovered
<1> QED
  BY <1>4, <1>5, <1>6, <1>7, <1>8 DEF TrafficInv

LEMMA TrafficGoesOn == TrafficInv /\ [TrafficNext]_trafficVars => TrafficInv'
<1> SUFFICES ASSUME TrafficInv, [TrafficNext]_trafficVars PROVE TrafficInv'
  OBVIOUS
<1>1. ASSUME NEW n \in Names, Fire(n) \/ StageOver(n) PROVE TrafficInv'
  BY <1>1, FireIsRight, StageOverIsRight
<1>2. ASSUME NEW s \in Slots, Work(s) PROVE TrafficInv'
  BY <1>2, WorkIsRight
<1>3. ASSUME NEW s \in Slots, ClientLost(s) \/ ClientAborts(s) \/ Forget(s) PROVE TrafficInv'
  BY <1>3, ClientLostIsRight, ClientAbortsIsRight, ForgetIsRight
<1>4. CASE RestartGateway /\ UNCHANGED monitorVars
  <2>1. CASE Slots = {}
    <3>1. call' = call
      BY <2>1, MonitorIs, <1>4 DEF RestartGateway, CallsInv
    <3>2. CallsInv'
      BY <1>4, MonitorIs, RestartIsHonest
    <3> QED
      BY <1>4, <3>1, <3>2, MonitorIs, MonitorStands DEF monitorVars
  <2>2. CASE \E s \in Slots : TRUE
    BY <1>4, <2>2, RestartGatewayIsRight
  <2> QED
    BY <2>1, <2>2
<1>5. CASE RestartRedis /\ UNCHANGED monitorVars
  <2>1. CallsInv' /\ call' = call
    BY <1>5, MonitorIs, StepIsHonest DEF GatewayNext, RestartRedis
  <2> QED
    BY <1>5, <2>1, MonitorIs, MonitorStands DEF monitorVars
<1>7. CASE RestartMonitor
  BY <1>7, RestartMonitorIsRight
<1>6. CASE UNCHANGED trafficVars
  <2>1. UNCHANGED gatewayVars /\ UNCHANGED monitorVars /\ call' = call
    BY <1>6 DEF trafficVars, gatewayVars
  <2>2. CallsInv'
    BY <2>1, MonitorIs, StepIsHonest
  <2> QED
    BY <2>1, <2>2, MonitorIs, MonitorStands DEF monitorVars
<1> QED
  BY <1>1, <1>2, <1>3, <1>4, <1>5, <1>6, <1>7 DEF TrafficNext

LEMMA TrafficInvariant == TrafficSpec => []TrafficInv
<1> QED
  BY TrafficBegins, TrafficGoesOn, PTL DEF TrafficSpec

(* priceRuleMutation.ts:14-41: a price rule is left behind only by a run of  *)
(* the mutation scenario that has alerted, or that the end of the monitor    *)
(* cut short (index.ts:38-45), whatever the gateway and the service make of  *)
(* its three calls and however late they are carried out.                    *)
THEOREM LeftoverRulesStayAlerted == TrafficSpec => []LeftoverRulesAreAlerted
<1>1. TrafficInv => LeftoverRulesAreAlerted
  <2> SUFFICES ASSUME TrafficInv PROVE LeftoverRulesAreAlerted
    OBVIOUS
  <2>1. /\ rules + Cardinality(Creating) <= alerts[Mutation] + interrupted + Own
        /\ interrupted \in Nat /\ alerts[Mutation] \in Nat /\ rules \in Int /\ Cardinality(Creating) \in Nat
    BY MonitorIs, NamesAre DEF RulesAreCovered
  <2>2. Own = 0 \/ (Own = 1 /\ Running(Mutation))
    BY DEF Own
  <2>3. rules <= alerts[Mutation] + interrupted + (IF Running(Mutation) THEN 1 ELSE 0)
    BY <2>1, <2>2
  <2> QED
    BY <2>3 DEF LeftoverRulesAreAlerted, Mutation
<1> QED
  BY <1>1, TrafficInvariant, PTL

(* scheduler.ts:21-40: runs of a scenario do not overlap.  What is awaited   *)
(* is the calls of one stage of one run, and a call of an earlier run is     *)
(* still on its way only after a run that made several at once has alerted.  *)
THEOREM CallsStayWithTheirRun == TrafficSpec => []CallsBelongToTheirRun
<1>1. TrafficInv => CallsBelongToTheirRun
  <2> SUFFICES ASSUME TrafficInv PROVE CallsBelongToTheirRun
    OBVIOUS
  <2>1. \A n \in Names : StageIsAwaited(n) /\ AlertsAreCounted(n)
    BY MonitorIs
  <2> QED
    BY <2>1 DEF CallsBelongToTheirRun, StageIsAwaited, AlertsAreCounted, Orphans, MakesSeveral
<1> QED
  BY <1>1, TrafficInvariant, PTL

-------------------------------------------------------------------------------
(* The cached reads of an order *)

StatusOfOrder == {"none", "pending", "reserved", "confirmed", "shipped", "cancelled", "failed"}
RowState == [status : StatusOfOrder, intent : BOOLEAN]
StoredState == [order : RowState, parcel : {"none", "preparing", "dispatched", "delivered"}]

Begun == [at : {"order"}, key : Keys, late : BOOLEAN]
Seen == [at : {"shipment", "store"}, key : Keys, late : BOOLEAN, seen : StoredState]

(* Who reads or stores something else than there is has an excuse.           *)
HasExcuse(late) == late \/ owed > 0 \/ missed.since

StoredIsRight ==
  stored \in StoredState /\ (stored.order.status = "shipped" => stored.parcel # "none")

(* A loader with the order in its hands goes on to its shipment; one that    *)
(* has both, or needs the order only, stores it.                             *)
HasOrder(v) ==
  /\ v.key = "timeline"
  /\ v.seen.order.status = stored.order.status \/ HasExcuse(v.late)
  /\ v.seen.order.status = "shipped" => stored.parcel # "none"
HasAll(v) ==
  /\ Shown(v.key, v.seen) = Shown(v.key, stored) \/ HasExcuse(v.late)
  /\ v.key = "timeline" /\ v.seen.order.status = "shipped" => v.seen.parcel # "none"

ReadIsRight(v) ==
  \/ v = NotReading
  \/ v \in Begun
  \/ v \in Seen /\ (v.at = "shipment" => HasOrder(v)) /\ (v.at = "store" => HasAll(v))

EntryIsRight(k, e) ==
  \/ e = NoEntry
  \/ /\ e.shows = Shown(k, stored) \/ HasExcuse(e.late)
     /\ k = "timeline" /\ e.shows.status = "shipped" => e.shows.parcel # "none"

ReadsInv ==
  /\ owed \in Nat /\ StoredIsRight
  /\ reading = [r \in ReadHandlers |-> reading[r]] /\ entry = [k \in Keys |-> entry[k]]
  /\ (\A r \in ReadHandlers : ReadIsRight(reading[r]))
  /\ (\A k \in Keys : EntryIsRight(k, entry[k]))

LEMMA ReadsBegin == OrderReadsInit => ReadsInv
<1> SUFFICES ASSUME OrderReadsInit PROVE ReadsInv
  OBVIOUS
<1>1. StoredIsRight
  BY DEF OrderReadsInit, StoredIsRight, StoredState, RowState, StatusOfOrder, Row
<1> QED
  BY <1>1 DEF OrderReadsInit, ReadsInv, ReadIsRight, EntryIsRight

(* What the order can become.                                                *)
Follows(next) ==
  /\ next \in StoredState /\ (next.order.status = "shipped" => next.parcel # "none")
  /\ stored.parcel # "none" => next.parcel # "none"

(* A change gives an excuse to everybody, until it has been told.            *)
LEMMA ChangeIsExcused ==
  ASSUME ReadsInv, NEW next, Follows(next), Committed(next)
  PROVE  ReadsInv'
<1>1. /\ owed \in Nat /\ UNCHANGED <<entry, reading>> /\ stored' = next
      /\ (\A r \in ReadHandlers : ReadIsRight(reading[r]))
      /\ (\A k \in Keys : EntryIsRight(k, entry[k]))
  BY DEF ReadsInv, Committed
<1>2. owed' \in Nat /\ (owed' > 0 \/ missed'.since)
  BY <1>1 DEF Committed
<1>3. StoredIsRight'
  BY <1>1 DEF Follows, StoredIsRight
<1>4. ASSUME NEW r \in ReadHandlers PROVE ReadIsRight(reading[r])'
  <2>1. ReadIsRight(reading[r]) /\ reading'[r] = reading[r]
    BY <1>1
  <2>2. stored.parcel # "none" => stored'.parcel # "none"
    BY <1>1 DEF Follows
  <2> QED
    BY <1>2, <2>1, <2>2 DEF ReadIsRight, HasOrder, HasAll, HasExcuse
<1>5. ASSUME NEW k \in Keys PROVE EntryIsRight(k, entry[k])'
  <2>1. EntryIsRight(k, entry[k]) /\ entry'[k] = entry[k]
    BY <1>1
  <2> QED
    BY <1>2, <2>1 DEF EntryIsRight, HasExcuse
<1> QED
  BY <1>1, <1>2, <1>3, <1>4, <1>5 DEF ReadsInv

LEMMA ChangesFollow ==
  ASSUME ReadsInv, ChangeStatus \/ AttachIntent \/ ShipOrder \/ MoveParcel
  PROVE  \E next : Follows(next) /\ Committed(next)
<1>1. /\ stored \in StoredState /\ (stored.order.status = "shipped" => stored.parcel # "none")
      /\ stored.order \in RowState
  BY DEF ReadsInv, StoredIsRight, StoredState
<1>2. CASE ChangeStatus
  <2>1. PICK status \in Successors(stored.order.status) :
          Committed([stored EXCEPT !.order = [@ EXCEPT !.status = status]])
    BY <1>2 DEF ChangeStatus
  <2>2. status \in StatusOfOrder /\ status # "shipped"
    BY <1>1 DEF Successors, StatusOfOrder, RowState
  <2>3. PICK row \in RowState : row = stored.order
    BY <1>1
  <2> DEFINE changed == [row EXCEPT !.status = status]
             next == [stored EXCEPT !.order = changed]
  <2>4. changed \in RowState /\ changed.status = status
    BY <2>2 DEF RowState
  <2>5. Committed(next)
    BY <2>1, <2>3
  <2> HIDE DEF changed
  <2>6. next \in StoredState /\ next.order = changed /\ next.parcel = stored.parcel
    BY <1>1, <2>4 DEF StoredState
  <2> HIDE DEF next
  <2>7. Follows(next)
    BY <2>2, <2>4, <2>6 DEF Follows
  <2> QED
    BY <2>5, <2>7
<1>3. CASE AttachIntent
  <2> DEFINE row == Row("reserved", TRUE)
             next == [stored EXCEPT !.order = row]
  <2>1. row \in RowState /\ row.status = "reserved"
    BY DEF Row, RowState, StatusOfOrder
  <2>2. Committed(next)
    BY <1>3 DEF AttachIntent
  <2> HIDE DEF row
  <2>3. next \in StoredState /\ next.order = row /\ next.parcel = stored.parcel
    BY <1>1, <2>1 DEF StoredState
  <2> HIDE DEF next
  <2>4. Follows(next)
    BY <2>1, <2>3 DEF Follows
  <2> QED
    BY <2>2, <2>4
<1>4. CASE ShipOrder
  <2>1. PICK row \in RowState : row = stored.order
    BY <1>1
  <2> DEFINE changed == [row EXCEPT !.status = "shipped"]
             next == [order |-> changed, parcel |-> "preparing"]
  <2>2. changed \in RowState
    BY DEF RowState, StatusOfOrder
  <2>3. Committed(next)
    BY <1>4, <2>1 DEF ShipOrder
  <2> HIDE DEF changed
  <2>4. next \in StoredState /\ next.parcel = "preparing"
    BY <2>2 DEF StoredState
  <2> HIDE DEF next
  <2>5. Follows(next)
    BY <2>4 DEF Follows
  <2> QED
    BY <2>3, <2>5
<1>5. CASE MoveParcel
  <2>1. PICK parcel \in {"dispatched", "delivered"} :
          Committed([stored EXCEPT !.parcel = parcel])
    BY <1>5 DEF MoveParcel
  <2> DEFINE next == [stored EXCEPT !.parcel = parcel]
  <2>2. next \in StoredState /\ next.parcel = parcel
    BY <1>1 DEF StoredState
  <2>3. Committed(next)
    BY <2>1
  <2> HIDE DEF next
  <2>4. Follows(next)
    BY <2>2 DEF Follows
  <2> QED
    BY <2>3, <2>4
<1> QED
  BY <1>2, <1>3, <1>4, <1>5

LEMMA InvalidationIsRight ==
  ASSUME ReadsInv, Invalidate
  PROVE  ReadsInv'
<1>1. /\ owed \in Nat /\ owed > 0 /\ owed' = owed - 1 /\ stored' = stored
      /\ entry' = [k \in Keys |-> NoEntry] /\ reading' = Overtaken
      /\ StoredIsRight /\ (\A r \in ReadHandlers : ReadIsRight(reading[r]))
  BY DEF ReadsInv, Invalidate
<1>2. owed' \in Nat /\ StoredIsRight'
  BY <1>1 DEF StoredIsRight
<1>3. ASSUME NEW r \in ReadHandlers PROVE ReadIsRight(reading[r])'
  <2>1. PICK v : v = reading[r]
    OBVIOUS
  <2>2. reading'[r] = IF v.at = "idle" THEN NotReading ELSE [v EXCEPT !.late = TRUE]
    BY <1>1, <2>1 DEF Overtaken
  <2>3. ReadIsRight(v)
    BY <1>1, <2>1
  <2>4. CASE v = NotReading
    BY <2>2, <2>4 DEF NotReading, ReadIsRight
  <2> DEFINE w == [v EXCEPT !.late = TRUE]
  <2>5. CASE v \in Begun
    <3>1. v.at # "idle" /\ w \in Begun
      BY <2>5 DEF Begun
    <3>2. reading'[r] \in Begun
      BY <2>2, <3>1
    <3> QED
      BY <3>2 DEF ReadIsRight
  <2>6. CASE v \in Seen /\ (v.at = "shipment" => HasOrder(v)) /\ (v.at = "store" => HasAll(v))
    <3>1. /\ v.at # "idle" /\ w \in Seen /\ w.late = TRUE
          /\ w.at = v.at /\ w.key = v.key /\ w.seen = v.seen
      BY <2>6 DEF Seen
    <3>2. reading'[r] = w
      BY <2>2, <3>1
    <3> HIDE DEF w
    <3>3. w.at = "shipment" => HasOrder(w)'
      BY <1>1, <2>6, <3>1 DEF HasOrder, HasExcuse
    <3>4. w.at = "store" => HasAll(w)'
      BY <1>1, <2>6, <3>1 DEF HasAll, HasExcuse
    <3> QED
      BY <3>1, <3>2, <3>3, <3>4 DEF ReadIsRight
  <2> QED
    BY <2>3, <2>4, <2>5, <2>6 DEF ReadIsRight
<1>4. ASSUME NEW k \in Keys PROVE EntryIsRight(k, entry[k])'
  BY <1>1 DEF EntryIsRight
<1>5. reading' = [r \in ReadHandlers |-> reading'[r]] /\ entry' = [k \in Keys |-> entry'[k]]
  BY <1>1 DEF Overtaken
<1> QED
  BY <1>2, <1>3, <1>4, <1>5 DEF ReadsInv

(* Steps that leave the order and its writers alone.                         *)
LEMMA LooksOn ==
  ASSUME ReadsInv, UNCHANGED <<stored, owed, missed>>,
         reading' = [r \in ReadHandlers |-> reading'[r]], entry' = [k \in Keys |-> entry'[k]],
         \A r \in ReadHandlers : reading'[r] = reading[r] \/ ReadIsRight(reading'[r]),
         \A k \in Keys : entry'[k] = entry[k] \/ EntryIsRight(k, entry'[k])
  PROVE  ReadsInv'
<1>1. owed' \in Nat /\ StoredIsRight'
  BY DEF ReadsInv, StoredIsRight
<1>2. ASSUME NEW r \in ReadHandlers PROVE ReadIsRight(reading[r])'
  <2>1. ReadIsRight(reading'[r])
    BY DEF ReadsInv
  <2> QED
    BY <2>1 DEF ReadIsRight, HasOrder, HasAll, HasExcuse
<1>3. ASSUME NEW k \in Keys PROVE EntryIsRight(k, entry[k])'
  <2>1. EntryIsRight(k, entry'[k])
    BY DEF ReadsInv
  <2> QED
    BY <2>1 DEF EntryIsRight, HasExcuse
<1> QED
  BY <1>1, <1>2, <1>3 DEF ReadsInv

(* One request goes on with v.                                               *)
LEMMA ReaderGoesOn ==
  ASSUME ReadsInv, NEW r \in ReadHandlers, NEW v, ReadIsRight(v),
         reading' = [reading EXCEPT ![r] = v], UNCHANGED <<stored, owed, missed, entry>>
  PROVE  ReadsInv'
<1>1. reading = [q \in ReadHandlers |-> reading[q]] /\ entry = [k \in Keys |-> entry[k]]
  BY DEF ReadsInv
<1>2. reading' = [q \in ReadHandlers |-> IF q = r THEN v ELSE reading[q]]
  BY <1>1
<1>3. /\ reading' = [q \in ReadHandlers |-> reading'[q]]
      /\ \A q \in ReadHandlers : reading'[q] = reading[q] \/ ReadIsRight(reading'[q])
  BY <1>2
<1>4. entry' = [k \in Keys |-> entry'[k]] /\ \A k \in Keys : entry'[k] = entry[k]
  BY <1>1
<1> QED
  BY <1>3, <1>4, LooksOn

LEMMA ReadStepIsRight ==
  ASSUME ReadsInv, NEW r \in ReadHandlers, ReadStep(r)
  PROVE  ReadsInv'
<1>1. PICK v : v = reading[r]
  OBVIOUS
<1>2. /\ ReadIsRight(v) /\ stored \in StoredState
      /\ stored.order.status = "shipped" => stored.parcel # "none"
      /\ reading = [q \in ReadHandlers |-> reading[q]] /\ entry = [k \in Keys |-> entry[k]]
  BY <1>1 DEF ReadsInv, StoredIsRight
<1>3. ASSUME v.at \in {"shipment", "store"}
      PROVE  v \in Seen /\ (v.at = "shipment" => HasOrder(v)) /\ (v.at = "store" => HasAll(v))
  BY <1>2, <1>3 DEF ReadIsRight, NotReading, Begun
<1>4. ASSUME v.at = "order" PROVE v \in Begun
  BY <1>2, <1>4 DEF ReadIsRight, NotReading, Seen
<1>5. ReadIsRight(NotReading)
  BY DEF ReadIsRight
<1>6. ASSUME NEW k \in Keys, Miss(r, k) PROVE ReadsInv'
  <2> DEFINE w == [at |-> "order", key |-> k, late |-> FALSE]
  <2>1. w \in Begun /\ reading' = [reading EXCEPT ![r] = w] /\ UNCHANGED <<stored, owed, missed, entry>>
    BY <1>6 DEF Miss, Begun
  <2> HIDE DEF w
  <2>2. ReadIsRight(w)
    BY <2>1 DEF ReadIsRight
  <2> QED
    BY <2>1, <2>2, ReaderGoesOn
<1>7. CASE LoadOrder(r)
  <2>1. v \in Begun /\ UNCHANGED <<stored, owed, missed, entry>>
    BY <1>1, <1>4, <1>7 DEF LoadOrder
  <2> DEFINE w == [at |-> IF v.key = "order" THEN "store" ELSE "shipment",
                   key |-> v.key, late |-> v.late, seen |-> stored]
  <2>2. CASE stored.order.status = "none"
    <3>1. reading' = [reading EXCEPT ![r] = NotReading]
      BY <1>7, <2>2 DEF LoadOrder
    <3> QED
      BY <1>5, <2>1, <3>1, ReaderGoesOn
  <2>3. CASE stored.order.status # "none"
    <3>1. reading' = [reading EXCEPT ![r] = w]
      BY <1>1, <1>7, <2>3 DEF LoadOrder
    <3>2. /\ w \in Seen /\ w.key = v.key /\ w.seen = stored
          /\ w.at = "shipment" => v.key = "timeline"
      BY <1>2, <2>1 DEF Begun, Seen, Keys
    <3> HIDE DEF w
    <3>3. ReadIsRight(w)
      BY <1>2, <3>2 DEF ReadIsRight, HasOrder, HasAll
    <3> QED
      BY <2>1, <3>1, <3>3, ReaderGoesOn
  <2> QED
    BY <2>2, <2>3
<1>8. CASE LoadShipment(r)
  <2>1. /\ v.at = "shipment" /\ v \in Seen /\ HasOrder(v)
        /\ UNCHANGED <<stored, owed, missed, entry>>
    BY <1>1, <1>3, <1>8 DEF LoadShipment
  <2>2. PICK seen \in StoredState : seen = v.seen
    BY <2>1 DEF Seen
  <2> DEFINE now == [seen EXCEPT !.parcel = stored.parcel]
  <2> DEFINE w == [v EXCEPT !.at = "store", !.seen.parcel = stored.parcel]
  <2>3. now \in StoredState /\ now.order = seen.order /\ now.parcel = stored.parcel
    BY <1>2 DEF StoredState
  <2>4. reading' = [reading EXCEPT ![r] = w]
    BY <1>1, <1>8 DEF LoadShipment
  <2>a. w.seen = now
    BY <2>1, <2>2 DEF Seen
  <2> HIDE DEF now
  <2>b. w.at = "store" /\ w.key = v.key /\ w.late = v.late
    BY <2>1 DEF Seen
  <2>c. DOMAIN v = {"at", "key", "late", "seen"}
    BY <2>1 DEF Seen
  <2>d. w \in Seen
    <3>1. DOMAIN w = {"at", "key", "late", "seen"} /\ w = [f \in DOMAIN w |-> w[f]]
      BY <2>c
    <3>2. v.key \in Keys /\ v.late \in BOOLEAN
      BY <2>1 DEF Seen
    <3>3. w = [at |-> w.at, key |-> w.key, late |-> w.late, seen |-> w.seen]
      <4> HIDE DEF w
      <4> QED
        BY <3>1
    <3>4. w = [at |-> "store", key |-> v.key, late |-> v.late, seen |-> now]
      <4> HIDE DEF w
      <4> QED
        BY <2>a, <2>b, <3>3
    <3> QED
      BY <2>3, <3>2, <3>4 DEF Seen
  <2>5. w \in Seen /\ w.at = "store" /\ w.key = v.key /\ w.late = v.late /\ w.seen = now
    BY <2>a, <2>b, <2>d
  <2> HIDE DEF w
  <2>6. HasAll(w)
    BY <2>1, <2>2, <2>3, <2>5 DEF HasOrder, HasAll, Shown
  <2>7. ReadIsRight(w)
    BY <2>5, <2>6 DEF ReadIsRight
  <2> QED
    BY <2>1, <2>4, <2>7, ReaderGoesOn
<1>9. CASE ReadThrows(r)
  BY <1>5, <1>9, ReaderGoesOn DEF ReadThrows
<1>10. CASE Put(r)
  <2>1. /\ v \in Seen /\ HasAll(v) /\ UNCHANGED <<stored, owed, missed>> /\ v.key \in Keys
        /\ reading' = [reading EXCEPT ![r] = NotReading]
    BY <1>1, <1>3, <1>10 DEF Put, Seen
  <2> DEFINE e == [is |-> "view", shows |-> Shown(v.key, v.seen), late |-> v.late]
  <2>2. entry' = [entry EXCEPT ![v.key] = e]
    BY <1>1, <1>10 DEF Put
  <2>3. e.shows = Shown(v.key, v.seen) /\ e.late = v.late
    OBVIOUS
  <2> HIDE DEF e
  <2>4. v.key = "timeline" => /\ e.shows.status = v.seen.order.status
                              /\ e.shows.parcel = v.seen.parcel
    BY <2>3 DEF Shown
  <2>5. EntryIsRight(v.key, e)
    BY <2>1, <2>3, <2>4 DEF EntryIsRight, HasAll
  <2>6. /\ entry' = [k \in Keys |-> IF k = v.key THEN e ELSE entry[k]]
        /\ reading' = [q \in ReadHandlers |-> IF q = r THEN NotReading ELSE reading[q]]
    BY <1>2, <2>1, <2>2
  <2>7. /\ entry' = [k \in Keys |-> entry'[k]]
        /\ \A k \in Keys : entry'[k] = entry[k] \/ EntryIsRight(k, entry'[k])
    BY <2>5, <2>6
  <2>8. /\ reading' = [q \in ReadHandlers |-> reading'[q]]
        /\ \A q \in ReadHandlers : reading'[q] = reading[q] \/ ReadIsRight(reading'[q])
    BY <1>5, <2>6
  <2> QED
    BY <2>1, <2>7, <2>8, LooksOn
<1> QED
  BY <1>6, <1>7, <1>8, <1>9, <1>10 DEF ReadStep

LEMMA ReadsGoOn == ReadsInv /\ [OrderReadsNext]_readVars => ReadsInv'
<1> SUFFICES ASSUME ReadsInv, [OrderReadsNext]_readVars PROVE ReadsInv'
  OBVIOUS
<1>1. CASE Writing
  <2>1. CASE ChangeStatus \/ AttachIntent \/ ShipOrder \/ MoveParcel
    BY <2>1, ChangesFollow, ChangeIsExcused
  <2> QED
    BY <1>1, <2>1, InvalidationIsRight DEF Writing
<1>2. ASSUME NEW k \in Keys, ExpireEntry(k) PROVE ReadsInv'
  <2>1. /\ entry' = [entry EXCEPT ![k] = NoEntry] /\ UNCHANGED <<stored, owed, missed, reading>>
        /\ entry = [q \in Keys |-> entry[q]] /\ reading = [r \in ReadHandlers |-> reading[r]]
    BY <1>2 DEF ExpireEntry, ReadsInv
  <2>2. entry' = [q \in Keys |-> IF q = k THEN NoEntry ELSE entry[q]]
    BY <2>1
  <2>3. EntryIsRight(k, NoEntry)
    BY DEF EntryIsRight
  <2>4. /\ entry' = [q \in Keys |-> entry'[q]]
        /\ \A q \in Keys : entry'[q] = entry[q] \/ EntryIsRight(q, entry'[q])
    BY <2>2, <2>3
  <2> QED
    BY <2>1, <2>4, LooksOn
<1>3. ASSUME NEW r \in ReadHandlers, ReadStep(r) PROVE ReadsInv'
  BY <1>3, ReadStepIsRight
<1>4. CASE UNCHANGED readVars
  BY <1>4, LooksOn DEF readVars, ReadsInv
<1> QED
  BY <1>1, <1>2, <1>3, <1>4 DEF OrderReadsNext

LEMMA ReadsInvariant == OrderReadsSpec => []ReadsInv
<1> QED
  BY ReadsBegin, ReadsGoOn, PTL DEF OrderReadsSpec

(* cache.ts:49-57 and cacheInvalidation.ts:8: what Redis has of an order or  *)
(* its timeline shows what there is, unless an invalidation is still to come *)
(* or never came, or the entry was read before one and stored after it; and  *)
(* a timeline of a shipped order shows the shipment (readOrders.ts:33-37).   *)
THEOREM StaleReadsAreExcused == OrderReadsSpec => []ReadsAreExcused
<1>1. ReadsInv => ReadsAreExcused
  <2> SUFFICES ASSUME ReadsInv PROVE ReadsAreExcused
    OBVIOUS
  <2>1. \A k \in Keys : EntryIsRight(k, entry[k])
    BY DEF ReadsInv
  <2> QED
    BY <2>1 DEF ReadsAreExcused, EntryIsRight, HasExcuse, Keys
<1> QED
  BY <1>1, ReadsInvariant, PTL
-------------------------------------------------------------------------------
(* The rate limiter *)

(* Integer division.                                                        *)
LEMMA DivideIs ==
  ASSUME NEW n \in Int, NEW d \in Nat \ {0}
  PROVE  /\ n \div d \in Int
         /\ (n \div d) * d <= n
         /\ n < (n \div d) * d + d
BY SMT

Span == Window * Second

(* A window is longer than nothing.                                         *)
LEMMA SpanIsPositive == Span \in Nat \ {0}
BY RateLimitAssumption, SMT DEF Span

Counter == [count : Nat, expires : Int]

(* INCREMENT_WINDOW_SCRIPT counts on or starts a counter.                   *)
LEMMA IncrementIs ==
  ASSUME NEW c \in Counter, NEW now \in Int
  PROVE  /\ Increment(c, now) \in Counter
         /\ now < c.expires => /\ Increment(c, now).count = c.count + 1
                               /\ Increment(c, now).expires = c.expires
         /\ ~ (now < c.expires) => /\ Increment(c, now).count = 1
                                   /\ Increment(c, now).expires = now + Span
<1>1. now + Window * Second = now + Span /\ now + Span \in Int
  BY SpanIsPositive DEF Span
<1>2. CASE now < c.expires
  BY <1>2 DEF Increment, Counter
<1>3. CASE ~ (now < c.expires)
  <2>1. Increment(c, now) = [count |-> 1, expires |-> now + Span]
    BY <1>1, <1>3 DEF Increment
  <2> QED
    BY <1>1, <1>3, <2>1 DEF Counter
<1> QED
  BY <1>2, <1>3

(* The counters of a sequence of requests, one after another.               *)
LEMMA CountersFollow ==
  ASSUME NEW n \in Nat, NEW times \in [1 .. n -> Nat]
  PROVE  /\ Counters(times) \in [0 .. n -> Counter]
         /\ Counters(times)[0] = NoCounter
         /\ \A i \in 1 .. n : Counters(times)[i] = Increment(Counters(times)[i - 1], times[i])
<1> DEFINE F == [i \in 1 .. n |-> [c \in Counter |-> Increment(c, times[i])]]
<1> DEFINE Recurs(g) ==
             g = [i \in 0 .. n |-> IF i = 0 THEN NoCounter ELSE Increment(g[i - 1], times[i])]
<1>1. F \in [1 .. n -> [Counter -> Counter]]
  BY IncrementIs
<1>2. NoCounter \in Counter
  BY DEF NoCounter, Counter
<1>3. PICK g \in [0 .. n -> Counter] : Recursion(g, n, NoCounter, F)
  <2> HIDE DEF F
  <2> QED
    BY <1>1, <1>2, RecursionSolves
<1>4. Recurs(g)
  <2>1. \A i \in 1 .. n : F[i][g[i - 1]] = Increment(g[i - 1], times[i])
    <3> SUFFICES ASSUME NEW i \in 1 .. n PROVE F[i][g[i - 1]] = Increment(g[i - 1], times[i])
      OBVIOUS
    <3>1. g[i - 1] \in Counter
      OBVIOUS
    <3> QED
      BY <3>1
  <2>2. \A i \in 0 .. n : g[i] = IF i = 0 THEN NoCounter ELSE Increment(g[i - 1], times[i])
    <3> HIDE DEF F
    <3> QED
      BY <1>3, <2>1 DEF Recursion
  <2>3. g = [i \in 0 .. n |-> g[i]]
    OBVIOUS
  <2> HIDE DEF F
  <2> QED
    BY <2>2, <2>3
<1>5. Len(times) = n
  BY LenProperties, IsASeq
<1> DEFINE h == CHOOSE h : Recurs(h)
<1>6. Counters(times) = h
  BY <1>5 DEF Counters
<1>7. Recurs(h)
  <2> HIDE DEF Recurs
  <2> QED
    BY <1>4
<1> HIDE DEF h, F
<1>8. h[0] = NoCounter /\ \A i \in 1 .. n : h[i] = Increment(h[i - 1], times[i])
  BY <1>7
<1>9. h \in [0 .. n -> Counter]
  <2> DEFINE G == {i \in 0 .. n : h[i] \in Counter}
  <2>1. 0 \in G
    BY <1>2, <1>8
  <2>2. ASSUME NEW k \in 0 .. n - 1, k \in G PROVE k + 1 \in G
    <3>1. k + 1 \in 1 .. n /\ (k + 1) - 1 = k
      OBVIOUS
    <3>2. h[k + 1] = Increment(h[k], times[k + 1]) /\ times[k + 1] \in Int
      BY <1>8, <3>1
    <3> QED
      <4>1. h[k] \in Counter
        BY <2>2
      <4>2. Increment(h[k], times[k + 1]) \in Counter
        BY <3>2, <4>1, IncrementIs
      <4>3. k + 1 \in 0 .. n
        OBVIOUS
      <4> QED
        BY <3>2, <4>2, <4>3
  <2> HIDE DEF G
  <2>3. 0 .. n \subseteq G
    BY <2>1, <2>2, UpTo
  <2>4. \A i \in 0 .. n : h[i] \in Counter
    BY <2>3 DEF G
  <2> QED
    BY <1>7, <2>4
<1> QED
  BY <1>6, <1>8, <1>9

(* Requests come one after another. *)
InTimeOrder(times, n) == \A i, j \in 1 .. n : i <= j => times[i] <= times[j]

(* Times in order from one to the next are in order.                        *)
LEMMA AdjacentSuffices ==
  ASSUME NEW n \in Nat, NEW times \in [1 .. n -> Nat],
         \A i \in 2 .. n : times[i - 1] <= times[i]
  PROVE  InTimeOrder(times, n)
<1> DEFINE G == {k \in 0 .. n : \A i \in 1 .. k : times[i] <= times[k]}
<1>1. 0 \in G
  OBVIOUS
<1>2. ASSUME NEW k \in 0 .. n - 1, k \in G PROVE k + 1 \in G
  <2> SUFFICES ASSUME NEW i \in 1 .. k + 1 PROVE times[i] <= times[k + 1]
    OBVIOUS
  <2>1. CASE i = k + 1
    BY <2>1
  <2>2. CASE i # k + 1
    <3>1. i \in 1 .. k /\ k + 1 \in 2 .. n /\ (k + 1) - 1 = k /\ k \in 1 .. n
      BY <2>2
    <3>2. times[i] <= times[k] /\ times[k] <= times[k + 1]
      BY <1>2, <3>1
    <3>3. times[i] \in Int /\ times[k] \in Int /\ times[k + 1] \in Int
      BY <3>1
    <3> QED
      BY <3>2, <3>3
  <2> QED
    BY <2>1, <2>2
<1>3. 0 .. n \subseteq G
  <2> HIDE DEF G
  <2> QED
    BY <1>1, <1>2, UpTo
<1> QED
  BY <1>3 DEF InTimeOrder

(* The request that created the counter the i-th one finds or creates. *)
First(c, i) == i - c[i].count + 1

(* The i-th request is in the window that the s-th began, with all since.   *)
Windowed(c, times, i, s) ==
  /\ s \in 1 .. i
  /\ c[i].expires = times[s] + Span
  /\ times[i] < c[i].expires
  /\ \A j \in s .. i : c[j].count = j - s + 1 /\ c[j].expires = c[i].expires
  /\ \A j \in 1 .. s - 1 : c[j].expires <= times[s]

(* Every request is counted from the first one of its window.               *)
LEMMA WindowsAreRight ==
  ASSUME NEW n \in Nat, NEW times \in [1 .. n -> Nat], InTimeOrder(times, n)
  PROVE  \A i \in 1 .. n : Windowed(Counters(times), times, i, First(Counters(times), i))
<1>0. PICK c : c = Counters(times)
  OBVIOUS
<1>1. /\ c \in [0 .. n -> Counter]
      /\ c[0] = NoCounter
      /\ \A i \in 1 .. n : c[i] = Increment(c[i - 1], times[i])
  BY <1>0, CountersFollow
<1> DEFINE G == {k \in 0 .. n : k # 0 => Windowed(c, times, k, First(c, k))}
<1>2. 0 \in G
  OBVIOUS
<1>3. ASSUME NEW k \in 0 .. n - 1, k \in G PROVE k + 1 \in G
  <2>0. k # 0 => Windowed(c, times, k, First(c, k))
    BY <1>3
  <2> SUFFICES Windowed(c, times, k + 1, First(c, k + 1))
    OBVIOUS
  <2> HIDE DEF G
  <2>1. /\ k + 1 \in 1 .. n /\ c[k + 1] = Increment(c[k], times[k + 1])
        /\ c[k] \in Counter /\ c[k + 1] \in Counter /\ times[k + 1] \in Int
    <3>1. k + 1 \in 1 .. n /\ (k + 1) - 1 = k /\ k \in 0 .. n /\ k + 1 \in 0 .. n
      OBVIOUS
    <3> QED
      BY <1>1, <3>1
  <2>c. /\ c[k].count \in Nat /\ c[k].expires \in Int
        /\ \A j \in 1 .. n : c[j].expires \in Int /\ times[j] \in Int
    <3>1. c[k].count \in Nat /\ c[k].expires \in Int
      BY <2>1 DEF Counter
    <3>2. \A j \in 1 .. n : j \in 0 .. n
      OBVIOUS
    <3>3. \A j \in 1 .. n : c[j].expires \in Int
      BY <1>1, <3>2 DEF Counter
    <3> QED
      BY <3>1, <3>3
  <2>2. CASE times[k + 1] < c[k].expires /\ k # 0
    <3> PICK s : s = First(c, k)
      OBVIOUS
    <3>1. /\ s \in 1 .. k
          /\ c[k].expires = times[s] + Span
          /\ \A j \in s .. k : c[j].count = j - s + 1 /\ c[j].expires = c[k].expires
          /\ \A j \in 1 .. s - 1 : c[j].expires <= times[s]
      BY <2>0, <2>2 DEF Windowed
    <3>2. c[k + 1].count = c[k].count + 1 /\ c[k + 1].expires = c[k].expires
      <4>1. Increment(c[k], times[k + 1]).count = c[k].count + 1
        BY <2>1, <2>2, IncrementIs
      <4>2. Increment(c[k], times[k + 1]).expires = c[k].expires
        BY <2>1, <2>2, IncrementIs
      <4> QED
        BY <2>1, <4>1, <4>2
    <3>3. First(c, k + 1) = s
      <4>1. c[k].count \in Int /\ k \in Int
        BY <2>c
      <4>2. \A m, d \in Int : (m + 1) - (d + 1) + 1 = m - d + 1
        OBVIOUS
      <4>3. (k + 1) - (c[k].count + 1) + 1 = k - c[k].count + 1
        BY <4>1, <4>2, Zenon
      <4> QED
        BY <3>2, <4>3, Zenon DEF First
    <3>4. \A j \in s .. k + 1 : c[j].count = j - s + 1 /\ c[j].expires = c[k + 1].expires
      <4> SUFFICES ASSUME NEW j \in s .. k + 1
                   PROVE  c[j].count = j - s + 1 /\ c[j].expires = c[k + 1].expires
        OBVIOUS
      <4>1. CASE j = k + 1
        <5>1. k \in s .. k
          BY <3>1
        <5>2. c[k].count = k - s + 1
          BY <3>1, <5>1
        <5> QED
          BY <3>1, <3>2, <4>1, <5>2
      <4>2. CASE j # k + 1
        <5>1. j \in s .. k
          BY <3>1, <4>2
        <5> QED
          BY <3>1, <3>2, <5>1
      <4> QED
        BY <4>1, <4>2
    <3>5. s \in 1 .. k + 1 /\ c[k + 1].expires = times[s] + Span /\ times[k + 1] < c[k + 1].expires
      BY <2>2, <3>1, <3>2
    <3> QED
      <4>1. Windowed(c, times, k + 1, s)
        BY <3>1, <3>4, <3>5 DEF Windowed
      <4> QED
        BY <3>3, <4>1
  <2>3. CASE ~ (times[k + 1] < c[k].expires) \/ k = 0
    <3>1. c[k + 1].count = 1 /\ c[k + 1].expires = times[k + 1] + Span
      <4>1. CASE ~ (times[k + 1] < c[k].expires)
        <5>1. Increment(c[k], times[k + 1]).count = 1
          BY <2>1, <4>1, IncrementIs
        <5>2. Increment(c[k], times[k + 1]).expires = times[k + 1] + Span
          BY <2>1, <4>1, IncrementIs
        <5> QED
          BY <2>1, <5>1, <5>2
      <4>2. CASE k = 0
        <5>1. c[k].expires = 0 /\ times[k + 1] \in Nat
          BY <1>1, <2>1, <4>2 DEF NoCounter
        <5> QED
          BY <4>1, <5>1
      <4> QED
        BY <2>3, <4>1, <4>2
    <3>2. First(c, k + 1) = k + 1
      BY <3>1 DEF First
    <3>3. \A j \in 1 .. k : c[j].expires <= times[k + 1]
      <4> SUFFICES ASSUME NEW j \in 1 .. k PROVE c[j].expires <= times[k + 1]
        OBVIOUS
      <4> PICK s : s = First(c, k)
        OBVIOUS
      <4>1. /\ s \in 1 .. k
            /\ \A i \in s .. k : c[i].expires = c[k].expires
            /\ \A i \in 1 .. s - 1 : c[i].expires <= times[s]
        BY <2>0 DEF Windowed
      <4>2. c[j].expires \in Int /\ times[s] \in Int /\ times[k + 1] \in Int
        <5>1. j \in 1 .. n /\ s \in 1 .. n
          BY <4>1
        <5> QED
          BY <2>1, <2>c, <5>1
      <4>3. CASE j \in s .. k
        BY <2>3, <2>c, <4>1, <4>2, <4>3
      <4>4. CASE j \in 1 .. s - 1
        <5>1. c[j].expires <= times[s]
          BY <4>1, <4>4
        <5>2. times[s] <= times[k + 1]
          BY <2>1, <4>1 DEF InTimeOrder
        <5> QED
          BY <4>2, <5>1, <5>2
      <4> QED
        BY <4>1, <4>3, <4>4
    <3>4. times[k + 1] < times[k + 1] + Span
      BY <2>1, SpanIsPositive
    <3>5. /\ k + 1 \in 1 .. k + 1
          /\ \A j \in k + 1 .. k + 1 : c[j].count = j - (k + 1) + 1 /\ c[j].expires = c[k + 1].expires
          /\ (k + 1) - 1 = k
      BY <3>1
    <3> QED
      <4>1. Windowed(c, times, k + 1, k + 1)
        BY <3>1, <3>3, <3>4, <3>5 DEF Windowed
      <4> QED
        BY <3>2, <4>1
  <2> QED
    BY <2>2, <2>3
<1>4. 0 .. n \subseteq G
  <2> HIDE DEF G
  <2> QED
    BY <1>2, <1>3, UpTo
<1>5. \A i \in 1 .. n : i \in 0 .. n /\ i # 0
  OBVIOUS
<1> QED
  BY <1>0, <1>4, <1>5 DEF G

(* Another window begins after the one before is over. *)
LEMMA WindowsAreApart ==
  ASSUME NEW n \in Nat, NEW times \in [1 .. n -> Nat], InTimeOrder(times, n),
         NEW a \in 1 .. n, NEW b \in 1 .. n, a <= b,
         First(Counters(times), a) # First(Counters(times), b)
  PROVE  /\ a < First(Counters(times), b)
         /\ Counters(times)[a].expires <= times[First(Counters(times), b)]
<1>1. PICK c, s : c = Counters(times) /\ s = First(c, b)
  OBVIOUS
<1>2. Windowed(c, times, b, s)
  BY <1>1, WindowsAreRight
<1>3. a < s
  <2> SUFFICES ASSUME a >= s PROVE FALSE
    BY <1>2 DEF Windowed
  <2>1. a \in s .. b
    BY <1>2 DEF Windowed
  <2>2. c[a].count = a - s + 1 /\ s \in 1 .. b
    BY <1>2, <2>1 DEF Windowed
  <2>3. First(c, a) = s
    BY <2>2 DEF First
  <2> QED
    BY <1>1, <2>3
<1>4. c[a].expires <= times[s]
  <2>1. a \in 1 .. s - 1
    BY <1>2, <1>3 DEF Windowed
  <2> QED
    BY <1>2, <2>1 DEF Windowed
<1> QED
  BY <1>1, <1>3, <1>4

(* What the middleware answers to the i-th request.                         *)
LEMMA DecisionIs ==
  ASSUME NEW n \in Nat, NEW times \in [1 .. n -> Nat], NEW i \in 1 .. n
  PROVE  /\ Decisions(times)[i].allowed <=> Counters(times)[i].count <= Limit
         /\ Decisions(times)[i].retryAfter =
              IF Ttl(Counters(times)[i], times[i]) > 0 THEN Ttl(Counters(times)[i], times[i])
              ELSE Window
BY DEF Decisions, Decision

(* How long a counter has still to live, and what is made of it.            *)
LEMMA LeftIs ==
  ASSUME NEW n \in Nat, NEW times \in [1 .. n -> Nat], InTimeOrder(times, n), NEW i \in 1 .. n
  PROVE  Counters(times)[i].expires - times[i] \in 1 .. Span
<1>1. PICK c, s : c = Counters(times) /\ s = First(c, i)
  OBVIOUS
<1>2. s \in 1 .. i /\ c[i].expires = times[s] + Span /\ times[i] < c[i].expires
  BY <1>1, WindowsAreRight DEF Windowed
<1>3. times[s] <= times[i] /\ times[s] \in Nat /\ times[i] \in Nat
  <2>1. s \in 1 .. n
    BY <1>2
  <2> QED
    BY <1>2, <2>1 DEF InTimeOrder
<1>4. Span \in Nat
  BY SpanIsPositive
<1>5. \A e : e = times[s] + Span /\ times[i] < e => e - times[i] \in 1 .. Span
  BY <1>3, <1>4
<1>6. c[i].expires - times[i] \in 1 .. Span
  BY <1>2, <1>5, Zenon
<1> QED
  BY <1>1, <1>6, Zenon

(* What a refused client is told is off by half a second at most.           *)
LEMMA RetryAfterIs ==
  ASSUME NEW counter, NEW now, NEW left \in 1 .. Span, counter.expires - now = left,
         NEW r, r = IF Ttl(counter, now) > 0 THEN Ttl(counter, now) ELSE Window
  PROVE  /\ 2 * (left - r * Second) <= Second
         /\ r = Window \/ r * Second <= left + Second \div 2
<1>0. Second \in Nat \ {0} /\ Window \in Nat \ {0} /\ Span \in Nat \ {0} /\ left \in Nat
  BY RateLimitAssumption, SpanIsPositive
<1> DEFINE half == Second \div 2
<1>1. half \in Nat /\ 2 * half <= Second /\ Second <= 2 * half + 1
  BY <1>0
<1> DEFINE t == Ttl(counter, now)
<1>2. t = (left + half) \div Second
  BY DEF Ttl
<1> HIDE DEF half, t
<1>3. t \in Int /\ t * Second <= left + half /\ left + half < t * Second + Second
  <2>1. left + half \in Int
    BY <1>0, <1>1
  <2> QED
    BY <1>0, <1>2, <2>1, DivideIs
<1>4. CASE t > 0
  <2>1. r = t
    BY <1>4 DEF t
  <2>2. t * Second \in Int
    BY <1>0, <1>3
  <2> DEFINE p == t * Second
  <2>3. p \in Int /\ p <= left + half /\ left + half < p + Second /\ r * Second = p
    BY <1>3, <2>1, <2>2
  <2> HIDE DEF p
  <2>4. 2 * (left - p) <= Second /\ p <= left + half
    BY <1>0, <1>1, <2>3
  <2> QED
    BY <2>3, <2>4 DEF half
<1>5. CASE ~ (t > 0)
  <2>1. r = Window
    BY <1>5 DEF t
  <2>2. left <= Window * Second
    BY DEF Span
  <2>3. Window * Second \in Int
    BY <1>0
  <2> DEFINE p == Window * Second
  <2>4. p \in Int /\ left <= p /\ r * Second = p
    BY <2>1, <2>2, <2>3
  <2> HIDE DEF p
  <2>5. 2 * (left - p) <= Second
    BY <1>0, <2>4
  <2> QED
    BY <2>1, <2>4, <2>5
<1> QED
  BY <1>4, <1>5

Allowed(times) == {i \in DOMAIN times : Decisions(times)[i].allowed}

(* Of the requests of a window, the first Limit are allowed.                *)
LEMMA AllowedAre ==
  ASSUME NEW n \in Nat, NEW times \in [1 .. n -> Nat], InTimeOrder(times, n), NEW i \in 1 .. n,
         NEW s, s = First(Counters(times), i)
  PROVE  i \in Allowed(times) <=> i \in s .. s + Limit - 1
<1>1. PICK c : c = Counters(times)
  OBVIOUS
<1>2. s \in 1 .. i
  BY <1>1, WindowsAreRight DEF Windowed
<1>3. c[i].count = i - s + 1
  <2>1. i \in s .. i
    BY <1>2
  <2> QED
    BY <1>1, <2>1, WindowsAreRight DEF Windowed
<1>4. i \in Allowed(times) <=> i - s + 1 <= Limit
  BY <1>1, <1>3, DecisionIs DEF Allowed
<1> QED
  BY <1>2, <1>4, RateLimitAssumption

(* Two windows' worth of requests at most, since a third one would begin    *)
(* too late.                                                                *)
LEMMA AtMostTwoWindows ==
  ASSUME NEW n \in Nat, NEW times \in [1 .. n -> Nat], InTimeOrder(times, n), NEW i \in 1 .. n
  PROVE  Cardinality({j \in Allowed(times) : j >= i /\ times[j] < times[i] + Span}) <= 2 * Limit
<1>0. PICK c, s : c = Counters(times) /\ s = First(c, i)
  OBVIOUS
<1> DEFINE X == {j \in Allowed(times) : j >= i /\ times[j] < times[i] + Span}
<1> DEFINE W(b) == b .. b + Limit - 1
<1>1. \A j \in X : j \in 1 .. n /\ i <= j /\ times[j] < times[i] + Span /\ j \in Allowed(times)
  BY DEF Allowed
<1>2. \A j \in X : j \in W(First(c, j))
  BY <1>0, <1>1, AllowedAre
<1> HIDE DEF X
<1>3. ASSUME NEW j \in X, First(c, j) # s
      PROVE  times[First(c, j)] >= times[i] /\ First(c, j) \in 1 .. j
             /\ c[j].expires = times[First(c, j)] + Span
  <2>0. j \in 1 .. n /\ i <= j
    BY <1>1
  <2>1. First(c, j) \in 1 .. j /\ c[j].expires = times[First(c, j)] + Span
    BY <1>0, <2>0, WindowsAreRight DEF Windowed
  <2>2. i < First(c, j)
    BY <1>0, <1>3, <2>0, WindowsAreApart
  <2>3. First(c, j) \in 1 .. n /\ i <= First(c, j)
    BY <2>0, <2>1, <2>2
  <2>4. times[i] <= times[First(c, j)] /\ times[i] \in Nat /\ times[First(c, j)] \in Nat
    BY <2>3 DEF InTimeOrder
  <2> QED
    BY <2>1, <2>4
<1>4. ASSUME NEW j \in X, NEW k \in X, First(c, j) # s, First(c, k) # s, j <= k
      PROVE  First(c, j) = First(c, k)
  <2> SUFFICES ASSUME First(c, j) # First(c, k) PROVE FALSE
    OBVIOUS
  <2>0. j \in 1 .. n /\ k \in 1 .. n /\ times[k] < times[i] + Span
    BY <1>1
  <2>1. c[j].expires <= times[First(c, k)]
    BY <1>0, <1>4, <2>0, WindowsAreApart
  <2>2. First(c, k) \in 1 .. k /\ times[First(c, j)] >= times[i] /\ First(c, j) \in 1 .. j
        /\ c[j].expires = times[First(c, j)] + Span
    BY <1>3, <1>4
  <2>3. First(c, k) \in 1 .. n /\ First(c, j) \in 1 .. n /\ First(c, k) <= k
    BY <2>0, <2>2
  <2>4. times[First(c, k)] <= times[k]
    BY <2>0, <2>3 DEF InTimeOrder
  <2>5. /\ times[First(c, k)] \in Nat /\ times[k] \in Nat
        /\ times[First(c, j)] \in Nat /\ times[i] \in Nat
    BY <2>0, <2>3
  <2> QED
    BY <2>0, <2>1, <2>2, <2>4, <2>5, SpanIsPositive
<1>5. \E b \in Int : X \subseteq W(s) \cup W(b)
  <2>1. CASE \A j \in X : First(c, j) = s
    <3>1. X \subseteq W(s)
      BY <1>2, <2>1
    <3> HIDE DEF W
    <3>2. X \subseteq W(s) \cup W(0)
      BY <3>1
    <3> QED
      BY <3>2
  <2>2. CASE \E j \in X : First(c, j) # s
    <3>1. PICK k \in X : First(c, k) # s
      BY <2>2
    <3>2. \A j \in X : First(c, j) = s \/ First(c, j) = First(c, k)
      <4> SUFFICES ASSUME NEW j \in X, First(c, j) # s PROVE First(c, j) = First(c, k)
        OBVIOUS
      <4>1. j \in 1 .. n /\ k \in 1 .. n
        BY <1>1
      <4>2. j <= k \/ k <= j
        BY <4>1
      <4> QED
        BY <1>4, <3>1, <4>2
    <3>3. X \subseteq W(s) \cup W(First(c, k))
      <4> HIDE DEF W
      <4> QED
        BY <1>2, <3>2
    <3>4. First(c, k) \in Int
      BY <1>3, <3>1
    <3> HIDE DEF W
    <3> QED
      BY <3>3, <3>4
  <2> QED
    BY <2>1, <2>2
<1>6. PICK b \in Int : X \subseteq W(s) \cup W(b)
  BY <1>5
<1>7. s \in Int
  BY <1>0, WindowsAreRight DEF Windowed
<1>8. \A a \in Int : IsFiniteSet(W(a)) /\ Cardinality(W(a)) = Limit
  <2> SUFFICES ASSUME NEW a \in Int PROVE IsFiniteSet(W(a)) /\ Cardinality(W(a)) = Limit
    OBVIOUS
  <2>1. a + Limit - 1 \in Int /\ Limit \in Nat
    BY RateLimitAssumption
  <2> QED
    BY <2>1, FS_Interval
<1> HIDE DEF W
<1>9. /\ IsFiniteSet(W(s) \cup W(b))
      /\ Cardinality(W(s) \cup W(b)) = Cardinality(W(s)) + Cardinality(W(b)) - Cardinality(W(s) \cap W(b))
      /\ Cardinality(W(s) \cap W(b)) \in Nat
  <2>1. IsFiniteSet(W(s)) /\ IsFiniteSet(W(b))
    BY <1>7, <1>8
  <2>2. IsFiniteSet(W(s) \cap W(b))
    BY <2>1, FS_Subset
  <2> QED
    BY <2>1, <2>2, FS_Union, FS_CardinalityType
<1>10. Cardinality(X) <= Cardinality(W(s) \cup W(b)) /\ Cardinality(X) \in Nat
  BY <1>6, <1>9, FS_Subset, FS_CardinalityType
<1> QED
  BY <1>7, <1>8, <1>9, <1>10, RateLimitAssumption DEF X

(* Who is refused has had the limit since the counter began.                *)
LEMMA RefusedAfterLimit ==
  ASSUME NEW n \in Nat, NEW times \in [1 .. n -> Nat], InTimeOrder(times, n), NEW i \in 1 .. n,
         i \notin Allowed(times)
  PROVE  Cardinality({j \in Allowed(times) : j < i /\ times[j] > times[i] - Span}) >= Limit
<1>0. PICK c, s : c = Counters(times) /\ s = First(c, i)
  OBVIOUS
<1> DEFINE X == {j \in Allowed(times) : j < i /\ times[j] > times[i] - Span}
<1>1. Windowed(c, times, i, s)
  BY <1>0, WindowsAreRight
<1>2. s \in 1 .. i /\ Limit \in Nat /\ ~ (i \in s .. s + Limit - 1)
  BY <1>0, <1>1, AllowedAre, RateLimitAssumption DEF Windowed
<1>3. ASSUME NEW j \in s .. s + Limit - 1
      PROVE  j \in X
  <2>1. j \in 1 .. n /\ j \in s .. i /\ j < i
    BY <1>2
  <2>2. c[j].count = j - s + 1
    BY <1>1, <2>1 DEF Windowed
  <2>3. First(c, j) = s
    BY <1>2, <2>1, <2>2 DEF First
  <2>4. j \in Allowed(times)
    BY <1>0, <2>1, <2>3, AllowedAre
  <2>5. times[s] <= times[j]
    BY <1>2, <2>1 DEF InTimeOrder
  <2>6. times[i] < times[s] + Span
    BY <1>1 DEF Windowed
  <2>7. times[s] \in Nat /\ times[j] \in Nat /\ times[i] \in Nat /\ Span \in Nat
    BY <1>2, <2>1, SpanIsPositive
  <2>8. times[j] > times[i] - Span
    BY <2>5, <2>6, <2>7
  <2> QED
    BY <2>1, <2>4, <2>8
<1>4. IsFiniteSet(X)
  <2>1. X \subseteq 1 .. n
    BY DEF Allowed
  <2>2. IsFiniteSet(1 .. n)
    BY FS_Interval
  <2> HIDE DEF X
  <2> QED
    BY <2>1, <2>2, FS_Subset
<1>5. s .. s + Limit - 1 \subseteq X
  BY <1>3
<1>6. Cardinality(s .. s + Limit - 1) = Limit
  BY <1>2, FS_Interval
<1> HIDE DEF X
<1>7. Cardinality(s .. s + Limit - 1) <= Cardinality(X)
  BY <1>4, <1>5, FS_Subset
<1>8. Cardinality(X) \in Nat
  BY <1>4, FS_CardinalityType
<1> QED
  BY <1>2, <1>6, <1>7, <1>8 DEF X

(* What the limiter answers to any sequence of requests.                    *)
Bounded(times, answers) ==
  LET allowed == {i \in DOMAIN times : answers[i].allowed}
      left(i) == Counters(times)[i].expires - times[i]
  IN  \A i \in DOMAIN times :
        /\ Cardinality({j \in allowed : j >= i /\ times[j] < times[i] + Span}) <= 2 * Limit
        /\ left(i) \in 1 .. Span
        /\ ~answers[i].allowed =>
             /\ Cardinality({j \in allowed : j < i /\ times[j] > times[i] - Span}) >= Limit
             /\ 2 * (left(i) - answers[i].retryAfter * Second) <= Second
             /\ answers[i].retryAfter = Window
                \/ answers[i].retryAfter * Second <= left(i) + Second \div 2

(* For any number of requests, at any times in order, RateLimiter.check     *)
(* (rateLimiter.ts) allows at most twice the limit within the length of a   *)
(* window, and refuses only who has had the limit.                          *)
THEOREM DecisionsAreBounded ==
  ASSUME NEW n \in Nat, NEW times \in [1 .. n -> Nat], InTimeOrder(times, n)
  PROVE  Bounded(times, Decisions(times))
<1> SUFFICES ASSUME NEW i \in 1 .. n
             PROVE  LET answers == Decisions(times)
                        left == Counters(times)[i].expires - times[i]
                    IN  /\ Cardinality({j \in Allowed(times) : j >= i /\ times[j] < times[i] + Span}) <= 2 * Limit
                        /\ left \in 1 .. Span
                        /\ ~answers[i].allowed =>
                             /\ Cardinality({j \in Allowed(times) : j < i /\ times[j] > times[i] - Span}) >= Limit
                             /\ 2 * (left - answers[i].retryAfter * Second) <= Second
                             /\ answers[i].retryAfter = Window
                                \/ answers[i].retryAfter * Second <= left + Second \div 2
  BY DEF Bounded, Allowed
<1> DEFINE left == Counters(times)[i].expires - times[i]
<1> DEFINE r == Decisions(times)[i].retryAfter
<1>1. left \in 1 .. Span
  BY LeftIs
<1>2. r = IF Ttl(Counters(times)[i], times[i]) > 0 THEN Ttl(Counters(times)[i], times[i]) ELSE Window
  BY DecisionIs
<1>3. i \in Allowed(times) <=> Decisions(times)[i].allowed
  BY DEF Allowed
<1>4. 2 * (left - r * Second) <= Second /\ (r = Window \/ r * Second <= left + Second \div 2)
  <2> PICK counter, now : counter = Counters(times)[i] /\ now = times[i]
    OBVIOUS
  <2>1. counter.expires - now = left /\ r = IF Ttl(counter, now) > 0 THEN Ttl(counter, now) ELSE Window
    BY <1>2
  <2> HIDE DEF left, r
  <2> QED
    BY <1>1, <2>1, RetryAfterIs
<1>5. Cardinality({j \in Allowed(times) : j >= i /\ times[j] < times[i] + Span}) <= 2 * Limit
  BY AtMostTwoWindows
<1>6. i \notin Allowed(times) =>
        Cardinality({j \in Allowed(times) : j < i /\ times[j] > times[i] - Span}) >= Limit
  BY RefusedAfterLimit
<1> QED
  BY <1>1, <1>3, <1>4, <1>5, <1>6, Zenon

-------------------------------------------------------------------------------
(* Prices: the roundings *)

(* Rounding half to even is off by half at most.                            *)
LEMMA RoundIs ==
  ASSUME NEW n \in Int, NEW d \in Nat \ {0}
  PROVE  /\ RoundHalfEven(n, d) \in Int
         /\ 2 * (RoundHalfEven(n, d) * d - n) <= d
         /\ 2 * (n - RoundHalfEven(n, d) * d) <= d
         /\ n >= 0 => RoundHalfEven(n, d) >= 0
<1> DEFINE f == Floor(n, d)
<1> DEFINE p == f * d
<1>1. f \in Int /\ p \in Int /\ p <= n /\ n < p + d
  BY DivideIs DEF Floor
<1>2. n >= 0 => f >= 0
  BY DEF Floor
<1> HIDE DEF f
<1>3. (f + 1) * d = p + d
  BY <1>1
<1>4. RoundHalfEven(n, d) = IF 2 * (n - p) < d \/ (2 * (n - p) = d /\ Parity(f) = 0)
                            THEN f ELSE f + 1
  BY DEF RoundHalfEven, f
<1> HIDE DEF p
<1>5. CASE RoundHalfEven(n, d) = f
  <2>1. f * d = p
    BY DEF p
  <2>2. 2 * (p - n) <= d /\ 2 * (n - p) <= d
    BY <1>1, <1>4, <1>5
  <2> QED
    BY <1>1, <1>2, <1>5, <2>1, <2>2
<1>6. CASE RoundHalfEven(n, d) = f + 1 /\ ~ (2 * (n - p) < d)
  <2>1. 2 * (p + d - n) <= d /\ 2 * (n - (p + d)) <= d
    BY <1>1, <1>6
  <2> QED
    BY <1>1, <1>2, <1>3, <1>6, <2>1
<1> QED
  BY <1>4, <1>5, <1>6

(* A rule's price, times BasisPoints, before it is rounded.                 *)
RulePrice(base, rule) ==
  CASE rule.type = "none" -> base * BasisPoints
    [] rule.type = "percent_off" -> base * (BasisPoints - rule.value)
    [] rule.type = "fixed_off" ->
         BasisPoints * IF rule.value > base THEN 0 ELSE base - rule.value
    [] rule.type = "override" -> BasisPoints * rule.value

(* What priceRuleSchemas.ts lets through, and no rule at all.               *)
Applicable(rule) ==
  \/ rule.type = "none"
  \/ rule.type = "percent_off" /\ rule.value \in 0 .. BasisPoints
  \/ rule.type = "fixed_off" /\ rule.value \in Nat
  \/ rule.type = "override" /\ rule.value \in Nat \ {0}

(* A percentage off never makes a price negative or more than it was.       *)
LEMMA PercentIs ==
  ASSUME NEW base \in Nat, NEW v \in 0 .. BasisPoints
  PROVE  /\ base * NotBelowZero(BasisPoints - v) = base * (BasisPoints - v)
         /\ base * NotBelowZero(BasisPoints - v) \in Nat
         /\ base * NotBelowZero(BasisPoints - v) <= BasisPoints * base
<1>1. v \in Nat /\ v <= 10000
  BY DEF BasisPoints
<1>2. NotBelowZero(BasisPoints - v) = BasisPoints - v
  BY <1>1 DEF BasisPoints, NotBelowZero
<1> DEFINE t == base * v
<1>3. t \in Nat /\ base * (10000 - v) \in Nat /\ base * (10000 - v) = 10000 * base - t
  BY <1>1
<1> HIDE DEF t
<1>4. base * (10000 - v) <= 10000 * base
  BY <1>3
<1> QED
  BY <1>2, <1>3, <1>4 DEF BasisPoints

(* c is x rounded to a cent, in one direction or the other.                 *)
Rounds(c, x) ==
  /\ c \in Nat /\ x \in Nat
  /\ 2 * (c * BasisPoints - x) <= BasisPoints
  /\ 2 * (x - c * BasisPoints) <= BasisPoints

(* A rule is rounded once, and only an override can raise the price.        *)
LEMMA RuleIsExactToHalfACent ==
  ASSUME NEW base \in Nat, NEW rule, Applicable(rule), NEW c \in AfterRule(base, rule)
  PROVE  /\ Rounds(c, RulePrice(base, rule))
         /\ rule.type # "override" => c <= base
<1>1. CASE rule.type = "none"
  BY <1>1 DEF AfterRule, RulePrice, BasisPoints, Rounds
<1>2. CASE rule.type = "fixed_off"
  <2>1. rule.value \in Nat
    BY <1>2 DEF Applicable
  <2>2. c = IF base - rule.value < 0 THEN 0 ELSE base - rule.value
    BY <1>2 DEF AfterRule, NotBelowZero
  <2>3. RulePrice(base, rule) = BasisPoints * IF rule.value > base THEN 0 ELSE base - rule.value
    BY <1>2 DEF RulePrice
  <2>4. RulePrice(base, rule) = c * BasisPoints /\ c \in Nat /\ c <= base
    BY <2>1, <2>2, <2>3 DEF BasisPoints
  <2> QED
    BY <2>4 DEF BasisPoints, Rounds
<1>3. CASE rule.type = "override"
  <2>1. rule.value \in Nat /\ c = rule.value /\ RulePrice(base, rule) = BasisPoints * rule.value
    BY <1>3 DEF Applicable, AfterRule, RulePrice
  <2> QED
    BY <1>3, <2>1 DEF BasisPoints, Rounds
<1>4. CASE rule.type = "percent_off"
  <2> DEFINE n == base * NotBelowZero(BasisPoints - rule.value)
  <2>1. rule.value \in 0 .. BasisPoints
    BY <1>4, Zenon DEF Applicable
  <2>3. RulePrice(base, rule) = base * (BasisPoints - rule.value)
    BY <1>4 DEF RulePrice
  <2>4. c \in IF IsHalf(n, 10000) THEN {Floor(n, 10000), Floor(n, 10000) + 1}
              ELSE {RoundHalfEven(n, 10000)}
    <3>1. c \in IF IsHalf(n, BasisPoints) THEN {Floor(n, BasisPoints), Floor(n, BasisPoints) + 1}
                ELSE {RoundHalfEven(n, BasisPoints)}
      BY <1>4 DEF AfterRule
    <3> HIDE DEF n
    <3> QED
      BY <3>1 DEF BasisPoints
  <2>5. n = RulePrice(base, rule) /\ n \in Nat /\ n <= 10000 * base
    <3>1. n = RulePrice(base, rule) /\ n \in Nat /\ n <= BasisPoints * base
      BY <2>1, <2>3, PercentIs, Zenon
    <3> HIDE DEF n
    <3> QED
      BY <3>1 DEF BasisPoints
  <2> HIDE DEF n
  <2>6. c \in Int /\ c >= 0 /\ 2 * (c * 10000 - n) <= 10000 /\ 2 * (n - c * 10000) <= 10000
    <3>1. CASE IsHalf(n, 10000)
      <4>1. 2 * (n - Floor(n, 10000) * 10000) = 10000 /\ Floor(n, 10000) \in Int /\ Floor(n, 10000) >= 0
        BY <2>5, <3>1 DEF IsHalf, Floor
      <4>2. c = Floor(n, 10000) \/ c = Floor(n, 10000) + 1
        BY <2>4, <3>1
      <4> QED
        BY <2>5, <4>1, <4>2
    <3>2. CASE ~IsHalf(n, 10000)
      <4>1. c = RoundHalfEven(n, 10000)
        BY <2>4, <3>2
      <4> QED
        BY <2>5, <4>1, RoundIs
    <3> QED
      BY <3>1, <3>2
  <2>7. c <= base
    BY <2>5, <2>6
  <2> QED
    BY <2>5, <2>6, <2>7 DEF BasisPoints, Rounds
<1> QED
  BY <1>1, <1>2, <1>3, <1>4 DEF Applicable

(* l is p percent of c, rounded.                                            *)
Discounts(l, c, p) ==
  /\ p \in {100, 97, 95} /\ l \in Nat /\ l <= c
  /\ l * 100 - c * p \in -50 .. 50
  /\ p = 100 => l = c

(* So is the discount of a tier; with no discount nothing is rounded.       *)
LEMMA TierIsExactToHalfACent ==
  ASSUME NEW c \in Nat, NEW tier \in Tiers
  PROVE  Discounts(ForTier(c, tier), c, Percent[tier])
<1>1. Percent[tier] \in {100, 97, 95}
  BY DEF Tiers, Percent
<1> DEFINE p == Percent[tier]
<1> DEFINE r == RoundHalfEven(c * p, 100)
<1> HIDE DEF p
<1>2. p \in {100, 97, 95}
  BY <1>1 DEF p
<1>3. c * p \in Nat
  BY <1>2
<1>4. r \in Int /\ 2 * (r * 100 - c * p) <= 100 /\ 2 * (c * p - r * 100) <= 100 /\ r >= 0
  BY <1>3, RoundIs
<1>5. ForTier(c, tier) = r
  BY DEF ForTier, p
<1> HIDE DEF r
<1>6. r \in Nat /\ r <= c /\ r * 100 - c * p \in -50 .. 50 /\ (p = 100 => r = c)
  <2>1. CASE p = 100
    BY <1>4, <2>1
  <2>2. CASE p = 97
    BY <1>4, <2>2
  <2>3. CASE p = 95
    BY <1>4, <2>3
  <2> QED
    BY <1>2, <2>1, <2>2, <2>3
<1> QED
  BY <1>1, <1>5, <1>6 DEF p, Discounts

(* Parts of a cent in which the exact price is counted.                     *)
Unit == BasisPoints * 100

(* The literals, for provers that cannot unfold them.                       *)
LEMMA UnitIs == BasisPoints = 10000 /\ Unit = 1000000 /\ Unit \in Nat
BY SMT DEF Unit, BasisPoints

(* Both roundings together.                                                 *)
LEMMA RoundingsAddUpToLessThanACent ==
  ASSUME NEW p, NEW c, NEW x, NEW l, Rounds(c, x), Discounts(l, c, p)
  PROVE  AbsValue(l * Unit - p * x) < Unit
<1>0. /\ 2 * (c * 10000 - x) <= 10000 /\ 2 * (x - c * 10000) <= 10000
      /\ p \in {100, 97, 95} /\ c \in Nat /\ x \in Nat /\ l \in Nat
      /\ l * 100 - c * p \in -50 .. 50 /\ (p = 100 => l = c)
  BY UnitIs, SMT DEF Rounds, Discounts
<1>1. l * 1000000 - p * x < 1000000 /\ p * x - l * 1000000 < 1000000
  <2>1. CASE p = 100
    BY <1>0, <2>1, SMT
  <2>2. CASE p = 97
    BY <1>0, <2>2, SMT
  <2>3. CASE p = 95
    BY <1>0, <2>3, SMT
  <2> QED
    BY <1>0, <2>1, <2>2, <2>3, SMT
<1> QED
  BY <1>0, <1>1, UnitIs, SMT DEF AbsValue

(* Converting rounds once more.                                             *)
LEMMA ConversionAddsHalfACent ==
  ASSUME NEW l \in Nat, NEW e \in Int, NEW r \in Nat, NEW d \in Nat \ {0}
  PROVE  2 * AbsValue(RoundHalfEven(l * r, d) * d * Unit - e * r)
           <= Unit * d + 2 * AbsValue(l * Unit - e) * r
<1> DEFINE a == RoundHalfEven(l * r, d) * d
<1> DEFINE b == l * r
<1> DEFINE off == AbsValue(l * 1000000 - e)
<1> DEFINE t == off * r
<1>1. b \in Nat
  OBVIOUS
<1>2. a \in Int /\ 2 * (a - b) <= d /\ 2 * (b - a) <= d
  <2>1. RoundHalfEven(b, d) \in Int /\ 2 * (RoundHalfEven(b, d) * d - b) <= d
        /\ 2 * (b - RoundHalfEven(b, d) * d) <= d
    <3> HIDE DEF b
    <3> QED
      BY <1>1, RoundIs
  <2> QED
    BY <2>1
<1>3. off \in Nat /\ l * 1000000 - e <= off /\ e - l * 1000000 <= off
  BY SMT DEF AbsValue
<1>4. t \in Nat /\ b * 1000000 - e * r <= t /\ e * r - b * 1000000 <= t
  <2> HIDE DEF off
  <2> DEFINE D == l * 1000000 - e
  <2>1. D \in Int /\ off - D >= 0 /\ off + D >= 0
    BY <1>3, SMT
  <2>2. (off - D) * r >= 0 /\ (off + D) * r >= 0
    <3> HIDE DEF D
    <3>1. \A x \in Int : x >= 0 => x * r >= 0
      OBVIOUS
    <3>2. off - D \in Int /\ off + D \in Int
      BY <1>3, <2>1, SMT
    <3> QED
      BY <2>1, <3>1, <3>2
  <2>3. (off - D) * r = t - D * r /\ (off + D) * r = t + D * r
    <3> HIDE DEF D
    <3> QED
      BY <1>3, <2>1, SMT
  <2>4. D * r = b * 1000000 - e * r
    BY SMT
  <2>5. D * r \in Int /\ t \in Nat
    BY <1>3, <2>1, SMT
  <2>6. t - D * r >= 0 /\ t + D * r >= 0
    BY <2>2, <2>3
  <2>7. e * r \in Int
    OBVIOUS
  <2>8. t - (b * 1000000 - e * r) >= 0 /\ t + (b * 1000000 - e * r) >= 0
    BY <2>4, <2>6, SMT
  <2> QED
    <3> DEFINE er == e * r
    <3>1. er \in Int /\ b \in Nat /\ t \in Nat /\ t - (b * 1000000 - er) >= 0 /\ t + (b * 1000000 - er) >= 0
      BY <1>1, <2>5, <2>7, <2>8, SMT
    <3> HIDE DEF er, b, t
    <3>2. b * 1000000 - er <= t /\ er - b * 1000000 <= t
      BY <3>1, SMT
    <3> QED
      BY <3>1, <3>2, SMT DEF er
<1> DEFINE er == e * r
<1>5. er \in Int
  OBVIOUS
<1>6. /\ b \in Nat /\ a \in Int /\ t \in Nat
      /\ 2 * (a - b) <= d /\ 2 * (b - a) <= d /\ b * 1000000 - er <= t /\ er - b * 1000000 <= t
  BY <1>1, <1>2, <1>4, SMT
<1> HIDE DEF a, b, off, t, er
<1>7. 2 * AbsValue(a * 1000000 - er) <= 1000000 * d + 2 * t
  BY <1>5, <1>6, SMT DEF AbsValue
<1>8. 2 * t = 2 * off * r
  BY <1>3, SMT DEF t
<1> QED
  BY <1>7, <1>8, UnitIs, SMT DEF a, off, er

-------------------------------------------------------------------------------
(* Prices: the choice of a rule *)

(* The comparator of selectWinningRule decides between any two rules.       *)
LEMMA ComesBeforeDecides ==
  ASSUME NEW a, NEW b, NEW c,
         a.id \in Int /\ a.priority \in Int /\ a.created \in Int,
         b.id \in Int /\ b.priority \in Int /\ b.created \in Int,
         c.id \in Int /\ c.priority \in Int /\ c.created \in Int
  PROVE  /\ a.id # b.id => ComesBefore(a, b) \/ ComesBefore(b, a)
         /\ ComesBefore(a, b) => ~ComesBefore(b, a)
         /\ ComesBefore(a, b) /\ ComesBefore(b, c) => ComesBefore(a, c)
BY SMT DEF ComesBefore

(* Array.prototype.sort with that comparator puts the rules in order.       *)
LEMMA SortedRules ==
  ASSUME NEW n \in Nat, NEW E, \A r \in E : r.id \in Int /\ r.priority \in Int /\ r.created \in Int,
         NEW s \in [1 .. n -> E], \A i, j \in 1 .. n : s[i].id = s[j].id => i = j
  PROVE  /\ Rearranged(Sorted(s, ComesBefore), s, n, E)
         /\ \A i, j \in 1 .. n : i < j =>
              ComesBefore(Sorted(s, ComesBefore)[i], Sorted(s, ComesBefore)[j])
<1> DEFINE R == {e \in (1 .. n) \X (1 .. n) : ComesBefore(s[e[1]], s[e[2]])}
<1> DEFINE Ordering(p) == \A i, j \in 1 .. n : i < j => ComesBefore(s[p[i]], s[p[j]])
<1>1. \A i, j \in 1 .. n : <<i, j>> \in R <=> ComesBefore(s[i], s[j])
  OBVIOUS
<1>2. StrictTotal(n, R)
  <2>1. \A i \in 1 .. n : s[i].id \in Int /\ s[i].priority \in Int /\ s[i].created \in Int
    OBVIOUS
  <2> HIDE DEF R
  <2>2. \A i, j \in 1 .. n : i # j => ComesBefore(s[i], s[j]) \/ ComesBefore(s[j], s[i])
    BY <2>1, ComesBeforeDecides
  <2>3. \A i, j \in 1 .. n : ComesBefore(s[i], s[j]) => ~ComesBefore(s[j], s[i])
    BY <2>1, ComesBeforeDecides
  <2>4. \A i, j, k \in 1 .. n :
          ComesBefore(s[i], s[j]) /\ ComesBefore(s[j], s[k]) => ComesBefore(s[i], s[k])
    BY <2>1, ComesBeforeDecides
  <2> QED
    BY <1>1, <2>2, <2>3, <2>4 DEF StrictTotal
<1> HIDE DEF R
<1>3. PICK p : OrderedBy(p, n, R)
  BY <1>2, OrderExists
<1>4. p \in Bijection(1 .. n, 1 .. n) /\ Ordering(p)
  <2>1. p \in Bijection(1 .. n, 1 .. n) /\ \A i, j \in 1 .. n : i < j => <<p[i], p[j]>> \in R
    BY <1>3 DEF OrderedBy
  <2>2. \A i \in 1 .. n : p[i] \in 1 .. n
    BY <2>1 DEF Bijection, Injection
  <2> QED
    BY <1>1, <2>1, <2>2
<1> DEFINE o == CHOOSE q \in Bijection(1 .. n, 1 .. n) : Ordering(q)
<1>5. o \in Bijection(1 .. n, 1 .. n) /\ Ordering(o)
  <2> HIDE DEF Ordering
  <2> QED
    BY <1>4
<1>6. Sorted(s, ComesBefore) = [i \in 1 .. n |-> s[o[i]]]
  BY DEF Sorted
<1> HIDE DEF o
<1>7. \A i \in 1 .. n : Sorted(s, ComesBefore)[i] = s[o[i]]
  BY <1>6
<1>8. PICK t : t = Sorted(s, ComesBefore)
  OBVIOUS
<1>9. Rearranged(t, s, n, E)
  <2>1. t = [i \in 1 .. n |-> t[i]] /\ \A i \in 1 .. n : t[i] = s[o[i]]
    BY <1>6, <1>7, <1>8
  <2>2. o \in Bijection(1 .. n, 1 .. n)
    BY <1>5
  <2> QED
    BY <2>1, <2>2, PermutationKeeps
<1>10. ASSUME NEW i \in 1 .. n, NEW j \in 1 .. n, i < j
       PROVE  ComesBefore(t[i], t[j])
  <2>1. t[i] = s[o[i]] /\ t[j] = s[o[j]]
    BY <1>7, <1>8
  <2>2. ComesBefore(s[o[i]], s[o[j]])
    BY <1>5, <1>10
  <2> QED
    BY <2>1, <2>2, Zenon
<1> QED
  BY <1>8, <1>9, <1>10

(* The winner comes before all others.                                      *)
LEMMA WinnerComesFirst ==
  ASSUME NEW n \in Nat \ {0}, NEW E, \A r \in E : r.id \in Int /\ r.priority \in Int /\ r.created \in Int,
         NEW s \in [1 .. n -> E], \A i, j \in 1 .. n : s[i].id = s[j].id => i = j
  PROVE  \E k \in 1 .. n : /\ WinningRule(s) = s[k]
                           /\ \A i \in 1 .. n : i = k \/ ComesBefore(s[k], s[i])
<1>1. PICK t : t = Sorted(s, ComesBefore)
  OBVIOUS
<1>2. Rearranged(t, s, n, E) /\ \A i, j \in 1 .. n : i < j => ComesBefore(t[i], t[j])
  BY <1>1, SortedRules
<1>3. WinningRule(s) = t[1]
  <2>1. s # <<>>
    OBVIOUS
  <2>2. WinningRule(s) = Head(t)
    BY <1>1, <2>1 DEF WinningRule
  <2>3. t \in [1 .. n -> E]
    BY <1>2 DEF Rearranged
  <2> QED
    BY <2>2, <2>3
<1>4. PICK k \in 1 .. n : t[1] = s[k]
  BY <1>2 DEF Rearranged
<1>5. ASSUME NEW i \in 1 .. n
      PROVE  i = k \/ ComesBefore(s[k], s[i])
  <2>1. PICK j \in 1 .. n : t[j] = s[i]
    BY <1>2 DEF Rearranged
  <2>2. CASE j = 1
    <3>1. s[i].id = s[k].id
      BY <1>4, <2>1, <2>2
    <3> QED
      BY <3>1
  <2>3. CASE j # 1
    <3>1. ComesBefore(t[1], t[j])
      BY <1>2, <2>3
    <3> QED
      BY <1>4, <2>1, <3>1
  <2> QED
    BY <2>2, <2>3
<1> QED
  BY <1>3, <1>4, <1>5

(* PricingIsRight, of a call that chooses.                                  *)
ChoiceIsRight(active, chosen) ==
  LET given == {active[i] : i \in DOMAIN active}
      top == {r \in given : \A s \in given : s.priority <= r.priority}
      newest == {r \in top : \A s \in top : s.created <= r.created}
  IN  IF given = {} THEN chosen = NoRule
      ELSE {chosen} = {r \in newest : \A s \in newest : s.id <= r.id}

(* selectWinningRule (ruleSelection.ts) chooses by priority, then age, then *)
(* id, in whatever order any number of rules come.                          *)
THEOREM WinnerIsRight ==
  ASSUME NEW n \in Nat, NEW E, \A r \in E : r.id \in Int /\ r.priority \in Int /\ r.created \in Int,
         NEW active \in [1 .. n -> E], \A i, j \in 1 .. n : active[i].id = active[j].id => i = j
  PROVE  ChoiceIsRight(active, WinningRule(active))
<1>1. CASE n = 0
  <2>1. active = <<>>
    BY <1>1
  <2>2. {active[i] : i \in DOMAIN active} = {}
    BY <1>1
  <2>3. WinningRule(active) = NoRule
    BY <2>1 DEF WinningRule
  <2> QED
    BY <2>2, <2>3 DEF ChoiceIsRight
<1>2. CASE n # 0
  <2>1. PICK k \in 1 .. n : /\ WinningRule(active) = active[k]
                            /\ \A i \in 1 .. n : i = k \/ ComesBefore(active[k], active[i])
    BY <1>2, WinnerComesFirst
  <2> DEFINE given == {active[i] : i \in 1 .. n}
  <2> DEFINE top == {r \in given : \A s \in given : s.priority <= r.priority}
  <2> DEFINE newest == {r \in top : \A s \in top : s.created <= r.created}
  <2> DEFINE won == active[k]
  <2>2. won \in given /\ \A s \in given : s = won \/ ComesBefore(won, s)
    BY <2>1
  <2>3. \A s \in given : s.id \in Int /\ s.priority \in Int /\ s.created \in Int
    OBVIOUS
  <2>4. \A s \in given : s.id = won.id => s = won
    OBVIOUS
  <2> HIDE DEF given, won
  <2>5. won \in top
    BY <2>2, <2>3 DEF ComesBefore
  <2>6. \A s \in top : s \in given /\ s.priority = won.priority
    BY <2>2, <2>3, <2>5
  <2>7. won \in newest
    <3> SUFFICES ASSUME NEW s \in top PROVE s.created <= won.created
      BY <2>5
    <3>1. s \in given /\ s.priority = won.priority
      BY <2>6
    <3> QED
      BY <2>2, <2>3, <3>1 DEF ComesBefore
  <2>8. \A s \in newest : s \in given /\ s.priority = won.priority /\ s.created = won.created
    <3> SUFFICES ASSUME NEW s \in newest PROVE s \in given /\ s.priority = won.priority /\ s.created = won.created
      OBVIOUS
    <3>1. s \in given /\ s.priority = won.priority /\ s \in top
      BY <2>6
    <3>2. s.created <= won.created /\ won.created <= s.created
      BY <2>5, <2>7, <3>1
    <3> QED
      BY <2>2, <2>3, <3>1, <3>2
  <2>9. \A s \in newest : s.id <= won.id
    <3> SUFFICES ASSUME NEW s \in newest PROVE s.id <= won.id
      OBVIOUS
    <3>1. s \in given /\ s.priority = won.priority /\ s.created = won.created
      BY <2>8
    <3> QED
      BY <2>2, <2>3, <3>1 DEF ComesBefore
  <2>10. {won} = {r \in newest : \A s \in newest : s.id <= r.id}
    <3> SUFFICES ASSUME NEW r \in newest, \A s \in newest : s.id <= r.id PROVE r = won
      BY <2>7, <2>9
    <3>1. won.id <= r.id /\ r.id <= won.id /\ r \in given
      BY <2>7, <2>8, <2>9
    <3>2. won.id = r.id
      BY <2>2, <2>3, <3>1
    <3> QED
      BY <2>4, <3>1, <3>2
  <2>11. given # {}
    BY <2>2
  <2> HIDE DEF top, newest
  <2>12. WinningRule(active) = won
    BY <2>1 DEF won
  <2> QED
    BY <2>10, <2>11, <2>12, Zenon DEF ChoiceIsRight, top, newest, given
<1> QED
  BY <1>1, <1>2

-------------------------------------------------------------------------------
(* The functions, as MCFunctions calls them *)

FunctionsInv ==
  /\ invoked \in Plans \cup Requests \cup Quotes \cup Selections \cup Arrivals
  /\ Returned("plan") => result = PlanAllocations(invoked.qty, invoked.available)
  /\ Returned("normalize") => result = NormalizeLines(invoked.lines)
  /\ Returned("price") =>
       \E local \in UnitPrices(invoked.base, invoked.rules, invoked.tier) :
         result = [local |-> local, converted |-> ConvertCents(local, invoked.rate)]
  /\ Returned("choose") => result = WinningRule(invoked.rules)
  /\ Returned("limit") => result = Decisions(invoked.times)

(* A call that has returned has returned what its function makes of its     *)
(* arguments: FunctionsInv is what each of the three properties rests on.   *)
THEOREM FunctionsInvariance == FunctionsSpec => []FunctionsInv
<1>1. FunctionsInit => FunctionsInv
  BY DEF FunctionsInit, FunctionsInv, Returned
<1>2. FunctionsInv /\ [FunctionsNext]_functionVars => FunctionsInv'
  <2> SUFFICES ASSUME FunctionsInv, [FunctionsNext]_functionVars PROVE FunctionsInv'
    OBVIOUS
  <2>0. invoked \in Plans \cup Requests \cup Quotes \cup Selections \cup Arrivals
    BY DEF FunctionsInv
  <2>1. CASE CallPlan
    <3>1. invoked.fn = "plan" /\ invoked' = invoked /\ result' = PlanAllocations(invoked.qty, invoked.available)
      BY <2>1, Zenon DEF CallPlan, Return
    <3> QED
      BY <2>0, <3>1 DEF FunctionsInv, Returned
  <2>2. CASE CallNormalize
    <3>1. invoked.fn = "normalize" /\ invoked' = invoked /\ result' = NormalizeLines(invoked.lines)
      BY <2>2, Zenon DEF CallNormalize, Return
    <3> QED
      BY <2>0, <3>1 DEF FunctionsInv, Returned
  <2>3. CASE CallPrice
    <3>1. /\ invoked.fn = "price" /\ invoked' = invoked
          /\ \E local \in UnitPrices(invoked.base, invoked.rules, invoked.tier) :
               result' = [local |-> local, converted |-> ConvertCents(local, invoked.rate)]
      BY <2>3, Zenon DEF CallPrice, Return
    <3> QED
      BY <2>0, <3>1 DEF FunctionsInv, Returned
  <2>4. CASE CallChoose
    <3>1. invoked.fn = "choose" /\ invoked' = invoked /\ result' = WinningRule(invoked.rules)
      BY <2>4, Zenon DEF CallChoose, Return
    <3> QED
      BY <2>0, <3>1 DEF FunctionsInv, Returned
  <2>5. CASE CallLimit
    <3>1. invoked.fn = "limit" /\ invoked' = invoked /\ result' = Decisions(invoked.times)
      BY <2>5, Zenon DEF CallLimit, Return
    <3> QED
      BY <2>0, <3>1 DEF FunctionsInv, Returned
  <2>6. CASE UNCHANGED functionVars
    BY <2>6, Zenon DEF functionVars, FunctionsInv, Returned
  <2> QED
    BY <2>1, <2>2, <2>3, <2>4, <2>5, <2>6 DEF FunctionsNext
<1> QED
  BY <1>1, <1>2, PTL DEF FunctionsSpec

(* What is called is a call of the function it names.                       *)
LEMMA CallsAre ==
  ASSUME NEW asked \in Plans \cup Requests \cup Quotes \cup Selections \cup Arrivals
  PROVE  /\ asked.fn = "plan" => asked \in Plans
         /\ asked.fn = "normalize" => asked \in Requests
         /\ asked.fn = "price" => asked \in Quotes
         /\ asked.fn = "choose" => asked \in Selections
         /\ asked.fn = "limit" => asked \in Arrivals
<1>1. /\ \A c \in Plans : c.fn = "plan"
      /\ \A c \in Requests : c.fn = "normalize"
      /\ \A c \in Quotes : c.fn = "price"
      /\ \A c \in Selections : c.fn = "choose"
      /\ \A c \in Arrivals : c.fn = "limit"
  BY DEF Plans, Requests, Quotes, Selections, Arrivals
<1> QED
  BY <1>1

(* The times of a call of the limiter are in order.                         *)
LEMMA ArrivalsAre ==
  ASSUME NEW asked \in Arrivals
  PROVE  \E n \in Nat : asked.times \in [1 .. n -> Nat] /\ InTimeOrder(asked.times, n)
<1>1. /\ asked.times \in BoundedSeq(0 .. Horizon, MaxRequests)
      /\ \A i \in 2 .. Len(asked.times) : asked.times[i - 1] <= asked.times[i]
  BY DEF Arrivals
<1>2. PICK n \in 0 .. MaxRequests : asked.times \in [1 .. n -> 0 .. Horizon]
  BY <1>1 DEF BoundedSeq, SeqOf
<1>3. n \in Nat
  BY FunctionsAssumption
<1>4. asked.times \in [1 .. n -> Nat]
  BY <1>2
<1>5. Len(asked.times) = n
  BY <1>3, <1>4, LenProperties, IsASeq
<1>6. InTimeOrder(asked.times, n)
  <2>1. \A i \in 2 .. n : asked.times[i - 1] <= asked.times[i]
    BY <1>1, <1>5
  <2> QED
    BY <1>3, <1>4, <2>1, AdjacentSuffices
<1> QED
  BY <1>3, <1>4, <1>6

(* LimiterBounds asks of a call what Bounded says.                          *)
LEMMA BoundsAreBounded ==
  ASSUME Returned("limit") => Bounded(invoked.times, result)
  PROVE  LimiterBounds
BY DEF LimiterBounds, Bounded, Span

(* For any number of requests at any times: at most twice the limit within  *)
(* a window's length, the whole limit for who keeps asking, and a counter   *)
(* that goes away (rateLimiter.ts, INCREMENT_WINDOW_SCRIPT).                *)
THEOREM LimiterIsBounded == FunctionsSpec => []LimiterBounds
<1>1. FunctionsInv => LimiterBounds
  <2> SUFFICES ASSUME FunctionsInv, Returned("limit")
               PROVE  Bounded(invoked.times, result)
    BY BoundsAreBounded
  <2>1. invoked \in Arrivals
    BY CallsAre DEF FunctionsInv, Returned
  <2>2. PICK n \in Nat : invoked.times \in [1 .. n -> Nat] /\ InTimeOrder(invoked.times, n)
    BY <2>1, ArrivalsAre
  <2>3. result = Decisions(invoked.times)
    BY DEF FunctionsInv
  <2> QED
    BY <2>2, <2>3, DecisionsAreBounded
<1> QED
  BY <1>1, FunctionsInvariance, PTL

(* PricingIsRight, of a quote.                                              *)
PriceIsRight(asked, price, exact) ==
  LET unit == BasisPoints * 100
      off == AbsValue(price.local * unit - exact)
      type == IF asked.rules = <<>> THEN "none" ELSE Head(asked.rules).type
  IN  /\ off < unit
      /\ 2 * AbsValue(price.converted * asked.rate[2] * unit - exact * asked.rate[1])
           <= unit * asked.rate[2] + 2 * off * asked.rate[1]
      /\ price.local >= 0 /\ (type # "override" => price.local <= asked.base)

(* PricingIsRight asks of each kind of call what is proved of its function. *)
LEMMA PricesAreRight ==
  ASSUME Returned("price") => PriceIsRight(invoked, result, ExactPrice),
         Returned("choose") => ChoiceIsRight(invoked.rules, result)
  PROVE  PricingIsRight
BY Zenon DEF PricingIsRight, PriceIsRight, ChoiceIsRight

(* A call of selectWinningRule chooses right.                               *)
LEMMA SelectionsAre ==
  ASSUME NEW asked \in Selections
  PROVE  ChoiceIsRight(asked.rules, WinningRule(asked.rules))
<1>1. /\ asked.rules \in BoundedSeq(Rivals, MaxRules)
      /\ \A i, j \in DOMAIN asked.rules : asked.rules[i].id = asked.rules[j].id => i = j
  BY DEF Selections
<1>2. PICK n \in 0 .. MaxRules : asked.rules \in [1 .. n -> Rivals]
  BY <1>1 DEF BoundedSeq, SeqOf
<1>3. n \in Nat
  BY FunctionsAssumption
<1>4. \A r \in Rivals : r.id \in Int /\ r.priority \in Int /\ r.created \in Int
  BY FunctionsAssumption DEF Rivals
<1>5. \A i, j \in 1 .. n : asked.rules[i].id = asked.rules[j].id => i = j
  BY <1>1, <1>2
<1> QED
  BY <1>2, <1>3, <1>4, <1>5, WinnerIsRight

(* A rule without rivals wins.                                              *)
LEMMA OneRuleWins ==
  ASSUME NEW r, r.id \in Int /\ r.priority \in Int /\ r.created \in Int
  PROVE  WinningRule(<<r>>) = r
<1>1. <<r>> \in [1 .. 1 -> {r}] /\ \A i, j \in 1 .. 1 : i = j
  OBVIOUS
<1>2. \E k \in 1 .. 1 : WinningRule(<<r>>) = <<r>>[k]
  <2>1. \A x \in {r} : x.id \in Int /\ x.priority \in Int /\ x.created \in Int
    OBVIOUS
  <2>2. PICK s : s = <<r>>
    OBVIOUS
  <2>3. PICK n \in Nat \ {0} : n = 1
    OBVIOUS
  <2>4. s \in [1 .. n -> {r}] /\ \A i, j \in 1 .. n : s[i].id = s[j].id => i = j
    BY <1>1, <2>2, <2>3
  <2>5. \E k \in 1 .. n : WinningRule(s) = s[k]
    BY <2>1, <2>4, WinnerComesFirst
  <2> QED
    BY <2>2, <2>3, <2>5
<1> QED
  BY <1>2

(* What is quoted: the rule that wins is the one given, or none.            *)
LEMMA QuotesAre ==
  ASSUME NEW asked \in Quotes
  PROVE  /\ asked.base \in Nat /\ asked.tier \in Tiers
         /\ asked.rate[1] \in Nat /\ asked.rate[2] \in Nat \ {0}
         /\ \E rule : /\ rule = WinningRule(asked.rules)
                      /\ Applicable(rule)
                      /\ \/ asked.rules = <<>> /\ rule.type = "none"
                         \/ asked.rules # <<>> /\ Head(asked.rules) = rule /\ rule.type # "none"
<1>1. /\ asked.base \in 0 .. MaxBase /\ asked.tier \in Tiers /\ asked.rate \in Rates
      /\ asked.rules \in {<<>>} \cup {<<r>> : r \in SingleRules}
  BY DEF Quotes
<1>2. asked.base \in Nat /\ asked.rate[1] \in Nat /\ asked.rate[2] \in Nat \ {0}
  <2>1. asked.rate \in Nat \X (Nat \ {0})
    BY <1>1, FunctionsAssumption
  <2> QED
    BY <1>1, <2>1
<1>3. CASE asked.rules = <<>>
  <2>1. WinningRule(asked.rules) = NoRule /\ NoRule.type = "none"
    BY <1>3 DEF WinningRule, NoRule
  <2> QED
    BY <1>1, <1>2, <1>3, <2>1 DEF Applicable
<1>4. CASE asked.rules # <<>>
  <2>1. PICK r \in SingleRules : asked.rules = <<r>>
    BY <1>1, <1>4
  <2>2. PICK t \in DOMAIN Values :
          r \in [id : {1}, type : {t}, value : Values[t], priority : {0}, created : {1}]
    BY DEF SingleRules
  <2>3. r.id = 1 /\ r.priority = 0 /\ r.created = 1 /\ r.type = t /\ r.value \in Values[t]
    BY <2>2
  <2>4. WinningRule(asked.rules) = r
    <3>1. r.id \in Int /\ r.priority \in Int /\ r.created \in Int
      BY <2>3
    <3> QED
      BY <2>1, <3>1, OneRuleWins
  <2>5. Applicable(r) /\ r.type # "none"
    <3>1. t \in {"percent_off", "fixed_off", "override"}
      BY <2>2, FunctionsAssumption
    <3>2. CASE t = "percent_off"
      BY <2>3, <3>2, FunctionsAssumption DEF Applicable
    <3>3. CASE t = "fixed_off"
      BY <2>3, <3>3, FunctionsAssumption DEF Applicable
    <3>4. CASE t = "override"
      BY <2>3, <3>4, FunctionsAssumption DEF Applicable
    <3> QED
      BY <3>1, <3>2, <3>3, <3>4
  <2>6. Head(asked.rules) = r
    BY <2>1
  <2> QED
    BY <1>1, <1>2, <1>4, <2>4, <2>5, <2>6
<1> QED
  BY <1>3, <1>4

(* A quote is right with respect to the price without any rounding.         *)
LEMMA QuoteIsRight ==
  ASSUME NEW asked \in Quotes, NEW local \in UnitPrices(asked.base, asked.rules, asked.tier),
         NEW price, price = [local |-> local, converted |-> ConvertCents(local, asked.rate)]
  PROVE  PriceIsRight(asked, price, Percent[asked.tier] * RulePrice(asked.base, WinningRule(asked.rules)))
<1>1. /\ asked.base \in Nat /\ asked.tier \in Tiers
      /\ asked.rate[1] \in Nat /\ asked.rate[2] \in Nat \ {0}
  BY QuotesAre
<1>2. PICK rule : /\ rule = WinningRule(asked.rules)
                  /\ Applicable(rule)
                  /\ \/ asked.rules = <<>> /\ rule.type = "none"
                     \/ asked.rules # <<>> /\ Head(asked.rules) = rule /\ rule.type # "none"
  BY QuotesAre
<1>3. PICK c \in AfterRule(asked.base, rule) : local = ForTier(c, asked.tier)
  BY <1>2 DEF UnitPrices
<1> DEFINE x == RulePrice(asked.base, rule)
<1> DEFINE p == Percent[asked.tier]
<1>4. Rounds(c, x) /\ (rule.type # "override" => c <= asked.base)
  BY <1>1, <1>2, RuleIsExactToHalfACent
<1>5. Discounts(local, c, p)
  <2>1. c \in Nat
    BY <1>4 DEF Rounds
  <2>2. Discounts(ForTier(c, asked.tier), c, Percent[asked.tier])
    BY <1>1, <2>1, TierIsExactToHalfACent
  <2> QED
    BY <1>3, <2>2
<1> HIDE DEF x, p
<1>6. AbsValue(local * Unit - p * x) < Unit
  BY <1>4, <1>5, RoundingsAddUpToLessThanACent
<1> DEFINE e == p * x
<1>7. e \in Int /\ local \in Nat /\ local <= c /\ c \in Nat
  BY <1>4, <1>5 DEF Rounds, Discounts
<1> HIDE DEF e
<1> DEFINE conv == ConvertCents(local, asked.rate)
<1>8. 2 * AbsValue(conv * asked.rate[2] * Unit - e * asked.rate[1])
        <= Unit * asked.rate[2] + 2 * AbsValue(local * Unit - e) * asked.rate[1]
  <2>1. PICK r, d : r = asked.rate[1] /\ d = asked.rate[2]
    OBVIOUS
  <2>2. r \in Nat /\ d \in Nat \ {0} /\ local \in Nat
    BY <1>1, <1>7, <2>1
  <2>3. 2 * AbsValue(RoundHalfEven(local * r, d) * d * Unit - e * r)
          <= Unit * d + 2 * AbsValue(local * Unit - e) * r
    BY <1>7, <2>2, ConversionAddsHalfACent
  <2>4. conv = RoundHalfEven(local * r, d)
    BY <2>1 DEF ConvertCents
  <2> QED
    BY <2>1, <2>3, <2>4, Zenon
<1>9. BasisPoints * 100 = Unit
  BY DEF Unit
<1>10. price.local = local /\ price.converted = conv
  OBVIOUS
<1>11. (IF asked.rules = <<>> THEN "none" ELSE Head(asked.rules).type) = rule.type
  BY <1>2
<1>12. local >= 0 /\ (rule.type # "override" => local <= asked.base)
  BY <1>1, <1>4, <1>7
<1> HIDE DEF conv
<1>13. AbsValue(local * Unit - e) < Unit
  BY <1>6 DEF e
<1>14. PriceIsRight(asked, price, e)
  BY <1>8, <1>9, <1>10, <1>11, <1>12, <1>13 DEF PriceIsRight
<1> QED
  BY <1>2, <1>14 DEF e, p, x

(* That price is ExactPrice.                                                *)
LEMMA ExactPriceIs ==
  ASSUME invoked \in Quotes
  PROVE  ExactPrice = Percent[invoked.tier] * RulePrice(invoked.base, WinningRule(invoked.rules))
<1>1. PICK rule : /\ rule = WinningRule(invoked.rules)
                  /\ Applicable(rule)
                  /\ \/ invoked.rules = <<>> /\ rule.type = "none"
                     \/ invoked.rules # <<>> /\ Head(invoked.rules) = rule /\ rule.type # "none"
  BY QuotesAre
<1>2. CASE invoked.rules = <<>>
  BY <1>1, <1>2 DEF ExactPrice, RulePrice
<1>3. CASE invoked.rules # <<>>
  <2>1. Head(invoked.rules) = rule
    BY <1>1, <1>3
  <2>2. rule.type = "percent_off" \/ rule.type = "fixed_off" \/ rule.type = "override"
    BY <1>1, <1>3 DEF Applicable
  <2>3. CASE rule.type = "percent_off"
    BY <1>1, <1>3, <2>1, <2>3 DEF ExactPrice, RulePrice
  <2>4. CASE rule.type = "fixed_off"
    BY <1>1, <1>3, <2>1, <2>4 DEF ExactPrice, RulePrice
  <2>5. CASE rule.type = "override"
    BY <1>1, <1>3, <2>1, <2>5 DEF ExactPrice, RulePrice
  <2> QED
    BY <2>2, <2>3, <2>4, <2>5
<1> QED
  BY <1>2, <1>3

(* For every base price, rule, tier and rate: computeLocalUnitPrice         *)
(* (pricingEngine.ts:16-27) and convertCents are off by no more than their  *)
(* roundings, and selectWinningRule (ruleSelection.ts) chooses the one rule *)
(* that no other comes before.                                              *)
THEOREM PricesAreAlwaysRight == FunctionsSpec => []PricingIsRight
<1>1. FunctionsInv => PricingIsRight
  <2> SUFFICES ASSUME FunctionsInv
               PROVE  /\ Returned("price") => PriceIsRight(invoked, result, ExactPrice)
                      /\ Returned("choose") => ChoiceIsRight(invoked.rules, result)
    BY PricesAreRight
  <2>1. ASSUME Returned("price")
        PROVE  PriceIsRight(invoked, result, ExactPrice)
    <3>1. invoked \in Quotes
      BY <2>1, CallsAre DEF FunctionsInv, Returned
    <3>2. PICK local \in UnitPrices(invoked.base, invoked.rules, invoked.tier) :
            result = [local |-> local, converted |-> ConvertCents(local, invoked.rate)]
      BY <2>1, Zenon DEF FunctionsInv
    <3>3. PriceIsRight(invoked, result, Percent[invoked.tier] * RulePrice(invoked.base, WinningRule(invoked.rules)))
      BY <3>1, <3>2, QuoteIsRight
    <3> QED
      BY <3>1, <3>3, ExactPriceIs
  <2>2. ASSUME Returned("choose")
        PROVE  ChoiceIsRight(invoked.rules, result)
    <3>1. invoked \in Selections
      BY <2>2, CallsAre DEF FunctionsInv, Returned
    <3>2. result = WinningRule(invoked.rules)
      BY <2>2, Zenon DEF FunctionsInv
    <3> QED
      BY <3>1, <3>2, SelectionsAre
  <2> QED
    BY <2>1, <2>2
<1> QED
  BY <1>1, FunctionsInvariance, PTL

(* AllocationIsRight asks of each kind of call what is proved of its        *)
(* function.                                                                *)
LEMMA AllocationsAreRight ==
  ASSUME Returned("plan") =>
           /\ invoked.available \in [Warehouses -> Int]
           /\ PlannedRight(invoked.qty, invoked.available, result),
         Returned("normalize") => NormalizedRight(invoked.lines, result)
  PROVE  AllocationIsRight
<1>1. \A lines : AsFunction(lines) = Amounts(lines)
  BY Zenon DEF AsFunction, Amounts
<1> QED
  BY <1>1, Zenon DEF AllocationIsRight, PlannedRight, NormalizedRight, Having

(* For every number of warehouses, products and lines: a call of            *)
(* planAllocations (allocation.ts:4-39) returns the one greedy plan or      *)
(* throws because there is none, and normalizeReservationLines              *)
(* (stockMath.ts:5-16) keeps the total of every product, once each and in   *)
(* order.                                                                   *)
THEOREM AllocationIsAlwaysRight == FunctionsSpec => []AllocationIsRight
<1>1. FunctionsInv => AllocationIsRight
  <2> SUFFICES ASSUME FunctionsInv
               PROVE  /\ Returned("plan") =>
                           /\ invoked.available \in [Warehouses -> Int]
                           /\ PlannedRight(invoked.qty, invoked.available, result)
                      /\ Returned("normalize") => NormalizedRight(invoked.lines, result)
    BY AllocationsAreRight
  <2>1. ASSUME Returned("plan")
        PROVE  /\ invoked.available \in [Warehouses -> Int]
               /\ PlannedRight(invoked.qty, invoked.available, result)
    <3>1. invoked \in Plans
      BY <2>1, CallsAre DEF FunctionsInv, Returned
    <3>2. invoked.qty \in 1 .. MaxQty /\ invoked.available \in [Warehouses -> -1 .. MaxAvailable]
      BY <3>1 DEF Plans
    <3>3. invoked.qty \in Nat /\ invoked.available \in [Warehouses -> Int]
      BY <3>2, FunctionsAssumption
    <3>4. result = PlanAllocations(invoked.qty, invoked.available)
      BY <2>1, Zenon DEF FunctionsInv
    <3> QED
      BY <3>3, <3>4, PlanningIsRight
  <2>2. ASSUME Returned("normalize")
        PROVE  NormalizedRight(invoked.lines, result)
    <3>1. invoked \in Requests
      BY <2>2, CallsAre DEF FunctionsInv, Returned
    <3>2. PICK n \in 0 .. MaxLines : invoked.lines \in [1 .. n -> [product : Products, qty : 1 .. MaxQty]]
      BY <3>1 DEF Requests, BoundedSeq, SeqOf
    <3>3. [product : Products, qty : 1 .. MaxQty] \subseteq Line
      BY FunctionsAssumption DEF Line
    <3>4. n \in Nat /\ invoked.lines \in [1 .. n -> Line]
      BY <3>2, <3>3, FunctionsAssumption
    <3>5. result = NormalizeLines(invoked.lines)
      BY <2>2, Zenon DEF FunctionsInv
    <3> QED
      BY <3>4, <3>5, NormalizingIsRight
  <2> QED
    BY <2>1, <2>2
<1> QED
  BY <1>1, FunctionsInvariance, PTL

===============================================================================

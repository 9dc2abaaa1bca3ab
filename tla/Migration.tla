-------------------------------- MODULE Migration --------------------------------
(***************************************************************************)
(* scripts/migrate.ts: the files of db/migrations are applied in the order *)
(* of their names, each with its row of schema_migrations in one           *)
(* transaction, and then the seed is loaded into an empty database.        *)
(* Several runners may be at work at once (the migrator of a deployment    *)
(* that is brought up again, `npm run migrate` by hand), may die, and may  *)
(* be run again; between two runs somebody may edit a file.                *)
(*                                                                         *)
(* A file is its position in the order; its body is a version, 0 stands    *)
(* for "not applied".  Every body creates what is not there yet (IF NOT    *)
(* EXISTS): run a second time, it changes nothing.                         *)
(***************************************************************************)
EXTENDS Naturals, FiniteSets

CONSTANTS
  Runners,   \* processes that run scripts/migrate.ts
  Seeders,   \* those with SEED=1
  Files,     \* number of files
  Tables,    \* the tables whose rows the seed owns, as far as they are counted
  MaxRuns,   \* how many runs are started
  MaxFaults  \* how many runs fail for reasons of their own, and files are edited

ASSUME MigrationAssumption ==
  /\ Files \in Nat /\ MaxRuns \in Nat /\ MaxFaults \in Nat
  /\ Seeders \subseteq Runners

VARIABLES
  disk,     \* version of the body of each file
  tracked,  \* version whose checksum schema_migrations has
  effect,   \* version whose statements are in effect
  seeded,   \* the tables that hold the rows of the seed
  runner,   \* what each process is doing
  runs,     \* runs started
  faults    \* runs that failed for reasons of their own, and edits

migrationVars == <<disk, tracked, effect, seeded, runner, runs, faults>>

Order == 1 .. Files
Versions == 1 .. MaxFaults + 1
Nothing == [f \in Order |-> 0]

InTransaction == {"ran", "inserted"}
Working == {"tracking", "files", "count"} \cup InTransaction
Ended == {"done", "failed"}

Idle == [at |-> "off", file |-> 1, applied |-> Nothing, version |-> 0, counted |-> {},
         found |-> FALSE]

MigrationInit ==
  /\ disk = [f \in Order |-> 1]
  /\ tracked = Nothing /\ effect = Nothing /\ seeded = {}
  /\ runner = [r \in Runners |-> Idle]
  /\ runs = 0 /\ faults = 0

(* A process is started when its last run is over. *)
Run(r) ==
  /\ runner[r].at \in {"off"} \cup Ended /\ runs < MaxRuns
  /\ runner' = [runner EXCEPT ![r] = [Idle EXCEPT !.at = "tracking"]]
  /\ runs' = runs + 1
  /\ UNCHANGED <<disk, tracked, effect, seeded, faults>>

Continue(r, next) ==
  /\ runner' = [runner EXCEPT ![r] = next]
  /\ UNCHANGED <<disk, runs, faults>>

(* A process that has ended, with exit code 0 or 1, remembers nothing. *)
EndRun(r, code) == Continue(r, [Idle EXCEPT !.at = code])

(* ensureTrackingTable and loadApplied: one look at what is applied, before *)
(* the first file.                                                          *)
LoadApplied(r) ==
  /\ runner[r].at = "tracking"
  /\ Continue(r, [runner[r] EXCEPT !.at = "files", !.applied = tracked])
  /\ UNCHANGED <<tracked, effect, seeded>>

(* The file the loop is at, its body and checksum read when it gets there. *)
AtFile(r) == runner[r].at = "files" /\ runner[r].file \in Order

NextFile(run) == [run EXCEPT !.at = "files", !.file = @ + 1]

(* Applied, as far as the runner knows, and not changed since. *)
SkipFile(r) ==
  /\ AtFile(r)
  /\ runner[r].applied[runner[r].file] = disk[runner[r].file]
  /\ Continue(r, NextFile(runner[r]))
  /\ UNCHANGED <<tracked, effect, seeded>>

(* Applied with another checksum: the run ends with an error. *)
RefuseFile(r) ==
  /\ AtFile(r)
  /\ runner[r].applied[runner[r].file] \notin {0, disk[runner[r].file]}
  /\ EndRun(r, "failed")
  /\ UNCHANGED <<tracked, effect, seeded>>

Holds(r, f) == runner[r].at \in InTransaction /\ runner[r].file = f

(* BEGIN and the body.  Its statements wait for another transaction that    *)
(* has run the same body; if that one commits, they may find what they      *)
(* create, or fail on it.                                                   *)
RunBody(r) ==
  LET f == runner[r].file
  IN  /\ AtFile(r) /\ runner[r].applied[f] = 0
      /\ \A other \in Runners : ~Holds(other, f)
      /\ \/ Continue(r, [runner[r] EXCEPT !.at = "ran", !.version = disk[f]])
         \/ tracked[f] # 0 /\ EndRun(r, "failed")
      /\ UNCHANGED <<tracked, effect, seeded>>

(* The row of schema_migrations; its primary key is the file. *)
Insert(r) ==
  /\ runner[r].at = "ran"
  /\ IF tracked[runner[r].file] = 0
       THEN Continue(r, [runner[r] EXCEPT !.at = "inserted"]) ELSE EndRun(r, "failed")
  /\ UNCHANGED <<tracked, effect, seeded>>

Applied(r) ==
  LET f == runner[r].file
  IN  /\ tracked' = [tracked EXCEPT ![f] = runner[r].version]
      /\ effect' = [effect EXCEPT ![f] = IF @ = 0 THEN runner[r].version ELSE @]

Commit(r) ==
  /\ runner[r].at = "inserted"
  /\ Applied(r)
  /\ Continue(r, NextFile(runner[r]))
  /\ UNCHANGED seeded

(* After the last file; without SEED=1 the run is over. *)
EndFiles(r) ==
  /\ runner[r].at = "files" /\ runner[r].file > Files
  /\ IF r \in Seeders THEN Continue(r, [Idle EXCEPT !.at = "count"]) ELSE EndRun(r, "done")
  /\ UNCHANGED <<tracked, effect, seeded>>

(* seedIfEmpty: the tables are counted by queries of their own. *)
Count(r) ==
  /\ runner[r].at = "count"
  /\ \E t \in Tables \ runner[r].counted :
       Continue(r, [runner[r] EXCEPT !.counted = @ \cup {t},
                                     !.found = @ \/ t \in seeded])
  /\ UNCHANGED <<tracked, effect, seeded>>

(* Mutated form: seed.sql without its BEGIN and COMMIT. *)
SeedTableByTable(r) ==
  /\ runner[r].at = "count" /\ runner[r].counted = Tables /\ ~runner[r].found
  /\ IF seeded = Tables
       THEN EndRun(r, "done") /\ UNCHANGED seeded
       ELSE /\ \E t \in Tables \ seeded : seeded' = seeded \cup {t}
            /\ UNCHANGED <<disk, runner, runs, faults>>
  /\ UNCHANGED <<tracked, effect>>

(* All rows in one transaction, each skipped if it is there. *)
Seed(r) ==
  /\ runner[r].at = "count" /\ runner[r].counted = Tables /\ ~runner[r].found
  /\ seeded' = Tables
  /\ EndRun(r, "done")
  /\ UNCHANGED <<tracked, effect>>

SkipSeed(r) ==
  /\ runner[r].at = "count" /\ runner[r].counted = Tables /\ runner[r].found
  /\ EndRun(r, "done")
  /\ UNCHANGED <<tracked, effect, seeded>>

(* A statement fails, the connection is lost, or the process dies: the     *)
(* transaction is rolled back and the run is over.                         *)
Die(r) ==
  /\ faults < MaxFaults /\ faults' = faults + 1
  /\ runner[r].at \in Working
  /\ runner' = [runner EXCEPT ![r] = [Idle EXCEPT !.at = "failed"]]
  /\ UNCHANGED <<disk, tracked, effect, seeded, runs>>

(* The same, after the database has committed what it was last asked to. *)
DieCommitted(r) ==
  /\ faults < MaxFaults /\ faults' = faults + 1
  /\ runner[r].at = "inserted"
  /\ Applied(r)
  /\ runner' = [runner EXCEPT ![r] = [Idle EXCEPT !.at = "failed"]]
  /\ UNCHANGED <<disk, seeded, runs>>

(* Somebody changes a file of the repository. *)
Edit(f) ==
  /\ faults < MaxFaults /\ faults' = faults + 1
  /\ disk' = [disk EXCEPT ![f] = @ + 1]
  /\ UNCHANGED <<tracked, effect, seeded, runner, runs>>

RunnerStep(r) ==
  \/ LoadApplied(r) \/ SkipFile(r) \/ RefuseFile(r) \/ RunBody(r) \/ Insert(r) \/ Commit(r)
  \/ EndFiles(r) \/ Count(r) \/ Seed(r) \/ SkipSeed(r)

MigrationNext ==
  \/ \E r \in Runners : Run(r) \/ RunnerStep(r) \/ Die(r) \/ DieCommitted(r)
  \/ \E f \in Order : Edit(f)

MigrationSpec == MigrationInit /\ [][MigrationNext]_migrationVars

-------------------------------------------------------------------------------
MigrationTypeOK ==
  /\ disk \in [Order -> Versions]
  /\ tracked \in [Order -> {0} \cup Versions] /\ effect \in [Order -> {0} \cup Versions]
  /\ seeded \subseteq Tables
  /\ runner \in [Runners -> [at : {"off"} \cup Working \cup Ended, file : 1 .. Files + 1,
                             applied : [Order -> {0} \cup Versions],
                             version : {0} \cup Versions, counted : SUBSET Tables,
                             found : BOOLEAN]]
  /\ runs \in 0 .. MaxRuns /\ faults \in 0 .. MaxFaults

(* Wherever runners die, overlap or are run again (migrate.ts:42-109): what *)
(* schema_migrations says is applied is in effect, in that version and not  *)
(* another; the files applied are the first ones of the order; and the seed *)
(* is there as a whole or not at all, and never before the schema.          *)
DatabaseIsWhole ==
  /\ effect = tracked
  /\ \A f, g \in Order : f < g /\ tracked[g] # 0 => tracked[f] # 0
  /\ seeded \in {{}, Tables}
  /\ seeded # {} => \A f \in Order : tracked[f] # 0

(* What a run that ended well promises to the services that start after it  *)
(* (docker-compose.yml: service_completed_successfully).                    *)
Migrated ==
  /\ \A f \in Order : tracked[f] # 0
  /\ \A r \in Seeders : runner[r].at = "done" => seeded = Tables
===============================================================================

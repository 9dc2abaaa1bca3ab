------------------------------- MODULE Deployment -------------------------------
(***************************************************************************)
(* The system brought up by docker-compose.yml, and taken down by signals. *)
(* The migrator runs first; the services and the gateway start when it has *)
(* ended well; the synthetic monitor starts when the gateway has answered  *)
(* one GET /ready with 200, which asks the /ready of every service, which  *)
(* asks those of the services it calls.  A process that gets SIGTERM stops *)
(* its jobs, waits for its connections to end, and closes what requests    *)
(* use.  A request whose caller has hung up has no connection: it may      *)
(* still be at work then, and ends with the process.  Nothing but the      *)
(* monitor is restarted by itself.                                         *)
(*                                                                         *)
(* The tick of a background job is a transaction after another.            *)
(***************************************************************************)
EXTENDS Migration

CONSTANTS
  Migrator,   \* the runner docker-compose.yml starts
  Services,   \* the services behind the gateway that are deployed
  MaxInFlight \* requests in flight

AllServices == {"catalog", "inventory", "orders", "payments", "settlement"}

(* docker-compose.yml:37: the migrator has SEED=1. *)
ASSUME DeploymentAssumption ==
  Migrator \in Seeders /\ Services \subseteq AllServices /\ MaxInFlight \in Nat

Gateway == "gateway"
Servers == Services \cup {Gateway}

(* The services whose /ready a service asks for its own. *)
CatalogNeeds == {"payments"}
OrdersNeeds == {"catalog", "inventory", "payments"}
Needs(s) ==
  Services \cap CASE s = "catalog" -> CatalogNeeds
                  [] s = "orders" -> OrdersNeeds
                  [] OTHER -> {}

(* Those with a background job, and those that do not wait for more than    *)
(* 10 s when they are told to end.                                          *)
HasJob == Services \cap {"inventory", "orders"}
HasDeadline == Services \cap {"catalog"}

VARIABLES
  proc,     \* what each process is doing
  request,  \* its request in flight: one with its connection, or one left by its caller
  tick,     \* what its job is doing
  probe,    \* the gateway's check of /ready: the services still to answer, and the answers
  monitor   \* whether the monitor runs

deploymentVars == <<proc, request, tick, probe, monitor>>

NoProbe == [on |-> FALSE, asked |-> {}, failed |-> FALSE]

DeploymentInit ==
  /\ MigrationInit
  /\ proc = [s \in Servers |-> "none"] /\ request = [s \in Servers |-> "none"]
  /\ tick = [s \in Servers |-> "idle"]
  /\ probe = NoProbe /\ monitor = FALSE

(* Mutated form: service_completed, however it ended. *)
MigratorEnded == runner[Migrator].at \in Ended

(* depends_on: the migrator's container has exited with 0. *)
MigratorSucceeded == runner[Migrator].at = "done"

(* The process connects and listens; the job of inventory begins at once.   *)
Boot(s) ==
  /\ s \in Services /\ proc[s] = "none" /\ MigratorSucceeded
  /\ proc' = [proc EXCEPT ![s] = "listening"]
  /\ tick' = [tick EXCEPT ![s] = IF s = "inventory" THEN "transaction" ELSE "idle"]
  /\ UNCHANGED <<request, probe, monitor>>

(* The gateway has its keys in Redis before it listens, and ends when it    *)
(* cannot have them.                                                        *)
BootGateway ==
  /\ proc[Gateway] = "none" /\ MigratorSucceeded
  /\ proc' = [proc EXCEPT ![Gateway] = "listening"]
  /\ UNCHANGED <<request, tick, probe, monitor>>

(* A signal and a failed start count as faults, like the end of a run. *)
Fault == faults < MaxFaults /\ faults' = faults + 1

Leaving == {s \in Servers : proc[s] \in {"draining", "closing", "exited"}}

BootFails ==
  /\ Fault
  /\ proc[Gateway] = "none" /\ MigratorSucceeded
  /\ proc' = [proc EXCEPT ![Gateway] = "exited"]
  /\ UNCHANGED <<request, tick, probe, monitor>>

Accept(s) ==
  /\ proc[s] = "listening" /\ request[s] = "none"
  /\ Cardinality({t \in Servers : request[t] # "none"}) < MaxInFlight
  /\ request' = [request EXCEPT ![s] = "connected"]
  /\ UNCHANGED <<proc, tick, probe, monitor>>

(* The handler ends. *)
Answer(s) ==
  /\ request[s] # "none"
  /\ request' = [request EXCEPT ![s] = "none"]
  /\ UNCHANGED <<proc, tick, probe, monitor>>

(* The caller's timeout passes, or the caller ends: the connection is gone, *)
(* and the handler knows nothing of it.                                     *)
HangUp(s) ==
  /\ request[s] = "connected"
  /\ request' = [request EXCEPT ![s] = "left"]
  /\ UNCHANGED <<proc, tick, probe, monitor>>

(* The job: a tick every interval until stop(); the one at work goes on.    *)
TickBegin(s) ==
  /\ s \in HasJob /\ proc[s] = "listening" /\ tick[s] = "idle"
  /\ tick' = [tick EXCEPT ![s] = "transaction"]
  /\ UNCHANGED <<proc, request, probe, monitor>>

(* A transaction of the tick ends, and so may the tick. *)
TickCommit(s) ==
  /\ tick[s] = "transaction" /\ proc[s] # "exited"
  /\ \E next \in {"between", "idle"} : tick' = [tick EXCEPT ![s] = next]
  /\ UNCHANGED <<proc, request, probe, monitor>>

(* The next one; the pool gives no client after end(), and the tick throws. *)
TickContinue(s) ==
  /\ tick[s] = "between" /\ proc[s] # "exited"
  /\ tick' = [tick EXCEPT ![s] = IF proc[s] = "closing" THEN "idle" ELSE "transaction"]
  /\ UNCHANGED <<proc, request, probe, monitor>>

(* SIGTERM or SIGINT: no more connections, no more ticks. *)
Signal(s) ==
  /\ Fault
  /\ proc[s] = "listening"
  /\ proc' = [proc EXCEPT ![s] = "draining"]
  /\ UNCHANGED <<request, tick, probe, monitor>>

(* server.close has called back: no connection is left, the health check's *)
(* neither.                                                                 *)
Close(s) ==
  /\ proc[s] = "draining" /\ request[s] # "connected" /\ (s = Gateway => ~probe.on)
  /\ proc' = [proc EXCEPT ![s] = "closing"]
  /\ UNCHANGED <<request, tick, probe, monitor>>

(* The process ends, with the request it still has. *)
Stop(s) ==
  /\ proc' = [proc EXCEPT ![s] = "exited"]
  /\ request' = [request EXCEPT ![s] = "none"]
  /\ UNCHANGED <<tick, probe, monitor>>

(* pool.end() is over when the last client has been released; what a left  *)
(* request has to do after that is not done.                                *)
Exit(s) == proc[s] = "closing" /\ tick[s] # "transaction" /\ Stop(s)

(* catalog/src/index.ts:25. *)
Deadline(s) == s \in HasDeadline /\ proc[s] \in {"draining", "closing"} /\ Stop(s)

-------------------------------------------------------------------------------
(* GET /ready of a service: its own database and cache, and the /ready of   *)
(* the services it calls.                                                   *)
Ready[s \in Services] == proc[s] = "listening" /\ \A n \in Needs(s) : Ready[n]

(* The container's health check. *)
ProbeBegin ==
  /\ proc[Gateway] = "listening" /\ ~probe.on /\ ~monitor
  /\ probe' = [on |-> TRUE, asked |-> Services, failed |-> FALSE]
  /\ UNCHANGED <<proc, request, tick, monitor>>

(* One service's answer, or 600 ms without one, three times over. *)
ProbeAnswer(s) ==
  /\ probe.on /\ s \in probe.asked
  /\ probe' = [probe EXCEPT !.asked = @ \ {s}, !.failed = @ \/ ~Ready[s]]
  /\ UNCHANGED <<proc, request, tick, monitor>>

(* Mutated form: the first answer is the last. *)
ProbeEndOnce ==
  /\ probe.on /\ probe.asked = {}
  /\ monitor' = ~probe.failed
  /\ UNCHANGED <<proc, request, tick, probe>>

(* All have answered: 200 only if every one is ready, and then the monitor  *)
(* is started.                                                              *)
ProbeEnd ==
  /\ probe.on /\ probe.asked = {}
  /\ probe' = NoProbe
  /\ monitor' = ~probe.failed
  /\ UNCHANGED <<proc, request, tick>>

Probing == ProbeBegin \/ (\E s \in Services : ProbeAnswer(s)) \/ ProbeEnd

TickStep(s) == TickCommit(s) \/ TickContinue(s)

ProcessStep(s) ==
  \/ Boot(s) \/ Accept(s) \/ Answer(s) \/ HangUp(s) \/ TickBegin(s) \/ TickStep(s)
  \/ Close(s) \/ Exit(s) \/ Deadline(s)

Outside == BootFails \/ \E s \in Servers : Signal(s)

DeploymentNext ==
  \/ MigrationNext /\ UNCHANGED deploymentVars
  \/ ((\E s \in Servers : ProcessStep(s)) \/ BootGateway \/ Probing) /\ UNCHANGED migrationVars
  \/ Outside /\ UNCHANGED <<disk, tracked, effect, seeded, runner, runs>>

DeploymentSpec == DeploymentInit /\ [][DeploymentNext]_<<migrationVars, deploymentVars>>

(* A statement ends, a handler does within the time the calls it makes      *)
(* have, processes that may start do, and the health check comes back *)
(* every 5 s.  No signal has to arrive, and no client to call.              *)
DeploymentFairness ==
  /\ \A r \in Runners : WF_migrationVars(RunnerStep(r))
  /\ \A s \in Servers : WF_deploymentVars(Boot(s) \/ Answer(s) \/ Close(s) \/ Exit(s))
  /\ WF_deploymentVars(BootGateway)
  /\ \A s \in HasJob : WF_deploymentVars(TickStep(s))
  /\ WF_deploymentVars(Probing)

-------------------------------------------------------------------------------
DeploymentTypeOK ==
  /\ MigrationTypeOK
  /\ proc \in [Servers -> {"none", "listening", "draining", "closing", "exited"}]
  /\ request \in [Servers -> {"none", "connected", "left"}]
  /\ tick \in [Servers -> {"idle", "transaction", "between"}]
  /\ probe \in [on : BOOLEAN, asked : SUBSET Services, failed : BOOLEAN]
  /\ monitor \in BOOLEAN

(* docker-compose.yml:30-149: whoever runs migrations by hand, edits a file *)
(* or brings the system up a second time, no process of the system meets a  *)
(* database without its whole schema and its seed; and there is no traffic  *)
(* of the monitor before every service has started.                         *)
NothingStartsTooEarly ==
  /\ (\E s \in Servers : proc[s] # "none") => Migrated /\ seeded = Tables
  /\ monitor => \A s \in Services : proc[s] # "none"

(* Runs are started and signals come a bounded number of times.  Then every *)
(* run of the migrations ends, also when two runners wait for each other's  *)
(* rows; a process that got a signal ends; and a migrator that ended well   *)
(* is followed by the monitor, unless a process has left: the checks of     *)
(* /ready do not wait in a circle (docker-compose.yml, shutdown in index.ts). *)
TransitionsComplete ==
  <>[](/\ \A r \in Runners : runner[r].at \notin Working
       /\ \A s \in Servers : proc[s] \notin {"draining", "closing"}
       /\ MigratorSucceeded => monitor \/ Leaving # {})
===============================================================================

-------------------------------- MODULE MCParts --------------------------------
(***************************************************************************)
(* Small instances of the parts that share no state with the stores and    *)
(* with each other: the pure functions, the deployment, the traffic through    *)
(* the gateway, and the cached reads of an order.  A behaviour is about    *)
(* one of them, the one Init chooses; the others stand still.              *)
(***************************************************************************)
EXTENDS MCFunctions, Deployment, Monitor, OrderReads

VARIABLE subject

vars == <<subject, functionVars, migrationVars, deploymentVars, trafficVars, readVars>>

(* A scenario that makes calls at once, one that cleans up after itself,    *)
(* and two that take turns.                                                 *)
SomeSchedules ==
  {<<"payment-retry-storm">>, <<"price-rule-mutation">>,
   <<"payment-retry-storm", "settlement-report">>}

Init ==
  /\ subject \in {"functions", "deployment", "traffic", "reads"}
  /\ IF subject = "functions" THEN FunctionsInit
     ELSE invoked = <<>> /\ returned = FALSE /\ result = <<>>
  /\ DeploymentInit
  /\ GatewayInit
  /\ MonitorInit(IF subject = "traffic" THEN SomeSchedules ELSE {<<"settlement-report">>})
  /\ OrderReadsInit

Next ==
  /\ \/ /\ subject = "functions" /\ FunctionsNext
        /\ UNCHANGED <<migrationVars, deploymentVars, trafficVars, readVars>>
     \/ /\ subject = "deployment" /\ DeploymentNext
        /\ UNCHANGED <<functionVars, trafficVars, readVars>>
     \/ /\ subject = "traffic" /\ TrafficNext
        /\ UNCHANGED <<functionVars, migrationVars, deploymentVars, readVars>>
     \/ /\ subject = "reads" /\ OrderReadsNext
        /\ UNCHANGED <<functionVars, migrationVars, deploymentVars, trafficVars>>
  /\ UNCHANGED subject

Spec == Init /\ [][Next]_vars /\ DeploymentFairness /\ TrafficFairness
===============================================================================

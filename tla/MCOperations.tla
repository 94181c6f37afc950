---------------------------- MODULE MCOperations ----------------------------
(***************************************************************************)
(* What has to happen in the end, and the commands an operator runs: a     *)
(* behaviour is one of the component "part", with the fairness of that     *)
(* component.  The components share no state (the configured secrets and   *)
(* the provider are read by other programs, later).                        *)
(***************************************************************************)
EXTENDS Shares, Telemetry, Sessions,
        Deployment, EdgeProvisioning, StorageKeys, Heartbeat, TLC

CONSTANTS
  Parts,                                       \* the components this instance exercises
  d1, d2, d3, r0, r1, r2,                      \* Deployment
  foreign,                                     \* StorageKeys
  b1, b2, p1, p2, p3, p4, a1, a2               \* the others, which use the same values

VARIABLE part

onceVars == <<deployVars, edgeVars, storageKeysVars, heartbeatVars>>
timedVars == <<sharesVars, telemetryVars, authVars>>
everything == <<timedVars, onceVars, part>>

(* a part that does not run has one initial state *)
OperationsInit ==
  /\ part \in Parts
  /\ SharesInit /\ TelemetryInit /\ AuthInit
  /\ DeployInit /\ EdgeInit /\ StorageKeysInit /\ HeartbeatInit
  /\ part # "deployment" => serving = Installed
  /\ part # "edge" => zone = CHOOSE z \in EarlierZones : TRUE
  /\ part # "storage keys" => lifecycle = OthersRules

OperationsNext ==
  /\ UNCHANGED part
  /\ \/ part = "shares" /\ SharesNext /\ UNCHANGED <<telemetryVars, authVars, onceVars>>
     \/ part = "telemetry" /\ TelemetryNext /\ UNCHANGED <<sharesVars, authVars, onceVars>>
     \/ part = "sessions" /\ AuthNext /\ UNCHANGED <<sharesVars, telemetryVars, onceVars>>
     \/ /\ part = "deployment" /\ DeployNext
        /\ UNCHANGED <<timedVars, edgeVars, storageKeysVars, heartbeatVars>>
     \/ /\ part = "edge" /\ EdgeNext
        /\ UNCHANGED <<timedVars, deployVars, storageKeysVars, heartbeatVars>>
     \/ /\ part = "storage keys" /\ StorageKeysNext
        /\ UNCHANGED <<timedVars, deployVars, edgeVars, heartbeatVars>>
     \/ /\ part = "heartbeat" /\ HeartbeatNext
        /\ UNCHANGED <<timedVars, deployVars, edgeVars, storageKeysVars>>

-----------------------------------------------------------------------------
(* Deployment: d1 brings a release that never becomes healthy *)
MCBrings == d1 :> r1 @@ d2 :> r2 @@ d3 :> r0
MCNeeds == r0 :> 1 @@ r1 :> 3 @@ r2 :> 2

(* EdgeProvisioning: an empty zone, and others an operator may have; the last *)
(* one is an earlier run's, with the rule twice                               *)
Address(n) == [type |-> "A", content |-> n]

ZoneOf(found, ingress, redirects, public, apex, www) ==
  [tunnels |-> found, ingress |-> ingress, redirects |-> redirects,
   records |-> [public |-> public, apex |-> apex, www |-> www]]

MCZones ==
  {ZoneOf({}, {}, 0, {}, {}, {}),
   ZoneOf({1}, {}, 0, {Alias(0)}, {Address(1), Address(2)}, {Alias(0)}),
   ZoneOf({}, {}, 0, {}, {Alias(0), Address(1)}, {}),
   ZoneOf({}, {}, 0, {Address(1)}, {}, {}),
   ZoneOf({1, 2}, {}, 0, {}, {}, {}),
   ZoneOf({1}, {1}, 2, {Alias(1)}, {Alias(1)}, {Alias(0)})}

SmallSkew == {0, 1}

(***************************************************************************)
(* DeployFairness of the behaviours in which it runs; the other fair       *)
(* actions have nothing to do where their component does not run.          *)
(***************************************************************************)
DeploymentFairness ==
  \A d \in Deployers : WF_deployVars(part = "deployment" /\ DeployStep(d))

OperationsSpec ==
  /\ OperationsInit /\ [][OperationsNext]_everything
  /\ DeploymentFairness
  /\ SharesFairness /\ TelemetryFairness /\ AuthFairness /\ HeartbeatFairness

(***************************************************************************)
(* Deployment's DeploymentsEnd, of the behaviours in which it runs.        *)
(***************************************************************************)
StartedDeploymentsEnd == part = "deployment" => DeploymentsEnd

(***************************************************************************)
(* No backlog of expired rows stays, although every sweep takes a bounded  *)
(* number: shares, telemetry events, sign-in attempts and sessions.        *)
(***************************************************************************)
BacklogsLeave == ExpiredSharesLeave /\ OldEventsLeave /\ ExpiredAuthRowsLeave
=============================================================================

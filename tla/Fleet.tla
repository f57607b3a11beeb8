------------------------------- MODULE Fleet -------------------------------
(***************************************************************************)
(* The four managers of fleet/: rollouts, registry, commands and policies. *)
(* They know the same endpoints, but each keeps its own state behind its   *)
(* own mutex and calls none of the others, so that what one may do does    *)
(* not depend on the rest.  A behaviour therefore lets one of them act;    *)
(* the others stay as they were made.                                      *)
(***************************************************************************)
EXTENDS Integers

CONSTANTS Endpoints,
          Versions, NoVersion, TargetLists, StageCounts, Thresholds, Outcomes,
          MaxDeployments, MaxTargets,
          NoGroup, Timeouts, MaxGroups, MaxAge,
          MaxCommands,
          PolicyIds, Contents, GroupSets, MaxHistory

VARIABLES awake,                                                \* who acts
          deployments, endpointVersions, before,
          endpoints, groups, nextGroup, heartbeatTimeout, reregistered,
          commands, commandQueue, fetched,
          policies, policyHistory, complianceState, sinceCreate

Rollouts == INSTANCE Deployment
Registry == INSTANCE FleetManager
Remote   == INSTANCE RemoteManager
Policy   == INSTANCE PolicyEngine

ASSUME FleetConstants == Rollouts!ConstantsAssumption /\ Registry!FleetAssumption

rolloutVars  == <<deployments, endpointVersions, before>>
registryVars == <<endpoints, groups, nextGroup, heartbeatTimeout, reregistered>>
remoteVars   == <<commands, commandQueue, fetched>>
policyVars   == <<policies, policyHistory, complianceState, sinceCreate>>
fleet        == <<awake, rolloutVars, registryVars, remoteVars, policyVars>>

Init == /\ awake \in {"rollouts", "registry", "remote", "policy"}
        /\ Rollouts!Init /\ Registry!Init /\ Remote!Init /\ Policy!Init

Next ==
  /\ UNCHANGED awake
  /\ \/ /\ awake = "rollouts" /\ Rollouts!Next
        /\ UNCHANGED <<registryVars, remoteVars, policyVars>>
     \/ /\ awake = "registry" /\ Registry!Next
        /\ UNCHANGED <<rolloutVars, remoteVars, policyVars>>
     \/ /\ awake = "remote" /\ Remote!Next
        /\ UNCHANGED <<rolloutVars, registryVars, policyVars>>
     \/ /\ awake = "policy" /\ Policy!Next
        /\ UNCHANGED <<rolloutVars, registryVars, remoteVars>>

Spec == Init /\ [][Next]_fleet
-----------------------------------------------------------------------------
(* The properties of the four, stated in their modules.                    *)

(* Every manager's tables hold what they are for.                          *)
TypeOK == /\ Rollouts!TypeOK /\ Registry!FleetTypeOK
          /\ Remote!RemoteTypeOK /\ Policy!PolicyTypeOK

(* buildStages() puts every target in exactly one stage, in order, and a   *)
(* rollout's status tells which of its stages are done and which failed.   *)
StatusTellsStages == /\ awake = "rollouts" => Rollouts!StagesPartition
                     /\ Rollouts!StatusTellsStages
(* rollback() restores the one version that a rollout found.               *)
RollbackRestores  == Rollouts!RollbackRestores
(* An endpoint's groupId and the lists of the groups agree.                *)
MembershipAgrees  == Registry!MembershipAgrees
(* An ended command keeps its outcome against late reports.                *)
CommandsEndOnce   == Remote!CommandsEndOnce
(* A policy's history is its versions without a gap and ends with it.      *)
HistoryTellsPolicy == Policy!HistoryTellsPolicy
=============================================================================

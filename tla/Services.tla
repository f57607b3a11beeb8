------------------------------ MODULE Services ------------------------------
(***************************************************************************)
(* The services that keep their state behind a mutex of their own and do   *)
(* not call each other: core/PluginLoader and core/EventBus; the registry  *)
(* and the version histories of plugin/; updates/UpdateManager;            *)
(* xdr/ResponseOrchestrator; api/WebhookManager; the detonation jobs of    *)
(* sandbox/; identity/AuditLogger; telemetry/TelemetryTransport;           *)
(* cloud/CloudPolicyManager; edr/AlertManager; network/IntrusionDetector;  *)
(* the rules and the filter of firewall/; and the indicators of            *)
(* threat_intel/.  What one may do does not depend on the rest: a          *)
(* behaviour lets one of them act while the others stay as they were made. *)
(***************************************************************************)
EXTENDS Integers

CONSTANTS Names, NameOf, NoLib, Graphs, MaxHandles,             \* Loader
          Ids, Hooks, NoManifest, MaxCopies, ResolvedIds,       \* Manager
          PluginVersions, NoPlugin, MaxInstalls,                \* Version
          Threads, Events, Subs, Filter, NoSub, MaxDispatches,  \* Bus
          Updates, FirstVersion, NoUpdate, Signatures, Percentages, \* Updating
          StagedUpdates,
          Actions, NoTarget, Priorities, MaxQueued, MaxApprovals, \* Response
          Webhooks, MaxRetries, Topics, Asks, MaxDeliveries, MaxByHand,
          MaxJobs,                                              \* Detonation
          MaxEvents, MaxTime, Policies,                         \* Audit
          Sizes, Limits, MaxItems, MaxBatches,                  \* Transport
          CloudEndpoints, FirstVersions, NoPolicy, MaxPolicyVersions, \* CloudPolicy
          AlertKeys, DefaultWindow, DefaultCapacity, Windows, Capacities, \* Alerting
          MaxAlertId, MaxClock, MaxRepeats,
          Sources, Ports, Targets, ScanWindow, CleanupWindow, ScanThreshold, \* Intrusion
          FloodWindows, FloodCounts, IDSRules, RulesMatching, KMaxAlerts,
          MaxIDSRules, MaxSeconds, MaxCalls,
          Filtering, Packets, Shapes, Blockable, AddressBits, AnySource, \* Filter
          GivenIds, MaxRules, MaxRuleId, MaxPackets,
          Ingesting, Feeds, ByHand, ChosenIds, Observed,        \* Intel
          MaxIOCId, MaxIngests

VARIABLES
  awake,                                                        \* who acts
  deps, plugins, state, handles, pc, order, sorted, settled, dropped, unmapped,
  pluginState, manifests, hooks, irregular,
  versions, current, replaced,
  subscribers, unused, stack,
  available, progress, currentVersion, previousVersion, incompatible, rollouts,
  signatures, replacedBy,
  actionQueue, approvalRequests, executedActions, rolledBack, nextQueueId,
  subscribed, ended, deliveries,
  jobs, queue, totalProcessed, totalCompleted, totalFailed, left, started, timedOut,
  cancelled,
  entries, nextId, policy, now, first, setBack,
  eventQueue, metricQueue, batches, enabled, limits, sent, nextItem, nextBatch,
  flushed, cleared,
  distributed, policyVersions, acknowledgedBy, misled,
  alerts, dedupIndex, dedupWindow, maxCapacity, nextAlertId, deduplicated, clock,
  idsRules, portScanTracker, floodTracker, idsAlerts, seconds, attempted, flooded, asked,
  raised, calls,
  rules, defaultAction, nextRuleId, stats, deciding, decided,
  iocs, nextIOCId, index, iocStore, ingest, begun, ingested, disturbed

Loader     == INSTANCE PluginLoader
Manager    == INSTANCE PluginManager
Version    == INSTANCE PluginVersionManager WITH MaxEntries <- MaxInstalls
Bus        == INSTANCE EventBus
Updating   == INSTANCE UpdateManager
Response   == INSTANCE ResponseOrchestrator WITH MaxEntries <- MaxQueued
Webhook    == INSTANCE WebhookManager WITH Hooks <- Webhooks
Detonation == INSTANCE MalwareDetonation
Audit      == INSTANCE AuditLogger
Transport  == INSTANCE TelemetryTransport
CloudPolicy == INSTANCE CloudPolicyManager
Alerting   == INSTANCE AlertManager
Intrusion  == INSTANCE IntrusionDetector
Filtered   == INSTANCE Firewall
Intel      == INSTANCE ThreatIntel

ASSUME ServiceConstants ==
  /\ Loader!LoaderAssumption /\ Manager!ManagerAssumption /\ Version!VersionsAssumption
  /\ Bus!BusAssumption /\ Updating!UpdateAssumption
  /\ Response!OrchestratorAssumption /\ Webhook!WebhookAssumption
  /\ Audit!AuditAssumption
  /\ Transport!TransportAssumption /\ CloudPolicy!CloudPolicyAssumption
  /\ Alerting!AlertAssumption /\ Intrusion!IntrusionAssumption /\ Filtered!FirewallAssumption
  /\ Intel!ThreatIntelAssumption

loaderVars     == <<deps, plugins, state, handles, pc, order, sorted, settled, dropped, unmapped>>
managerVars    == <<pluginState, manifests, hooks, irregular>>
versionVars    == <<versions, current, replaced>>
busVars        == <<subscribers, unused, stack>>
updatingVars   == <<available, progress, currentVersion, previousVersion, incompatible,
                    rollouts, signatures, replacedBy>>
responseVars   == <<actionQueue, approvalRequests, executedActions, rolledBack, nextQueueId>>
webhookVars    == <<subscribed, ended, deliveries>>
detonationVars == <<jobs, queue, totalProcessed, totalCompleted, totalFailed,
                    left, started, timedOut, cancelled>>
auditVars      == <<entries, nextId, policy, now, first, setBack>>
transportVars  == <<eventQueue, metricQueue, batches, enabled, limits, sent,
                    nextItem, nextBatch, flushed, cleared>>
cloudPolicyVars == <<distributed, policyVersions, acknowledgedBy, misled>>
alertVars       == <<alerts, dedupIndex, dedupWindow, maxCapacity, nextAlertId, deduplicated, clock>>
intrusionVars   == <<idsRules, portScanTracker, floodTracker, idsAlerts, seconds,
                     attempted, flooded, asked, raised, calls>>
firewallVars    == <<rules, defaultAction, nextRuleId, stats, deciding, decided>>
intelVars       == <<iocs, nextIOCId, index, iocStore, ingest, begun, ingested, disturbed>>

pluginSide  == <<loaderVars, managerVars, versionVars>>
serviceSide == <<busVars, updatingVars, responseVars, webhookVars, detonationVars, auditVars>>
remoteSide  == <<transportVars, cloudPolicyVars>>
watchSide   == <<alertVars, intrusionVars, firewallVars, intelVars>>
services    == <<awake, pluginSide, serviceSide, remoteSide, watchSide>>

(* What is given once and for all is fixed for those that do not act.      *)
Init ==
  /\ awake \in {"loader", "manager", "versions", "bus", "updates", "response",
                "webhooks", "detonation", "audit", "transport", "policies",
                "alerts", "intrusions", "firewall", "intel"}
  /\ Loader!Init /\ Manager!Init /\ Version!Init
  /\ Bus!Init /\ Updating!Init /\ Response!Init
  /\ Webhook!Init /\ Detonation!Init /\ Audit!Init
  /\ Transport!Init /\ CloudPolicy!Init
  /\ Alerting!Init /\ Intrusion!Init /\ Filtered!Init /\ Intel!Init
  /\ awake # "transport" => limits = CHOOSE l \in Limits : TRUE
  /\ awake # "loader" => \A n \in Names : deps[n] = {}

PluginStep ==
  /\ UNCHANGED <<serviceSide, remoteSide, watchSide>>
  /\ \/ awake = "loader"   /\ Loader!Next  /\ UNCHANGED <<managerVars, versionVars>>
     \/ awake = "manager"  /\ Manager!Next /\ UNCHANGED <<loaderVars, versionVars>>
     \/ awake = "versions" /\ Version!Next /\ UNCHANGED <<loaderVars, managerVars>>

ServiceStep ==
  /\ UNCHANGED <<pluginSide, remoteSide, watchSide>>
  /\ \/ /\ awake = "bus" /\ Bus!Next
        /\ UNCHANGED <<updatingVars, responseVars, webhookVars, detonationVars, auditVars>>
     \/ /\ awake = "updates" /\ Updating!Next
        /\ UNCHANGED <<busVars, responseVars, webhookVars, detonationVars, auditVars>>
     \/ /\ awake = "response" /\ Response!Next
        /\ UNCHANGED <<busVars, updatingVars, webhookVars, detonationVars, auditVars>>
     \/ /\ awake = "webhooks" /\ Webhook!Next
        /\ UNCHANGED <<busVars, updatingVars, responseVars, detonationVars, auditVars>>
     \/ /\ awake = "detonation" /\ Detonation!Next
        /\ UNCHANGED <<busVars, updatingVars, responseVars, webhookVars, auditVars>>
     \/ /\ awake = "audit" /\ Audit!Next
        /\ UNCHANGED <<busVars, updatingVars, responseVars, webhookVars, detonationVars>>

RemoteStep ==
  /\ UNCHANGED <<pluginSide, serviceSide, watchSide>>
  /\ \/ awake = "transport" /\ Transport!Next   /\ UNCHANGED cloudPolicyVars
     \/ awake = "policies"  /\ CloudPolicy!Next /\ UNCHANGED transportVars

WatchStep ==
  /\ UNCHANGED <<pluginSide, serviceSide, remoteSide>>
  /\ \/ /\ awake = "alerts" /\ Alerting!Next
        /\ UNCHANGED <<intrusionVars, firewallVars, intelVars>>
     \/ /\ awake = "intrusions" /\ Intrusion!Next
        /\ UNCHANGED <<alertVars, firewallVars, intelVars>>
     \/ /\ awake = "firewall" /\ Filtered!Next
        /\ UNCHANGED <<alertVars, intrusionVars, intelVars>>
     \/ /\ awake = "intel" /\ Intel!Next
        /\ UNCHANGED <<alertVars, intrusionVars, firewallVars>>

Next == UNCHANGED awake /\ (PluginStep \/ ServiceStep \/ RemoteStep \/ WatchStep)

Spec == Init /\ [][Next]_services
-----------------------------------------------------------------------------
(* The properties of these services, stated in their modules.                  *)

(* Every table holds what it is for; those that sleep are as they began.   *)
TypeOK ==
  /\ awake = "loader"     => Loader!TypeOK
  /\ awake = "manager"    => Manager!ManagerTypeOK
  /\ awake = "versions"   => Version!VersionTypeOK
  /\ awake = "bus"        => Bus!BusTypeOK
  /\ awake = "updates"    => Updating!UpdateTypeOK
  /\ awake = "response"   => Response!OrchestratorTypeOK
  /\ awake = "webhooks"   => Webhook!WebhookTypeOK
  /\ awake = "detonation" => Detonation!DetonationTypeOK
  /\ awake = "audit"      => Audit!AuditTypeOK
  /\ awake = "transport"  => Transport!TransportTypeOK
  /\ awake = "policies"   => CloudPolicy!CloudPolicyTypeOK
  /\ awake = "alerts"     => Alerting!AlertTypeOK
  /\ awake = "intrusions" => Intrusion!IntrusionTypeOK
  /\ awake = "firewall"   => Filtered!FirewallTypeOK
  /\ awake = "intel"      => Intel!ThreatIntelTypeOK

(* topologicalSort() and resolveDependencies() give a complete order       *)
(* unless there is a cycle, and say so exactly when there is one.          *)
OrderUnlessCycle == /\ awake = "loader"  => Loader!OrderUnlessCycle
                    /\ awake = "manager" => Manager!ResolutionOrdered
(* Handles are kept, and no initialised plugin is dropped; hooks are       *)
(* registered as often as active plugins contribute them.                  *)
PluginsAccounted == /\ awake = "loader"  => Loader!LibrariesKept
                    /\ awake = "manager" => Manager!HooksFollowPlugins
(* initializeAll() goes up, and shutdownAll() down, the dependencies.      *)
OrderRespected == Loader!OrderRespected
(* The marks of a plugin's and of a policy's versions tell the current     *)
(* one, and a plugin's rollback leads to the right version.                *)
ActiveIsCurrent == Version!ActiveIsCurrent /\ CloudPolicy!ActiveIsDistributed
(* publish() calls every subscriber that stays, once and in order.         *)
EventsDelivered == Bus!EventsDelivered
(* rollback() leads to the version that the running one replaced.          *)
UpdatesRevert == Updating!UpdatesRevert
(* Queued actions are processed by priority, after a fresh approval.       *)
ProcessedInTurn == Response!ProcessedInTurn
(* No delivery is sent after a success, nor beyond its policy.             *)
RetriesBounded == Webhook!RetriesBounded
(* The jobs' queue, statuses and counters agree.                           *)
JobsAccounted == awake = "detonation" => Detonation!JobsAccounted
(* verifyChainIntegrity() notices what a retention removed.                *)
ChainTellsHoles == awake = "audit" => Audit!ChainTellsHoles
(* No telemetry is lost, doubled, reordered or left out of the statistics. *)
BatchesKeepItems == awake = "transport" => Transport!BatchesKeepItems
(* Repetitions are suppressed for an alert that is there, and scans and    *)
(* floods judged by what happened within their windows.                    *)
WindowsRespected == /\ awake = "alerts"     => Alerting!RepeatsHaveAnAlert
                    /\ awake = "intrusions" => Intrusion!WindowsExact
(* A packet gets the action of the matching rule with precedence, and an   *)
(* indicator that a feed brought is found by what it covers.               *)
NothingOverlooked == /\ awake = "firewall" => Filtered!DecidedByPriority
                     /\ awake = "intel"    => Intel!IngestedFound
=============================================================================

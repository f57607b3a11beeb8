----------------------------- MODULE Deployment -----------------------------
(***************************************************************************)
(* Fleet::DeploymentManager: staged rollouts of agent versions and their   *)
(* rollback.  Every operation is one section of mutex_; several rollouts   *)
(* may be under way on the same endpoints.  Deployments are never removed, *)
(* so that "dep-k" is the k-th element of a sequence.                      *)
(***************************************************************************)
EXTENDS Integers, FiniteSets, Sequences, SequencesExt

CONSTANTS Endpoints, Versions,
          NoVersion,        \* an endpoint that no one has reported yet
          TargetLists,      \* the targetEndpoints that callers pass
          StageCounts,      \* RolloutConfig::stages
          Thresholds,       \* autoRollbackOnFailurePercent
          Outcomes,         \* <<successes, failures>> that stages report
          MaxDeployments,   \* bound: deployments created
          MaxTargets        \* bound: targets and stages in StagesPartition

ConstantsAssumption ==
  /\ NoVersion \notin Versions
  /\ TargetLists \subseteq Seq(Endpoints)
  /\ StageCounts \subseteq Int /\ Thresholds \subseteq Nat
  /\ Outcomes \subseteq Nat \X Nat

VARIABLES
  deployments,      \* deployments_, by the number of its id
  endpointVersions, \* endpointVersions_
  before            \* history: the endpoints' versions when each was created

vars == <<deployments, endpointVersions, before>>

Ids == DOMAIN deployments
Statuses == {"Planned", "InProgress", "Paused", "Completed", "RolledBack", "Failed"}
NoOutcome == <<0, 0>>
-----------------------------------------------------------------------------
LeastOf(m, n) == IF m < n THEN m ELSE n

StagesWithoutRest(targets, count) ==             \* slip: the last takes no more
  LET n   == Len(targets)
      k   == IF count <= 0 THEN 1 ELSE count
      per == IF n \div k = 0 THEN 1 ELSE n \div k
  IN [s \in 1..Cardinality({s \in 1..k : (s - 1) * per < n}) |->
        SubSeq(targets, (s - 1) * per + 1, LeastOf(s * per, n))]

(* buildStages(): equal shares, at least one endpoint each, the last stage *)
(* takes the rest.                                                         *)
StagesOf(targets, count) ==
  LET n   == Len(targets)
      k   == IF count <= 0 THEN 1 ELSE count
      per == IF n \div k = 0 THEN 1 ELSE n \div k
  IN [s \in 1..Cardinality({s \in 1..k : (s - 1) * per < n}) |->
        SubSeq(targets, (s - 1) * per + 1, IF s = k THEN n ELSE LeastOf(s * per, n))]

(* The failures of a stage that end the rollout.                           *)
Exceeds(threshold, outcome) ==
  /\ outcome[1] + outcome[2] > 0
  /\ outcome[2] * 100 >= threshold * (outcome[1] + outcome[2])

(* The status after a stage.                                               *)
Ended(d, outcome) ==
  IF Exceeds(d.threshold, outcome) THEN "Failed"
  ELSE IF d.current >= Len(d.stages) THEN "Completed" ELSE "InProgress"

IsStaged(d)      == d.current \in DOMAIN d.stages
SetStatus(i, s)  == deployments' = [deployments EXCEPT ![i].status = s]
Targets(i)       == ToSet(deployments[i].targets)

Init ==
  /\ deployments = <<>>
  /\ endpointVersions = [e \in Endpoints |-> NoVersion]
  /\ before = <<>>
-----------------------------------------------------------------------------
(* createDeployment(): the version to go back to is that of the first      *)
(* target alone (NoVersion stands for the empty string).                   *)
Create(version, targets, count, threshold) ==
  /\ Len(deployments) < MaxDeployments
  /\ deployments' = Append(deployments,
       [version   |-> version, targets |-> targets, threshold |-> threshold,
        stages    |-> StagesOf(targets, count),
        outcome   |-> [s \in DOMAIN StagesOf(targets, count) |-> NoOutcome],
        done      |-> {}, current |-> 0, status |-> "Planned",
        rollbackVersion |-> IF targets = <<>> THEN NoVersion
                            ELSE endpointVersions[Head(targets)]])
  /\ before' = Append(before, endpointVersions)
  /\ UNCHANGED endpointVersions

StartRollout(i) ==
  /\ deployments[i].status = "Planned"
  /\ deployments' = [deployments EXCEPT ![i].status = "InProgress", ![i].current = 1]
  /\ UNCHANGED <<endpointVersions, before>>

PauseRollout(i) ==
  /\ deployments[i].status = "InProgress"
  /\ SetStatus(i, "Paused")
  /\ UNCHANGED <<endpointVersions, before>>

ResumeFromStart(i) ==                            \* slip: through startRollout()
  /\ deployments[i].status = "Paused"
  /\ deployments' = [deployments EXCEPT ![i].status = "InProgress", ![i].current = 1]
  /\ UNCHANGED <<endpointVersions, before>>

ResumeRollout(i) ==
  /\ deployments[i].status = "Paused"
  /\ SetStatus(i, "InProgress")
  /\ UNCHANGED <<endpointVersions, before>>

RollbackStage(i) ==                              \* slip: the current stage only
  /\ deployments[i].status \notin {"RolledBack", "Planned"}
  /\ LET d == deployments[i]
         S == IF IsStaged(d) /\ d.rollbackVersion # NoVersion
                THEN ToSet(d.stages[d.current]) ELSE {}
     IN endpointVersions' =
          [e \in Endpoints |-> IF e \in S THEN d.rollbackVersion ELSE endpointVersions[e]]
  /\ SetStatus(i, "RolledBack")
  /\ UNCHANGED before

(* rollback(): every target with a known version gets the one version the  *)
(* deployment remembers, whether a stage had reached it or not.            *)
Rollback(i) ==
  /\ deployments[i].status \notin {"RolledBack", "Planned"}
  /\ LET d == deployments[i]
         S == IF d.rollbackVersion = NoVersion THEN {}
              ELSE {e \in Targets(i) : endpointVersions[e] # NoVersion}
     IN endpointVersions' =
          [e \in Endpoints |-> IF e \in S THEN d.rollbackVersion ELSE endpointVersions[e]]
  /\ SetStatus(i, "RolledBack")
  /\ UNCHANGED before

(* advanceStage(): the first `successes' endpoints of the stage have the   *)
(* new version; too many failures end the rollout ("auto-rollback" changes *)
(* no version), the last stage completes it.                               *)
AdvanceStage(i, outcome) ==
  /\ deployments[i].status = "InProgress" /\ IsStaged(deployments[i])
  /\ LET d     == deployments[i]
         stage == d.stages[d.current]
         S     == ToSet(SubSeq(stage, 1, LeastOf(outcome[1], Len(stage))))
         ended == Ended(d, outcome)
     IN /\ endpointVersions' =
             [e \in Endpoints |-> IF e \in S THEN d.version ELSE endpointVersions[e]]
        /\ deployments' = [deployments EXCEPT
             ![i].outcome[d.current] = outcome, ![i].done = @ \cup {d.current},
             ![i].status = ended,
             ![i].current = IF ended = "InProgress" THEN @ + 1 ELSE @]
  /\ UNCHANGED before

SetEndpointVersion(e, version) ==
  /\ endpointVersions' = [endpointVersions EXCEPT ![e] = version]
  /\ UNCHANGED <<deployments, before>>

Next ==
  \/ \E v \in Versions, t \in TargetLists, k \in StageCounts, p \in Thresholds :
       Create(v, t, k, p)
  \/ \E i \in Ids : \/ StartRollout(i) \/ PauseRollout(i) \/ ResumeRollout(i)
                    \/ Rollback(i)
                    \/ \E o \in Outcomes : AdvanceStage(i, o)
  \/ \E e \in Endpoints, v \in Versions : SetEndpointVersion(e, v)

Spec == Init /\ [][Next]_vars
-----------------------------------------------------------------------------
(* Properties.                                                             *)

TypeOK ==
  /\ deployments \in Seq([version : Versions, targets : TargetLists,
                         threshold : Thresholds, stages : Seq(Seq(Endpoints)),
                         outcome : Seq(Outcomes \cup {NoOutcome}), done : SUBSET Nat,
                         current : Nat, status : Statuses,
                         rollbackVersion : Versions \cup {NoVersion}])
  /\ Len(deployments) <= MaxDeployments
  /\ \A i \in Ids : LET d == deployments[i]
                     IN /\ Len(d.outcome) = Len(d.stages)
                        /\ d.current <= Len(d.stages) \/ d.current = 1
  /\ endpointVersions \in [Endpoints -> Versions \cup {NoVersion}]
  /\ DOMAIN before = Ids

(* buildStages() puts every target in exactly one stage, in order, and     *)
(* makes no empty stage and no more stages than asked for, for all numbers *)
(* of targets and stages up to MaxTargets.  A function of its arguments    *)
(* only, it is evaluated while there is no deployment yet.                 *)
StagesPartition ==
  deployments = <<>> =>
  \A n \in 0..MaxTargets, k \in -1..(MaxTargets + 1) :
    LET targets == [t \in 1..n |-> t]
        stages  == StagesOf(targets, k)
    IN /\ FlattenSeq(stages) = targets
       /\ \A s \in DOMAIN stages : stages[s] # <<>>
       /\ Len(stages) <= (IF k <= 0 THEN 1 ELSE k)

(* The status tells what the stages did: a rollout that goes on (paused    *)
(* and resumed or not) has done the stages before its current one and has  *)
(* that one still to do, a completed one has done all of them within its   *)
(* threshold, and a failed one failed in its current stage only.           *)
StatusTellsStages ==
  \A i \in Ids :
    LET d == deployments[i]
        Bad(s) == Exceeds(d.threshold, d.outcome[s])
    IN /\ d.status = "Planned" => d.done = {}
       /\ d.status \in {"InProgress", "Paused"} =>
            /\ IsStaged(d) \/ d.targets = <<>>
            /\ d.done = 1..(d.current - 1) /\ \A s \in d.done : ~Bad(s)
       /\ d.status = "Completed" => d.done = DOMAIN d.stages /\ \A s \in d.done : ~Bad(s)
       /\ d.status = "Failed" =>
            d.done = 1..d.current /\ \A s \in d.done : Bad(s) <=> s = d.current

(* rollback(): "Restore endpoints to previous version".  It does if all    *)
(* targets had one known version when the deployment was created, whatever *)
(* reports and other rollouts have made of them since.                     *)
RollbackRestores ==
  [][\A i \in Ids :
       LET S == Targets(i)
       IN /\ deployments[i].status # "RolledBack" /\ deployments'[i].status = "RolledBack"
          /\ \E v \in Versions : \A e \in S : before[i][e] = v
          => \A e \in S : endpointVersions'[e] = before[i][e]]_vars
=============================================================================

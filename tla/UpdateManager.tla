--------------------------- MODULE UpdateManager ---------------------------
(***************************************************************************)
(* Updates::UpdateManager: updates are offered, downloaded (in one step:   *)
(* the code simulates it), installed and rolled back.  One version back is *)
(* remembered.  Every operation is one section of mutex_.  history_ is     *)
(* only appended to and read by nobody here; it is left out.               *)
(***************************************************************************)
EXTENDS Integers, Functions

CONSTANTS Updates,          \* versions that may be offered
          FirstVersion,     \* currentVersion_ at the start; may be offered too
          NoUpdate,         \* the empty version
          Signatures,       \* ids of signature updates
          Percentages,      \* of a staged rollout
          StagedUpdates     \* bound: versions that are rolled out in stages

UpdateAssumption == NoUpdate \notin Updates \cup {FirstVersion} /\ Percentages \subseteq 0..100
                    /\ StagedUpdates \subseteq Updates

VARIABLES
  available,        \* availableUpdates_
  progress,         \* progress_: the status of the versions it has
  currentVersion,
  previousVersion,
  incompatible,     \* versions compatibilityMatrix_ says no to
  rollouts,         \* rollouts_: their percentages
  signatures,       \* signatureInstalled_, of what was downloaded
  replacedBy        \* history: what each version replaced when last installed

updateVars == <<available, progress, currentVersion, previousVersion, incompatible,
                rollouts, signatures, replacedBy>>
versionState == <<progress, currentVersion, previousVersion, replacedBy>>
others       == <<available, incompatible, rollouts, signatures>>

Known == DOMAIN progress
SetStatus(v, status) == progress' = [x \in Known \cup {v} |-> IF x = v THEN status ELSE progress[x]]

Init ==
  /\ available = {} /\ incompatible = {}
  /\ progress = [v \in {} |-> ""] /\ rollouts = [v \in {} |-> 0]
  /\ signatures = [s \in {} |-> FALSE]
  /\ currentVersion = FirstVersion /\ previousVersion = NoUpdate
  /\ replacedBy = [v \in Updates |-> NoUpdate]
-----------------------------------------------------------------------------
AddAvailableUpdate(v) == /\ v \notin available /\ available' = available \cup {v}
                         /\ UNCHANGED <<versionState, incompatible, rollouts, signatures>>

SetCompatibilityMatrix(v, ok) ==
  /\ incompatible' = IF ok THEN incompatible \ {v} ELSE incompatible \cup {v}
  /\ UNCHANGED <<versionState, available, rollouts, signatures>>

(* downloadUpdate(): a version that failed or was rolled back may come     *)
(* again.                                                                  *)
DownloadUpdate(v) ==
  /\ v \in available
  /\ v \in Known => progress[v] \notin {"Downloaded", "Installed"}
  /\ SetStatus(v, "Downloaded")
  /\ UNCHANGED <<currentVersion, previousVersion, replacedBy, others>>

Ready(v) == v \in Known /\ progress[v] = "Downloaded"

InstallFails(v) ==
  /\ Ready(v) /\ v \in incompatible
  /\ SetStatus(v, "Failed")
  /\ UNCHANGED <<currentVersion, previousVersion, replacedBy, others>>

InstallUpdate(v) ==
  /\ Ready(v) /\ v \notin incompatible
  /\ SetStatus(v, "Installed")
  /\ previousVersion' = currentVersion /\ currentVersion' = v
  /\ replacedBy' = [replacedBy EXCEPT ![v] = currentVersion]
  /\ UNCHANGED others

RollbackTwice ==                       \* slip: the way back stays open
  /\ previousVersion # NoUpdate
  /\ currentVersion' = previousVersion
  /\ progress' = [v \in Known |-> IF v = currentVersion THEN "RolledBack" ELSE progress[v]]
  /\ UNCHANGED <<previousVersion, replacedBy, others>>

(* rollback(): the version left is marked, if it came by an update.        *)
Rollback ==
  /\ previousVersion # NoUpdate
  /\ currentVersion' = previousVersion /\ previousVersion' = NoUpdate
  /\ progress' = [v \in Known |-> IF v = currentVersion THEN "RolledBack" ELSE progress[v]]
  /\ UNCHANGED <<replacedBy, others>>

CancelUpdate(v) ==
  /\ v \in Known /\ progress[v] \notin {"Installed", "RolledBack"}
  /\ progress' = Restrict(progress, Known \ {v})
  /\ UNCHANGED <<currentVersion, previousVersion, replacedBy, others>>

(* stageRollout(): of any version, known or not; the percentage may fall.  *)
StageRollout(v, percentage) ==
  /\ rollouts' = [x \in DOMAIN rollouts \cup {v} |-> IF x = v THEN percentage ELSE rollouts[x]]
  /\ UNCHANGED <<versionState, available, incompatible, signatures>>

(* downloadSignatureUpdate(): also of one that is installed, which it is   *)
(* not any more then.                                                      *)
DownloadSignature(s) ==
  /\ signatures' = [x \in DOMAIN signatures \cup {s} |-> IF x = s THEN FALSE ELSE signatures[x]]
  /\ UNCHANGED <<versionState, available, incompatible, rollouts>>

InstallSignature(s) ==
  /\ s \in DOMAIN signatures /\ ~signatures[s]
  /\ signatures' = [signatures EXCEPT ![s] = TRUE]
  /\ UNCHANGED <<versionState, available, incompatible, rollouts>>

Next == \/ \E v \in Updates :
             \/ AddAvailableUpdate(v) \/ DownloadUpdate(v) \/ InstallUpdate(v)
             \/ InstallFails(v) \/ CancelUpdate(v)
             \/ \E ok \in BOOLEAN : SetCompatibilityMatrix(v, ok)
        \/ \E v \in StagedUpdates, p \in Percentages : StageRollout(v, p)
        \/ Rollback
        \/ \E s \in Signatures : DownloadSignature(s) \/ InstallSignature(s)

Spec == Init /\ [][Next]_updateVars
-----------------------------------------------------------------------------
Statuses == {"Downloaded", "Installed", "Failed", "RolledBack"}

UpdateTypeOK ==
  /\ available \subseteq Updates /\ incompatible \subseteq Updates
  /\ Known \subseteq Updates /\ progress \in [Known -> Statuses]
  /\ currentVersion \in Updates \cup {FirstVersion}
  /\ previousVersion \in Updates \cup {FirstVersion, NoUpdate}
  /\ replacedBy \in [Updates -> Updates \cup {FirstVersion, NoUpdate}]
  /\ DOMAIN rollouts \subseteq Updates /\ rollouts \in [DOMAIN rollouts -> Percentages]
  /\ DOMAIN signatures \subseteq Signatures /\ signatures \in [DOMAIN signatures -> BOOLEAN]

(* However versions are installed, cancelled, rolled back and installed    *)
(* again: the running version is the first one or one whose progress says  *)
(* Installed, and a rollback, where one is offered, leads to the version   *)
(* the running one replaced, and that one is in order, too.                *)
UpdatesRevert ==
  /\ currentVersion = FirstVersion
       \/ (currentVersion \in Known /\ progress[currentVersion] = "Installed")
  /\ previousVersion # NoUpdate =>
       /\ currentVersion \in Updates /\ previousVersion = replacedBy[currentVersion]
       /\ previousVersion = FirstVersion
            \/ (previousVersion \in Known /\ progress[previousVersion] = "Installed")
=============================================================================

------------------------ MODULE PluginVersionManager ------------------------
(***************************************************************************)
(* Plugin::PluginVersionManager: the versions of one plugin that were ever *)
(* installed, which of them is active, and the way back.  Plugins do not   *)
(* affect each other's history.  Every operation is one section of mutex_. *)
(***************************************************************************)
EXTENDS Integers, Sequences

CONSTANTS PluginVersions,
          NoPlugin,         \* the empty version: nothing tracked, no previous
          MaxEntries        \* bound: entries of the history

VersionsAssumption == NoPlugin \notin PluginVersions /\ MaxEntries \in Nat

VARIABLES
  versions,         \* versions_: entries in the order of their installation
  current,          \* currentVersions_
  replaced          \* history: the version before the current one, if the
                    \* last change installed it; else NoPlugin

versionVars == <<versions, current, replaced>>

Tracked == current # NoPlugin

Init == versions = <<>> /\ current = NoPlugin /\ replaced = NoPlugin

Deactivated == [i \in DOMAIN versions |-> [versions[i] EXCEPT !.active = FALSE]]

AlsoActivated(v) ==                            \* slip: the old one stays active
  [i \in DOMAIN versions |->
     [versions[i] EXCEPT !.active = (@ \/ versions[i].version = v)]]

(* Every entry of that version is marked, all others are not.              *)
Activated(v) ==
  [i \in DOMAIN versions |-> [versions[i] EXCEPT !.active = (versions[i].version = v)]]

Install(v) ==
  /\ Len(versions) < MaxEntries
  /\ versions' = Append(Deactivated, [version |-> v, previous |-> current, active |-> TRUE])
  /\ current' = v
  /\ replaced' = current

SwitchTo(v) == versions' = Activated(v) /\ current' = v /\ replaced' = NoPlugin

Installed == {versions[i].version : i \in DOMAIN versions}
-----------------------------------------------------------------------------
(* registerVersion(): also of a version that is known already.             *)
RegisterVersion(v) == Install(v)

(* migrateToVersion(): a known version is only marked as active; what it   *)
(* remembers as its previous one is not changed.                           *)
MigrateToVersion(v) ==
  /\ Tracked /\ v # current
  /\ IF v \in Installed THEN SwitchTo(v) ELSE Install(v)

(* rollback(): to the previous version of the last active entry, and if it *)
(* has none, to the entry before it.                                       *)
LastActive == CHOOSE i \in DOMAIN versions :
  versions[i].active /\ \A j \in DOMAIN versions : versions[j].active => j <= i

PreviousVersion ==
  IF ~\E i \in DOMAIN versions : versions[i].active THEN NoPlugin
  ELSE IF versions[LastActive].previous # NoPlugin THEN versions[LastActive].previous
  ELSE IF LastActive > 1 THEN versions[LastActive - 1].version ELSE NoPlugin

Rollback ==
  /\ Len(versions) >= 2 /\ PreviousVersion # NoPlugin
  /\ SwitchTo(PreviousVersion)

RemoveVersionHistory == versions' = <<>> /\ current' = NoPlugin /\ replaced' = NoPlugin

Next == \/ \E v \in PluginVersions : RegisterVersion(v) \/ MigrateToVersion(v)
        \/ Rollback \/ RemoveVersionHistory

Spec == Init /\ [][Next]_versionVars
-----------------------------------------------------------------------------
VersionTypeOK ==
  /\ versions \in Seq([version : PluginVersions, active : BOOLEAN,
                       previous : PluginVersions \cup {NoPlugin}])
  /\ Len(versions) <= MaxEntries
  /\ current \in PluginVersions \cup {NoPlugin}
  /\ replaced \in PluginVersions \cup {NoPlugin}

(* The marks tell the current version: a tracked plugin has an active      *)
(* entry, and active are only entries of its current version, although     *)
(* versions are installed twice and rollbacks go back and forth.  So a     *)
(* rollback right after an installation finds the version it replaced.     *)
ActiveIsCurrent ==
  /\ Tracked <=> \E i \in DOMAIN versions : versions[i].active
  /\ \A i \in DOMAIN versions : versions[i].active => versions[i].version = current
  /\ replaced # NoPlugin => PreviousVersion = replaced
=============================================================================

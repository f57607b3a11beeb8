---------------------------- MODULE CloudBackups ----------------------------
(***************************************************************************)
(* Cloud::CloudBackupManager: backups in a std::map from their ids to what *)
(* is known of them, with a retention that removes from the map's front.   *)
(* Ids are "BKP-" and a number from a counter, and the map compares them   *)
(* as strings.  Every operation is one section of mutex_.                  *)
(***************************************************************************)
EXTENDS Integers, FiniteSets, SequencesExt

CONSTANTS MaxBackups,       \* bound: backups ever created, of two digits at most
          MaxSchedules      \* bound: schedules ever created

VARIABLES
  backups,          \* backups_: their numbers, as a set that is a map's keys
  encrypted,        \* those of them that are encrypted
  nextBackupId,
  schedules, nextScheduleId

backupVars == <<backups, encrypted, nextBackupId, schedules, nextScheduleId>>

Digits(n) == IF n < 10 THEN <<n>> ELSE <<n \div 10, n % 10>>

(* std::less<std::string> on ids that have their prefix in common.         *)
IdBefore(m, n) == LET a == Digits(m) b == Digits(n) IN
  \/ \E i \in DOMAIN a \cap DOMAIN b : a[i] < b[i] /\ \A j \in 1..(i - 1) : a[j] = b[j]
  \/ IsStrictPrefix(a, b)

\* The first k keys of the map, as its iterator meets them.
FirstKeys(k) == {b \in backups : Cardinality({c \in backups : IdBefore(c, b)}) < k}

Init == /\ backups = {} /\ encrypted = {} /\ nextBackupId = 1
        /\ schedules = {} /\ nextScheduleId = 1

CreateBackup ==
  /\ nextBackupId <= MaxBackups
  /\ backups' = backups \cup {nextBackupId} /\ nextBackupId' = nextBackupId + 1
  /\ UNCHANGED <<encrypted, schedules, nextScheduleId>>

Keep(kept) == backups' = kept /\ encrypted' = encrypted \cap kept

DeleteBackup(b) == /\ b \in backups /\ Keep(backups \ {b})
                   /\ UNCHANGED <<nextBackupId, schedules, nextScheduleId>>

SetEncryption(b, on) ==
  /\ b \in backups
  /\ encrypted' = IF on THEN encrypted \cup {b} ELSE encrypted \ {b}
  /\ UNCHANGED <<backups, nextBackupId, schedules, nextScheduleId>>

(* applyRetentionPolicy()                                                  *)
ApplyRetentionPolicy(maxBackups) ==
  /\ maxBackups >= 0
  /\ Cardinality(backups) > maxBackups
  /\ Keep(backups \ FirstKeys(Cardinality(backups) - maxBackups))
  /\ UNCHANGED <<nextBackupId, schedules, nextScheduleId>>

CreateSchedule ==
  /\ nextScheduleId <= MaxSchedules
  /\ schedules' = schedules \cup {nextScheduleId} /\ nextScheduleId' = nextScheduleId + 1
  /\ UNCHANGED <<backups, encrypted, nextBackupId>>

DeleteSchedule(s) ==
  /\ s \in schedules /\ schedules' = schedules \ {s}
  /\ UNCHANGED <<backups, encrypted, nextBackupId, nextScheduleId>>

Next == \/ CreateBackup \/ CreateSchedule
        \/ \E b \in backups : DeleteBackup(b) \/ \E on \in BOOLEAN : SetEncryption(b, on)
        \/ \E m \in 0..MaxBackups : ApplyRetentionPolicy(m)
        \/ \E s \in schedules : DeleteSchedule(s)

Spec == Init /\ [][Next]_backupVars
-----------------------------------------------------------------------------
(* The retention removes the oldest backups (BackupManager.cpp:158): each  *)
(* one it removes is older than all it keeps.                              *)
OldestRemoved ==
  [][\A m \in 0..MaxBackups : ApplyRetentionPolicy(m) =>
       \A gone \in backups \ backups', kept \in backups' : gone < kept]_backupVars
=============================================================================

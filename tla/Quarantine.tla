----------------------------- MODULE Quarantine -----------------------------
(***************************************************************************)
(* Scanner::QuarantineManager and SecurityEngine::quarantine(): moving     *)
(* infected files into the quarantine directory and back.                  *)
(*                                                                         *)
(* SecurityEngine quarantines one threat at a time (threatsMutex_); an     *)
(* operator restores and deletes entries with no lock in between, and the  *)
(* rest of the machine creates files.  The manager keeps nothing in        *)
(* memory: its state is two files per entry, <id>.quarantined and          *)
(* <id>.json, written in several steps, each of which may fail, and        *)
(* between which the process may crash.                                    *)
(*                                                                         *)
(* One simplification: while one call copies a file, the other one does    *)
(* not touch the path outside that is read or written (Undisturbed), as    *)
(* what the kernel then makes of the copy is no matter of this code.       *)
(***************************************************************************)
EXTENDS FiniteSets

CONSTANTS Files,      \* contents, each created once
          Paths, Ids, Threats,
          None,       \* nothing there; no path
          Partial,    \* the beginning of a file that is being copied
          Damaged     \* a metadata file that does not parse

ASSUME DistinctAssumption ==
  /\ None \notin Files \cup Paths \cup Ids \cup Threats \cup {Partial, Damaged}
  /\ Partial \notin Files /\ Damaged \notin Paths

VARIABLES
  at,         \* what is at each path outside
  vault,      \* <id>.quarantined
  meta,       \* original_path in <id>.json
  suspect,    \* detectedThreats_: the file path of each threat
  flagged,    \* ThreatInfo::quarantined
  qPc, qThreat, qId,   \* the call of SecurityEngine::quarantine()
  oPc, oId, oPath,     \* the operator's restore() or permanentDelete()
  born,       \* history: files that were ever created
  deleted,    \* history: what permanentDelete() deleted
  replaced,   \* history: what was overwritten by a file that came back, or
              \*   removed after such a file took the place of the copied one
  marred      \* history: entries cut short by a crash or by a failure that
              \*   the code only logs or does not notice

disk     == <<at, vault, meta>>
threats  == <<suspect, flagged>>
qCall    == <<qPc, qThreat, qId>>
oCall    == <<oPc, oId, oPath>>
history  == <<born, deleted, replaced, marred>>
vars     == <<disk, threats, qCall, oCall, history>>

TypeOK ==
  /\ at \in [Paths -> Files \cup {None, Partial}]
  /\ vault \in [Ids -> Files \cup {None, Partial}]
  /\ meta \in [Ids -> Paths \cup {None, Damaged}]
  /\ suspect \in [Threats -> Paths \cup {None}] /\ flagged \in [Threats -> BOOLEAN]
  /\ qPc \in {"idle", "move", "copy", "remove", "open", "fill", "undo"}
  /\ qThreat \in Threats \cup {None} /\ qId \in Ids \cup {None}
  /\ qPc # "idle" => qId # None /\ qThreat # None /\ suspect[qThreat] # None
  /\ oPc \in {"idle", "back", "copy", "remove", "unrecord", "delete"}
  /\ oId \in Ids \cup {None} /\ oPath \in Paths \cup {None}
  /\ oPc # "idle" => oId # None
  /\ oPc \in {"back", "copy"} => oPath # None
  /\ born \subseteq Files /\ deleted \subseteq Files /\ replaced \subseteq Files
  /\ marred \subseteq Ids

Init ==
  /\ at = [p \in Paths |-> None]
  /\ vault = [i \in Ids |-> None] /\ meta = [i \in Ids |-> None]
  /\ suspect = [t \in Threats |-> None] /\ flagged = [t \in Threats |-> FALSE]
  /\ qPc = "idle" /\ qThreat = None /\ qId = None
  /\ oPc = "idle" /\ oId = None /\ oPath = None
  /\ born = {} /\ deleted = {} /\ replaced = {} /\ marred = {}

Put(p, f)  == at' = [at EXCEPT ![p] = f]
Keep(i, f) == vault' = [vault EXCEPT ![i] = f]
Note(i, m) == meta' = [meta EXCEPT ![i] = m]

(* What a write to a path destroys.                                        *)
Overwrite(p, f) ==
  replaced' = replaced \cup (IF at[p] \in Files \ {f} THEN {at[p]} ELSE {})

Undisturbed(p) ==
  /\ ~(qPc = "copy" /\ suspect[qThreat] = p)
  /\ ~(oPc = "copy" /\ oPath = p)
-----------------------------------------------------------------------------
(* The machine, and the detection of threats (addThreat()).                *)

Create(p, f) ==
  /\ f \notin born /\ at[p] = None
  /\ Put(p, f) /\ born' = born \cup {f}
  /\ UNCHANGED <<vault, meta, threats, qCall, oCall, deleted, replaced, marred>>

AddThreat(t, p) ==
  /\ qPc = "idle"
  /\ suspect[t] = None /\ at[p] # None
  /\ suspect' = [suspect EXCEPT ![t] = p]
  /\ UNCHANGED <<disk, flagged, qCall, oCall, history>>

(* A crash keeps the disk and nothing else.                                *)
Crash ==
  /\ qPc' = "idle" /\ qThreat' = None /\ qId' = None
  /\ oPc' = "idle" /\ oId' = None /\ oPath' = None
  /\ suspect' = [t \in Threats |-> None] /\ flagged' = [t \in Threats |-> FALSE]
  /\ marred' = marred \cup ({qId, oId} \ {None})
  /\ UNCHANGED <<disk, born, deleted, replaced>>
-----------------------------------------------------------------------------
(* quarantine(threatId).                                                   *)

qPath == suspect[qThreat]
QGo(where) == qPc' = where /\ UNCHANGED <<qThreat, qId>>
QReturn    == qPc' = "idle" /\ qThreat' = None /\ qId' = None

(* A threat already flagged is answered with true and nothing is done.     *)
Begin(t, i) ==
  /\ qPc = "idle" /\ suspect[t] # None /\ ~flagged[t]
  /\ at[suspect[t]] # None
  /\ vault[i] = None /\ meta[i] = None /\ i # oId          \* a fresh random id
  /\ i \notin marred
  /\ qPc' = "move" /\ qThreat' = t /\ qId' = i
  /\ UNCHANGED <<disk, threats, oCall, history>>

Rename ==
  /\ qPc = "move" /\ at[qPath] # None /\ Undisturbed(qPath)
  /\ Keep(qId, at[qPath]) /\ Put(qPath, None)
  /\ QGo("open")
  /\ UNCHANGED <<meta, threats, oCall, history>>

(* rename() does not cross devices: copy, then remove.                     *)
StartCopy ==
  /\ qPc = "move" /\ at[qPath] # None /\ Undisturbed(qPath)
  /\ Keep(qId, Partial)
  /\ QGo("copy")
  /\ UNCHANGED <<at, meta, threats, oCall, history>>

MoveFails ==
  /\ qPc = "move"
  /\ QReturn
  /\ UNCHANGED <<disk, threats, oCall, history>>

(* The copy may fail at any point: what is there of it stays behind.       *)
CopyFails ==
  /\ qPc = "copy"
  /\ marred' = marred \cup {qId}
  /\ QReturn
  /\ UNCHANGED <<disk, threats, oCall, born, deleted, replaced>>

EndCopyWithoutRemove ==                          \* slip: only copied
  /\ qPc = "copy"
  /\ Keep(qId, at[qPath])
  /\ QGo("open")
  /\ UNCHANGED <<at, meta, threats, oCall, history>>

EndCopy ==
  /\ qPc = "copy"
  /\ Keep(qId, at[qPath])
  /\ QGo("remove")
  /\ UNCHANGED <<at, meta, threats, oCall, history>>

RemoveOriginal ==
  /\ qPc = "remove" /\ Undisturbed(qPath)
  /\ Overwrite(qPath, vault[qId]) /\ Put(qPath, None)
  /\ QGo("open")
  /\ UNCHANGED <<vault, meta, threats, oCall, born, deleted, marred>>

(* Only a warning: the call goes on and will report success.               *)
RemoveFails ==
  /\ qPc = "remove"
  /\ marred' = marred \cup {qId}
  /\ QGo("open")
  /\ UNCHANGED <<disk, threats, oCall, born, deleted, replaced>>

(* writeMetadata(): std::ofstream makes an empty file ...                  *)
OpenMeta ==
  /\ qPc = "open"
  /\ Note(qId, Damaged)
  /\ QGo("fill")
  /\ UNCHANGED <<at, vault, threats, oCall, history>>

Flag == flagged' = [flagged EXCEPT ![qThreat] = TRUE]

(* ... which is filled; the call returns true and the threat is flagged.   *)
FillMeta ==
  /\ qPc = "fill"
  /\ Note(qId, qPath)
  /\ Flag /\ QReturn
  /\ UNCHANGED <<at, vault, suspect, oCall, history>>

(* The stream's state is not tested: the call returns true all the same.   *)
FillFails ==
  /\ qPc = "fill"
  /\ marred' = marred \cup {qId}
  /\ Flag /\ QReturn
  /\ UNCHANGED <<disk, suspect, oCall, born, deleted, replaced>>

OpenMetaFailsOnly ==                             \* slip: the file is not moved back
  /\ qPc = "open"
  /\ QReturn
  /\ UNCHANGED <<disk, threats, oCall, history>>

OpenMetaFails ==
  /\ qPc = "open"
  /\ QGo("undo")
  /\ UNCHANGED <<disk, threats, oCall, history>>

(* The file is moved back, over whatever is at its path by now ...         *)
Undo ==
  /\ qPc = "undo" /\ Undisturbed(qPath)
  /\ Overwrite(qPath, vault[qId])
  /\ Put(qPath, vault[qId]) /\ Keep(qId, None)
  /\ QReturn
  /\ UNCHANGED <<meta, threats, oCall, born, deleted, marred>>

(* ... or, across devices, cannot be.                                      *)
UndoFails ==
  /\ qPc = "undo"
  /\ marred' = marred \cup {qId}
  /\ QReturn
  /\ UNCHANGED <<disk, threats, oCall, born, deleted, replaced>>
-----------------------------------------------------------------------------
(* restore(id) and permanentDelete(id), of an entry that is finished.      *)

OGo(where) == oPc' = where /\ UNCHANGED <<oId, oPath>>
OReturn    == oPc' = "idle" /\ oId' = None /\ oPath' = None

(* readMetadata() finds where the file belongs.                            *)
BeginRestore(i) ==
  /\ oPc = "idle" /\ i # qId
  /\ meta[i] \in Paths
  /\ oPc' = "back" /\ oId' = i /\ oPath' = meta[i]
  /\ UNCHANGED <<disk, threats, qCall, history>>

RenameBack ==
  /\ oPc = "back" /\ vault[oId] # None /\ Undisturbed(oPath)
  /\ Overwrite(oPath, vault[oId])
  /\ Put(oPath, vault[oId]) /\ Keep(oId, None)
  /\ OGo("unrecord")
  /\ UNCHANGED <<meta, threats, qCall, born, deleted, marred>>

(* The entry has lost its file, or neither rename() nor copy_file() works. *)
RestoreFails ==
  /\ oPc = "back"
  /\ OReturn
  /\ UNCHANGED <<disk, threats, qCall, history>>

(* overwrite_existing truncates what is at the path.                       *)
StartCopyBack ==
  /\ oPc = "back" /\ vault[oId] # None /\ Undisturbed(oPath)
  /\ Overwrite(oPath, vault[oId]) /\ Put(oPath, Partial)
  /\ OGo("copy")
  /\ UNCHANGED <<vault, meta, threats, qCall, born, deleted, marred>>

CopyBackFailsGoesOn ==                           \* slip: no return
  /\ oPc = "copy"
  /\ OGo("remove")
  /\ UNCHANGED <<disk, threats, qCall, history>>

CopyBackFails ==
  /\ oPc = "copy"
  /\ OReturn
  /\ UNCHANGED <<disk, threats, qCall, history>>

EndCopyBack ==
  /\ oPc = "copy"
  /\ Put(oPath, vault[oId])
  /\ OGo("remove")
  /\ UNCHANGED <<vault, meta, threats, qCall, history>>

RemoveKept ==
  /\ oPc = "remove"
  /\ Keep(oId, None)
  /\ OGo("unrecord")
  /\ UNCHANGED <<at, meta, threats, qCall, history>>

(* Not noticed either: the error code is not read.                         *)
RemoveKeptFails ==
  /\ oPc = "remove"
  /\ marred' = marred \cup {oId}
  /\ OGo("unrecord")
  /\ UNCHANGED <<disk, threats, qCall, born, deleted, replaced>>

BeginDelete(i) ==
  /\ oPc = "idle" /\ i # qId
  /\ vault[i] # None \/ meta[i] # None
  /\ oPc' = "delete" /\ oId' = i /\ oPath' = None
  /\ UNCHANGED <<disk, threats, qCall, history>>

DeleteKept ==
  /\ oPc = "delete"
  /\ deleted' = deleted \cup ({vault[oId]} \cap Files)
  /\ Keep(oId, None)
  /\ OGo("unrecord")
  /\ UNCHANGED <<at, meta, threats, qCall, born, replaced, marred>>

DeleteFails ==
  /\ oPc = "delete" /\ vault[oId] # None
  /\ OReturn
  /\ UNCHANGED <<disk, threats, qCall, history>>

(* Both end with the metadata file, and with success ...                   *)
RemoveMeta ==
  /\ oPc = "unrecord"
  /\ Note(oId, None)
  /\ OReturn
  /\ UNCHANGED <<at, vault, threats, qCall, history>>

(* ... even if it is still there.                                          *)
RemoveMetaFails ==
  /\ oPc = "unrecord"
  /\ marred' = marred \cup {oId}
  /\ OReturn
  /\ UNCHANGED <<disk, threats, qCall, born, deleted, replaced>>

Quarantining ==
  \/ \E t \in Threats, i \in Ids : Begin(t, i)
  \/ MoveFails \/ Rename \/ StartCopy \/ CopyFails \/ EndCopy
  \/ RemoveOriginal \/ RemoveFails
  \/ OpenMeta \/ FillMeta \/ FillFails \/ OpenMetaFails \/ Undo \/ UndoFails

Operating ==
  \/ \E i \in Ids : BeginRestore(i) \/ BeginDelete(i)
  \/ RenameBack \/ RestoreFails \/ StartCopyBack \/ CopyBackFails \/ EndCopyBack
  \/ RemoveKept \/ RemoveKeptFails \/ DeleteKept \/ DeleteFails
  \/ RemoveMeta \/ RemoveMetaFails

Next ==
  \/ \E p \in Paths, f \in Files : Create(p, f)
  \/ \E t \in Threats, p \in Paths : AddThreat(t, p)
  \/ Quarantining \/ Operating \/ Crash

Spec == Init /\ [][Next]_vars
-----------------------------------------------------------------------------
(* Properties.                                                             *)

(* No file disappears other than by permanentDelete() or by a file that    *)
(* came back to its path: neither a failed copy, a failed metadata write   *)
(* nor a crash between any two steps of quarantine() or restore() loses    *)
(* one.                                                                    *)
NothingLost ==
  \A f \in born :
    \/ \E p \in Paths : at[p] = f
    \/ \E i \in Ids : vault[i] = f
    \/ f \in deleted \cup replaced

Finished(i) == i \notin {qId, oId} \cup marred

(* An entry that no call works on and no crash or tolerated failure cut    *)
(* short is whole: its file is there if and only if its metadata says      *)
(* where it came from (so listEntries() shows it and restore() works).     *)
EntriesWhole == \A i \in Ids : Finished(i) => (vault[i] # None <=> meta[i] \in Paths)

(* As long as no call was cut short, what an entry keeps is nowhere else:  *)
(* a threat cannot be run from its old place, nor is it kept twice         *)
(* ("Original file should be gone").                                       *)
Isolated ==
  marred = {} => \A i \in Ids : Finished(i) /\ vault[i] \in Files =>
    /\ \A p \in Paths : at[p] # vault[i]
    /\ \A j \in Ids \ {i} : Finished(j) => vault[j] # vault[i]
=============================================================================

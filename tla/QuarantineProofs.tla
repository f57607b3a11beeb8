-------------------------- MODULE QuarantineProofs --------------------------
(***************************************************************************)
(* Proofs about Quarantine, for any number of files, paths, entries and    *)
(* threats: types, that no file is lost or in two places, whole entries.   *)
(***************************************************************************)
EXTENDS Quarantine, TLAPS

(* Where a file is kept, once restore() has made its copy outside: the     *)
(* entry's file is about to be removed and does not count.                 *)
Somewhere(f) ==
  \/ \E p \in Paths : at[p] = f
  \/ \E i \in Ids : vault[i] = f /\ ~(oPc = "remove" /\ i = oId)
  \/ f \in deleted \cup replaced

(* The two calls work on different entries, and what a copy will replace   *)
(* when it is finished is only its own beginning.                          *)
Phases ==
  /\ qPc = "idle" <=> qId = None
  /\ oPc = "idle" <=> oId = None
  /\ qId # None => qId # oId
  /\ qPc = "move" => vault[qId] = None
  /\ qPc = "copy" => vault[qId] = Partial
  /\ oPc = "copy" => at[oPath] = Partial

IInv == TypeOK /\ Phases /\ \A f \in born : Somewhere(f)

LEMMA InitIInv == Init => IInv
BY DistinctAssumption DEF Init, IInv, TypeOK, Phases, Somewhere

LEMMA NextIInv == IInv /\ [Next]_vars => IInv'
<1>. SUFFICES ASSUME IInv, [Next]_vars PROVE IInv'
  OBVIOUS
<1>1. ASSUME NEW p \in Paths, NEW f \in Files, Create(p, f) PROVE IInv'
  <2>1. TypeOK'
    BY <1>1, DistinctAssumption
    DEF IInv, Phases, TypeOK, Create, Put, threats, qCall, oCall
  <2>2. Phases'
    BY <1>1, DistinctAssumption
    DEF IInv, Phases, TypeOK, Create, Put, threats, qCall, oCall
  <2>3. ASSUME NEW g \in born' PROVE Somewhere(g)'  \* the path was free
    BY <1>1, <2>3, DistinctAssumption
    DEF IInv, Phases, TypeOK, Somewhere, Create, Put, threats, qCall, oCall
  <2>. QED BY <2>1, <2>2, <2>3 DEF IInv
<1>2. ASSUME NEW t \in Threats, NEW p \in Paths, AddThreat(t, p) PROVE IInv'
  BY <1>2, DistinctAssumption
  DEF IInv, Phases, TypeOK, Somewhere, AddThreat, disk, qCall, oCall,
      history
<1>3. ASSUME NEW t \in Threats, NEW i \in Ids, Begin(t, i) PROVE IInv'
  BY <1>3, DistinctAssumption
  DEF IInv, Phases, TypeOK, Somewhere, Begin, disk, threats, oCall, history
<1>4. ASSUME Rename PROVE IInv'
  <2>1. TypeOK'
    BY <1>4, DistinctAssumption
    DEF IInv, Phases, TypeOK, Rename, Keep, Put, QGo, qPath, Undisturbed,
        threats, oCall, history
  <2>2. Phases'
    BY <1>4, DistinctAssumption
    DEF IInv, Phases, TypeOK, Rename, Keep, Put, QGo, qPath, Undisturbed,
        threats, oCall, history
  <2>3. ASSUME NEW g \in born' PROVE Somewhere(g)'  \* the file goes to an entry that was empty
    BY <1>4, <2>3, DistinctAssumption
    DEF IInv, Phases, TypeOK, Somewhere, Rename, Keep, Put, QGo, qPath,
        Undisturbed, threats, oCall, history
  <2>. QED BY <2>1, <2>2, <2>3 DEF IInv
<1>5. ASSUME StartCopy PROVE IInv'
  <2>1. TypeOK'
    BY <1>5, DistinctAssumption
    DEF IInv, Phases, TypeOK, StartCopy, Keep, QGo, qPath, threats, oCall,
        history
  <2>2. Phases'
    BY <1>5, DistinctAssumption
    DEF IInv, Phases, TypeOK, StartCopy, Keep, QGo, qPath, threats, oCall,
        history
  <2>3. ASSUME NEW g \in born' PROVE Somewhere(g)'  \* nothing is overwritten: the entry was empty
    BY <1>5, <2>3, DistinctAssumption
    DEF IInv, Phases, TypeOK, Somewhere, StartCopy, Keep, QGo, qPath,
        threats, oCall, history
  <2>. QED BY <2>1, <2>2, <2>3 DEF IInv
<1>6. ASSUME MoveFails PROVE IInv'
  BY <1>6, DistinctAssumption
  DEF IInv, Phases, TypeOK, Somewhere, MoveFails, QReturn, disk, threats,
      oCall, history
<1>7. ASSUME CopyFails PROVE IInv'
  BY <1>7, DistinctAssumption
  DEF IInv, Phases, TypeOK, Somewhere, CopyFails, QReturn, disk, threats,
      oCall
<1>8. ASSUME EndCopy PROVE IInv'
  <2>1. TypeOK'
    BY <1>8, DistinctAssumption
    DEF IInv, Phases, TypeOK, EndCopy, Keep, QGo, qPath, threats, oCall,
        history
  <2>2. Phases'
    BY <1>8, DistinctAssumption
    DEF IInv, Phases, TypeOK, EndCopy, Keep, QGo, qPath, threats, oCall,
        history
  <2>3. ASSUME NEW g \in born' PROVE Somewhere(g)'  \* only the beginning of the copy is overwritten
    BY <1>8, <2>3, DistinctAssumption
    DEF IInv, Phases, TypeOK, Somewhere, EndCopy, Keep, QGo, qPath, threats,
        oCall, history
  <2>. QED BY <2>1, <2>2, <2>3 DEF IInv
<1>9. ASSUME RemoveOriginal PROVE IInv'
  <2>1. TypeOK'
    BY <1>9, DistinctAssumption
    DEF IInv, Phases, TypeOK, RemoveOriginal, Put, Overwrite, QGo, qPath,
        Undisturbed, threats, oCall
  <2>2. Phases'
    BY <1>9, DistinctAssumption
    DEF IInv, Phases, TypeOK, RemoveOriginal, Put, Overwrite, QGo, qPath,
        Undisturbed, threats, oCall
  <2>3. ASSUME NEW g \in born' PROVE Somewhere(g)'  \* a copy is kept, or what is removed took the copied file's place
    BY <1>9, <2>3, DistinctAssumption
    DEF IInv, Phases, TypeOK, Somewhere, RemoveOriginal, Put, Overwrite,
        QGo, qPath, Undisturbed, threats, oCall
  <2>. QED BY <2>1, <2>2, <2>3 DEF IInv
<1>10. ASSUME RemoveFails PROVE IInv'
  BY <1>10, DistinctAssumption
  DEF IInv, Phases, TypeOK, Somewhere, RemoveFails, QGo, disk, threats,
      oCall
<1>11. ASSUME OpenMeta PROVE IInv'
  BY <1>11, DistinctAssumption
  DEF IInv, Phases, TypeOK, Somewhere, OpenMeta, Note, QGo, threats, oCall,
      history
<1>12. ASSUME FillMeta PROVE IInv'
  BY <1>12, DistinctAssumption
  DEF IInv, Phases, TypeOK, Somewhere, FillMeta, Note, Flag, QReturn, qPath,
      oCall, history
<1>13. ASSUME FillFails PROVE IInv'
  BY <1>13, DistinctAssumption
  DEF IInv, Phases, TypeOK, Somewhere, FillFails, Flag, QReturn, disk, oCall
<1>14. ASSUME OpenMetaFails PROVE IInv'
  BY <1>14, DistinctAssumption
  DEF IInv, Phases, TypeOK, Somewhere, OpenMetaFails, QGo, disk, threats,
      oCall, history
<1>15. ASSUME Undo PROVE IInv'
  <2>1. TypeOK'
    BY <1>15, DistinctAssumption
    DEF IInv, Phases, TypeOK, Undo, Overwrite, Put, Keep, QReturn, qPath,
        Undisturbed, threats, oCall
  <2>2. Phases'
    BY <1>15, DistinctAssumption
    DEF IInv, Phases, TypeOK, Undo, Overwrite, Put, Keep, QReturn, qPath,
        Undisturbed, threats, oCall
  <2>3. ASSUME NEW g \in born' PROVE Somewhere(g)'  \* the file moves back, what it overwrites is recorded
    BY <1>15, <2>3, DistinctAssumption
    DEF IInv, Phases, TypeOK, Somewhere, Undo, Overwrite, Put, Keep,
        QReturn, qPath, Undisturbed, threats, oCall
  <2>. QED BY <2>1, <2>2, <2>3 DEF IInv
<1>16. ASSUME UndoFails PROVE IInv'
  BY <1>16, DistinctAssumption
  DEF IInv, Phases, TypeOK, Somewhere, UndoFails, QReturn, disk, threats,
      oCall
<1>17. ASSUME NEW i \in Ids, BeginRestore(i) PROVE IInv'
  BY <1>17, DistinctAssumption
  DEF IInv, Phases, TypeOK, Somewhere, BeginRestore, disk, threats, qCall,
      history
<1>18. ASSUME NEW i \in Ids, BeginDelete(i) PROVE IInv'
  BY <1>18, DistinctAssumption
  DEF IInv, Phases, TypeOK, Somewhere, BeginDelete, disk, threats, qCall,
      history
<1>19. ASSUME RenameBack PROVE IInv'
  <2>1. TypeOK'
    BY <1>19, DistinctAssumption
    DEF IInv, Phases, TypeOK, RenameBack, Overwrite, Put, Keep, OGo,
        Undisturbed, threats, qCall
  <2>2. Phases'
    BY <1>19, DistinctAssumption
    DEF IInv, Phases, TypeOK, RenameBack, Overwrite, Put, Keep, OGo,
        Undisturbed, threats, qCall
  <2>3. ASSUME NEW g \in born' PROVE Somewhere(g)'  \* likewise
    BY <1>19, <2>3, DistinctAssumption
    DEF IInv, Phases, TypeOK, Somewhere, RenameBack, Overwrite, Put, Keep,
        OGo, Undisturbed, threats, qCall
  <2>. QED BY <2>1, <2>2, <2>3 DEF IInv
<1>20. ASSUME RestoreFails PROVE IInv'
  BY <1>20, DistinctAssumption
  DEF IInv, Phases, TypeOK, Somewhere, RestoreFails, OReturn, disk, threats,
      qCall, history
<1>21. ASSUME StartCopyBack PROVE IInv'
  <2>1. TypeOK'
    BY <1>21, DistinctAssumption
    DEF IInv, Phases, TypeOK, StartCopyBack, Overwrite, Put, OGo,
        Undisturbed, threats, qCall
  <2>2. Phases'
    BY <1>21, DistinctAssumption
    DEF IInv, Phases, TypeOK, StartCopyBack, Overwrite, Put, OGo,
        Undisturbed, threats, qCall
  <2>3. ASSUME NEW g \in born' PROVE Somewhere(g)'  \* what it overwrites is recorded, the file stays in the entry
    BY <1>21, <2>3, DistinctAssumption
    DEF IInv, Phases, TypeOK, Somewhere, StartCopyBack, Overwrite, Put, OGo,
        Undisturbed, threats, qCall
  <2>. QED BY <2>1, <2>2, <2>3 DEF IInv
<1>22. ASSUME CopyBackFails PROVE IInv'
  BY <1>22, DistinctAssumption
  DEF IInv, Phases, TypeOK, Somewhere, CopyBackFails, OReturn, disk,
      threats, qCall, history
<1>23. ASSUME EndCopyBack PROVE IInv'
  <2>1. TypeOK'
    BY <1>23, DistinctAssumption
    DEF IInv, Phases, TypeOK, EndCopyBack, Put, OGo, threats, qCall, history
  <2>2. Phases'
    BY <1>23, DistinctAssumption
    DEF IInv, Phases, TypeOK, EndCopyBack, Put, OGo, threats, qCall, history
  <2>3. ASSUME NEW g \in born' PROVE Somewhere(g)'  \* only a beginning is overwritten; from here the entry does not count
    BY <1>23, <2>3, DistinctAssumption
    DEF IInv, Phases, TypeOK, Somewhere, EndCopyBack, Put, OGo, threats,
        qCall, history
  <2>. QED BY <2>1, <2>2, <2>3 DEF IInv
<1>24. ASSUME RemoveKept PROVE IInv'
  <2>1. TypeOK'
    BY <1>24, DistinctAssumption
    DEF IInv, Phases, TypeOK, RemoveKept, Keep, OGo, threats, qCall, history
  <2>2. Phases'
    BY <1>24, DistinctAssumption
    DEF IInv, Phases, TypeOK, RemoveKept, Keep, OGo, threats, qCall, history
  <2>3. ASSUME NEW g \in born' PROVE Somewhere(g)'  \* the entry did not count
    BY <1>24, <2>3, DistinctAssumption
    DEF IInv, Phases, TypeOK, Somewhere, RemoveKept, Keep, OGo, threats,
        qCall, history
  <2>. QED BY <2>1, <2>2, <2>3 DEF IInv
<1>25. ASSUME RemoveKeptFails PROVE IInv'
  BY <1>25, DistinctAssumption
  DEF IInv, Phases, TypeOK, Somewhere, RemoveKeptFails, OGo, disk, threats,
      qCall
<1>26. ASSUME DeleteKept PROVE IInv'
  <2>1. TypeOK'
    BY <1>26, DistinctAssumption
    DEF IInv, Phases, TypeOK, DeleteKept, Keep, OGo, threats, qCall
  <2>2. Phases'
    BY <1>26, DistinctAssumption
    DEF IInv, Phases, TypeOK, DeleteKept, Keep, OGo, threats, qCall
  <2>3. ASSUME NEW g \in born' PROVE Somewhere(g)'  \* recorded as deleted
    BY <1>26, <2>3, DistinctAssumption
    DEF IInv, Phases, TypeOK, Somewhere, DeleteKept, Keep, OGo, threats,
        qCall
  <2>. QED BY <2>1, <2>2, <2>3 DEF IInv
<1>27. ASSUME DeleteFails PROVE IInv'
  BY <1>27, DistinctAssumption
  DEF IInv, Phases, TypeOK, Somewhere, DeleteFails, OReturn, disk, threats,
      qCall, history
<1>28. ASSUME RemoveMeta PROVE IInv'
  BY <1>28, DistinctAssumption
  DEF IInv, Phases, TypeOK, Somewhere, RemoveMeta, Note, OReturn, threats,
      qCall, history
<1>29. ASSUME RemoveMetaFails PROVE IInv'
  BY <1>29, DistinctAssumption
  DEF IInv, Phases, TypeOK, Somewhere, RemoveMetaFails, OReturn, disk,
      threats, qCall
<1>30. ASSUME Crash PROVE IInv'
  BY <1>30, DistinctAssumption
  DEF IInv, Phases, TypeOK, Somewhere, Crash, disk
<1>31. CASE UNCHANGED vars
  BY <1>31 DEF IInv, Phases, TypeOK, Somewhere, vars, disk, threats, qCall, oCall, history
<1>. QED
  BY <1>1, <1>2, <1>3, <1>4, <1>5, <1>6, <1>7, <1>8, <1>9, <1>10, <1>11, <1>12, <1>13, <1>14, <1>15,
     <1>16, <1>17, <1>18, <1>19, <1>20, <1>21, <1>22, <1>23, <1>24, <1>25, <1>26, <1>27, <1>28, <1>29, <1>30, <1>31
  DEF Next, Quarantining, Operating

LEMMA Invariance == Spec => []IInv
BY InitIInv, NextIInv, PTL DEF Spec

(* Types, and that the call of each side has its entry and its path at     *)
(* hand whenever it needs them.                                            *)
THEOREM TypeCorrect == Spec => []TypeOK
<1>1. IInv => TypeOK
  BY DEF IInv
<1>. QED BY <1>1, Invariance, PTL

(* No step of quarantine(), restore() or permanentDelete(), no failure and *)
(* no crash loses a file, except permanentDelete() and a file that comes   *)
(* back to its path: for every number of files, paths and entries.         *)
THEOREM NothingLostHolds == Spec => []NothingLost
<1>1. IInv => NothingLost
  BY DEF IInv, Somewhere, NothingLost
<1>. QED BY <1>1, Invariance, PTL
-----------------------------------------------------------------------------
(* What the disk looks like in each phase of a call, as far as the entry   *)
(* it works on is concerned; elsewhere the entries are whole.              *)
Whole ==
  /\ qPc = "copy" => at[qPath] # None
  /\ qPc \in {"remove", "open", "fill", "undo"} => vault[qId] # None
  /\ qPc \in {"move", "copy", "remove", "open", "undo"} => meta[qId] = None
  /\ oPc \in {"copy", "remove"} => vault[oId] # None
  /\ oPc \in {"back", "copy", "remove"} => meta[oId] \in Paths
  /\ oPc \in {"back", "delete"} /\ oId \notin marred =>
       (vault[oId] # None <=> meta[oId] \in Paths)
  /\ oPc = "unrecord" /\ oId \notin marred => vault[oId] = None
  /\ EntriesWhole

LEMMA NextWhole == IInv /\ Whole /\ [Next]_vars => Whole'
<1>. SUFFICES ASSUME IInv, Whole, [Next]_vars PROVE Whole'
  OBVIOUS
<1>1. ASSUME NEW p \in Paths, NEW f \in Files, Create(p, f) PROVE Whole'
  BY <1>1, DistinctAssumption
  DEF IInv, Phases, TypeOK, Whole, Finished, EntriesWhole, qPath, Create,
      Put, threats, qCall, oCall
<1>2. ASSUME NEW t \in Threats, NEW p \in Paths, AddThreat(t, p) PROVE Whole'
  BY <1>2, DistinctAssumption
  DEF IInv, Phases, TypeOK, Whole, Finished, EntriesWhole, qPath, AddThreat,
      disk, qCall, oCall, history
<1>3. ASSUME NEW t \in Threats, NEW i \in Ids, Begin(t, i) PROVE Whole'
  BY <1>3, DistinctAssumption
  DEF IInv, Phases, TypeOK, Whole, Finished, EntriesWhole, qPath, Begin,
      disk, threats, oCall, history
<1>4. ASSUME Rename PROVE Whole'
  BY <1>4, DistinctAssumption
  DEF IInv, Phases, TypeOK, Whole, Finished, EntriesWhole, Rename, Keep,
      Put, QGo, qPath, Undisturbed, threats, oCall, history
<1>5. ASSUME StartCopy PROVE Whole'
  BY <1>5, DistinctAssumption
  DEF IInv, Phases, TypeOK, Whole, Finished, EntriesWhole, StartCopy, Keep,
      QGo, qPath, threats, oCall, history
<1>6. ASSUME MoveFails PROVE Whole'
  BY <1>6, DistinctAssumption
  DEF IInv, Phases, TypeOK, Whole, Finished, EntriesWhole, qPath, MoveFails,
      QReturn, disk, threats, oCall, history
<1>7. ASSUME CopyFails PROVE Whole'
  BY <1>7, DistinctAssumption
  DEF IInv, Phases, TypeOK, Whole, Finished, EntriesWhole, qPath, CopyFails,
      QReturn, disk, threats, oCall
<1>8. ASSUME EndCopy PROVE Whole'
  BY <1>8, DistinctAssumption
  DEF IInv, Phases, TypeOK, Whole, Finished, EntriesWhole, EndCopy, Keep,
      QGo, qPath, threats, oCall, history
<1>9. ASSUME RemoveOriginal PROVE Whole'
  BY <1>9, DistinctAssumption
  DEF IInv, Phases, TypeOK, Whole, Finished, EntriesWhole, RemoveOriginal,
      Put, QGo, qPath, Undisturbed, threats, oCall
<1>10. ASSUME RemoveFails PROVE Whole'
  BY <1>10, DistinctAssumption
  DEF IInv, Phases, TypeOK, Whole, Finished, EntriesWhole, qPath,
      RemoveFails, QGo, disk, threats, oCall
<1>11. ASSUME OpenMeta PROVE Whole'
  BY <1>11, DistinctAssumption
  DEF IInv, Phases, TypeOK, Whole, Finished, EntriesWhole, qPath, OpenMeta,
      Note, QGo, threats, oCall, history
<1>12. ASSUME FillMeta PROVE Whole'
  BY <1>12, DistinctAssumption
  DEF IInv, Phases, TypeOK, Whole, Finished, EntriesWhole, FillMeta, Note,
      Flag, QReturn, qPath, oCall, history
<1>13. ASSUME FillFails PROVE Whole'
  BY <1>13, DistinctAssumption
  DEF IInv, Phases, TypeOK, Whole, Finished, EntriesWhole, qPath, FillFails,
      Flag, QReturn, disk, oCall
<1>14. ASSUME OpenMetaFails PROVE Whole'
  BY <1>14, DistinctAssumption
  DEF IInv, Phases, TypeOK, Whole, Finished, EntriesWhole, qPath,
      OpenMetaFails, QGo, disk, threats, oCall, history
<1>15. ASSUME Undo PROVE Whole'
  BY <1>15, DistinctAssumption
  DEF IInv, Phases, TypeOK, Whole, Finished, EntriesWhole, Undo, Put, Keep,
      QReturn, qPath, Undisturbed, threats, oCall
<1>16. ASSUME UndoFails PROVE Whole'
  BY <1>16, DistinctAssumption
  DEF IInv, Phases, TypeOK, Whole, Finished, EntriesWhole, qPath, UndoFails,
      QReturn, disk, threats, oCall
<1>17. ASSUME NEW i \in Ids, BeginRestore(i) PROVE Whole'
  BY <1>17, DistinctAssumption
  DEF IInv, Phases, TypeOK, Whole, Finished, EntriesWhole, qPath,
      BeginRestore, disk, threats, qCall, history
<1>18. ASSUME NEW i \in Ids, BeginDelete(i) PROVE Whole'
  BY <1>18, DistinctAssumption
  DEF IInv, Phases, TypeOK, Whole, Finished, EntriesWhole, qPath,
      BeginDelete, disk, threats, qCall, history
<1>19. ASSUME RenameBack PROVE Whole'
  BY <1>19, DistinctAssumption
  DEF IInv, Phases, TypeOK, Whole, Finished, EntriesWhole, qPath,
      RenameBack, Put, Keep, OGo, Undisturbed, threats, qCall
<1>20. ASSUME RestoreFails PROVE Whole'
  BY <1>20, DistinctAssumption
  DEF IInv, Phases, TypeOK, Whole, Finished, EntriesWhole, qPath,
      RestoreFails, OReturn, disk, threats, qCall, history
<1>21. ASSUME StartCopyBack PROVE Whole'
  BY <1>21, DistinctAssumption
  DEF IInv, Phases, TypeOK, Whole, Finished, EntriesWhole, qPath,
      StartCopyBack, Put, OGo, Undisturbed, threats, qCall
<1>22. ASSUME CopyBackFails PROVE Whole'
  BY <1>22, DistinctAssumption
  DEF IInv, Phases, TypeOK, Whole, Finished, EntriesWhole, qPath,
      CopyBackFails, OReturn, disk, threats, qCall, history
<1>23. ASSUME EndCopyBack PROVE Whole'
  BY <1>23, DistinctAssumption
  DEF IInv, Phases, TypeOK, Whole, Finished, EntriesWhole, qPath,
      EndCopyBack, Put, OGo, threats, qCall, history
<1>24. ASSUME RemoveKept PROVE Whole'
  BY <1>24, DistinctAssumption
  DEF IInv, Phases, TypeOK, Whole, Finished, EntriesWhole, qPath,
      RemoveKept, Keep, OGo, threats, qCall, history
<1>25. ASSUME RemoveKeptFails PROVE Whole'
  BY <1>25, DistinctAssumption
  DEF IInv, Phases, TypeOK, Whole, Finished, EntriesWhole, qPath,
      RemoveKeptFails, OGo, disk, threats, qCall
<1>26. ASSUME DeleteKept PROVE Whole'
  BY <1>26, DistinctAssumption
  DEF IInv, Phases, TypeOK, Whole, Finished, EntriesWhole, qPath,
      DeleteKept, Keep, OGo, threats, qCall
<1>27. ASSUME DeleteFails PROVE Whole'
  BY <1>27, DistinctAssumption
  DEF IInv, Phases, TypeOK, Whole, Finished, EntriesWhole, qPath,
      DeleteFails, OReturn, disk, threats, qCall, history
<1>28. ASSUME RemoveMeta PROVE Whole'
  BY <1>28, DistinctAssumption
  DEF IInv, Phases, TypeOK, Whole, Finished, EntriesWhole, qPath,
      RemoveMeta, Note, OReturn, threats, qCall, history
<1>29. ASSUME RemoveMetaFails PROVE Whole'
  BY <1>29, DistinctAssumption
  DEF IInv, Phases, TypeOK, Whole, Finished, EntriesWhole, qPath,
      RemoveMetaFails, OReturn, disk, threats, qCall
<1>30. ASSUME Crash PROVE Whole'
  BY <1>30, DistinctAssumption
  DEF IInv, Phases, TypeOK, Whole, Finished, EntriesWhole, qPath, Crash,
      disk
<1>31. CASE UNCHANGED vars
  BY <1>31
  DEF Whole, EntriesWhole, Finished, qPath, vars, disk, threats, qCall,
      oCall, history
<1>. QED
  BY <1>1, <1>2, <1>3, <1>4, <1>5, <1>6, <1>7, <1>8, <1>9, <1>10, <1>11,
     <1>12, <1>13, <1>14, <1>15, <1>16, <1>17, <1>18, <1>19, <1>20, <1>21,
     <1>22, <1>23, <1>24, <1>25, <1>26, <1>27, <1>28, <1>29, <1>30, <1>31
  DEF Next, Quarantining, Operating

(* An entry that no call works on and nothing cut short has its file if    *)
(* and only if its metadata says where the file came from.                 *)
THEOREM EntriesWholeHolds == Spec => []EntriesWhole
<1>1. Init => Whole
  BY DistinctAssumption DEF Init, Whole, EntriesWhole, Finished
<1>2. Whole => EntriesWhole
  BY DEF Whole
<1>. QED BY <1>1, <1>2, Invariance, NextWhole, PTL DEF Spec
-----------------------------------------------------------------------------
(* Where each file is, as long as no call was cut short: in one place,     *)
(* outside or in an entry.  Two copies are about to be removed: the        *)
(* original of a file that was just copied into its entry, which counts,   *)
(* and the kept file of an entry whose copy is back outside.               *)
Leaving(i) == oPc = "remove" /\ i = oId

Single ==
  /\ \A p \in Paths : at[p] \in Files => at[p] \in born
  /\ \A i \in Ids : vault[i] \in Files => vault[i] \in born
  /\ marred = {} => \A p, r \in Paths : p # r /\ at[p] \in Files => at[p] # at[r]
  /\ marred = {} => \A i \in Ids : vault[i] \in Files /\ ~Leaving(i) =>
       /\ \A p \in Paths : at[p] = vault[i] => qPc = "remove" /\ i = qId /\ p = qPath
       /\ \A j \in Ids \ {i} : ~Leaving(j) => vault[j] # vault[i]

LEMMA NextSingle == IInv /\ Single /\ [Next]_vars => Single'
<1>. SUFFICES ASSUME IInv, Single, [Next]_vars PROVE Single'
  OBVIOUS
<1>1. ASSUME NEW p \in Paths, NEW f \in Files, Create(p, f) PROVE Single'
  BY <1>1, DistinctAssumption
  DEF IInv, Phases, TypeOK, Single, Leaving, qPath, Create,
      Put, threats, qCall, oCall
<1>2. ASSUME NEW t \in Threats, NEW p \in Paths, AddThreat(t, p) PROVE Single'
  BY <1>2, DistinctAssumption
  DEF IInv, Phases, TypeOK, Single, Leaving, qPath, AddThreat,
      disk, qCall, oCall, history
<1>3. ASSUME NEW t \in Threats, NEW i \in Ids, Begin(t, i) PROVE Single'
  BY <1>3, DistinctAssumption
  DEF IInv, Phases, TypeOK, Single, Leaving, qPath, Begin,
      disk, threats, oCall, history
<1>4. ASSUME Rename PROVE Single'
  BY <1>4, DistinctAssumption
  DEF IInv, Phases, TypeOK, Single, Leaving, Rename, Keep,
      Put, QGo, qPath, Undisturbed, threats, oCall, history
<1>5. ASSUME StartCopy PROVE Single'
  BY <1>5, DistinctAssumption
  DEF IInv, Phases, TypeOK, Single, Leaving, StartCopy, Keep,
      QGo, qPath, threats, oCall, history
<1>6. ASSUME MoveFails PROVE Single'
  BY <1>6, DistinctAssumption
  DEF IInv, Phases, TypeOK, Single, Leaving, qPath, MoveFails,
      QReturn, disk, threats, oCall, history
<1>7. ASSUME CopyFails PROVE Single'
  BY <1>7, DistinctAssumption
  DEF IInv, Phases, TypeOK, Single, Leaving, qPath, CopyFails,
      QReturn, disk, threats, oCall
<1>8. ASSUME EndCopy PROVE Single'
  BY <1>8, DistinctAssumption
  DEF IInv, Phases, TypeOK, Single, Leaving, EndCopy, Keep,
      QGo, qPath, threats, oCall, history
<1>9. ASSUME RemoveOriginal PROVE Single'
  BY <1>9, DistinctAssumption
  DEF IInv, Phases, TypeOK, Single, Leaving, RemoveOriginal,
      Put, QGo, qPath, Undisturbed, threats, oCall
<1>10. ASSUME RemoveFails PROVE Single'
  BY <1>10, DistinctAssumption
  DEF IInv, Phases, TypeOK, Single, Leaving, qPath,
      RemoveFails, QGo, disk, threats, oCall
<1>11. ASSUME OpenMeta PROVE Single'
  BY <1>11, DistinctAssumption
  DEF IInv, Phases, TypeOK, Single, Leaving, qPath, OpenMeta,
      Note, QGo, threats, oCall, history
<1>12. ASSUME FillMeta PROVE Single'
  BY <1>12, DistinctAssumption
  DEF IInv, Phases, TypeOK, Single, Leaving, FillMeta, Note,
      Flag, QReturn, qPath, oCall, history
<1>13. ASSUME FillFails PROVE Single'
  BY <1>13, DistinctAssumption
  DEF IInv, Phases, TypeOK, Single, Leaving, qPath, FillFails,
      Flag, QReturn, disk, oCall
<1>14. ASSUME OpenMetaFails PROVE Single'
  BY <1>14, DistinctAssumption
  DEF IInv, Phases, TypeOK, Single, Leaving, qPath,
      OpenMetaFails, QGo, disk, threats, oCall, history
<1>15. ASSUME Undo PROVE Single'
  BY <1>15, DistinctAssumption
  DEF IInv, Phases, TypeOK, Single, Leaving, Undo, Put, Keep,
      QReturn, qPath, Undisturbed, threats, oCall
<1>16. ASSUME UndoFails PROVE Single'
  BY <1>16, DistinctAssumption
  DEF IInv, Phases, TypeOK, Single, Leaving, qPath, UndoFails,
      QReturn, disk, threats, oCall
<1>17. ASSUME NEW i \in Ids, BeginRestore(i) PROVE Single'
  BY <1>17, DistinctAssumption
  DEF IInv, Phases, TypeOK, Single, Leaving, qPath,
      BeginRestore, disk, threats, qCall, history
<1>18. ASSUME NEW i \in Ids, BeginDelete(i) PROVE Single'
  BY <1>18, DistinctAssumption
  DEF IInv, Phases, TypeOK, Single, Leaving, qPath,
      BeginDelete, disk, threats, qCall, history
<1>19. ASSUME RenameBack PROVE Single'
  BY <1>19, DistinctAssumption
  DEF IInv, Phases, TypeOK, Single, Leaving, qPath,
      RenameBack, Put, Keep, OGo, Undisturbed, threats, qCall
<1>20. ASSUME RestoreFails PROVE Single'
  BY <1>20, DistinctAssumption
  DEF IInv, Phases, TypeOK, Single, Leaving, qPath,
      RestoreFails, OReturn, disk, threats, qCall, history
<1>21. ASSUME StartCopyBack PROVE Single'
  BY <1>21, DistinctAssumption
  DEF IInv, Phases, TypeOK, Single, Leaving, qPath,
      StartCopyBack, Put, OGo, Undisturbed, threats, qCall
<1>22. ASSUME CopyBackFails PROVE Single'
  BY <1>22, DistinctAssumption
  DEF IInv, Phases, TypeOK, Single, Leaving, qPath,
      CopyBackFails, OReturn, disk, threats, qCall, history
<1>23. ASSUME EndCopyBack PROVE Single'
  BY <1>23, DistinctAssumption
  DEF IInv, Phases, TypeOK, Single, Leaving, qPath,
      EndCopyBack, Put, OGo, threats, qCall, history
<1>24. ASSUME RemoveKept PROVE Single'
  BY <1>24, DistinctAssumption
  DEF IInv, Phases, TypeOK, Single, Leaving, qPath,
      RemoveKept, Keep, OGo, threats, qCall, history
<1>25. ASSUME RemoveKeptFails PROVE Single'
  BY <1>25, DistinctAssumption
  DEF IInv, Phases, TypeOK, Single, Leaving, qPath,
      RemoveKeptFails, OGo, disk, threats, qCall
<1>26. ASSUME DeleteKept PROVE Single'
  BY <1>26, DistinctAssumption
  DEF IInv, Phases, TypeOK, Single, Leaving, qPath,
      DeleteKept, Keep, OGo, threats, qCall
<1>27. ASSUME DeleteFails PROVE Single'
  BY <1>27, DistinctAssumption
  DEF IInv, Phases, TypeOK, Single, Leaving, qPath,
      DeleteFails, OReturn, disk, threats, qCall, history
<1>28. ASSUME RemoveMeta PROVE Single'
  BY <1>28, DistinctAssumption
  DEF IInv, Phases, TypeOK, Single, Leaving, qPath,
      RemoveMeta, Note, OReturn, threats, qCall, history
<1>29. ASSUME RemoveMetaFails PROVE Single'
  BY <1>29, DistinctAssumption
  DEF IInv, Phases, TypeOK, Single, Leaving, qPath,
      RemoveMetaFails, OReturn, disk, threats, qCall
<1>30. ASSUME Crash PROVE Single'
  BY <1>30, DistinctAssumption
  DEF IInv, Phases, TypeOK, Single, Leaving, qPath, Crash,
      disk
<1>31. CASE UNCHANGED vars
  BY <1>31
  DEF Single, Leaving, qPath, vars, disk, threats, qCall,
      oCall, history
<1>. QED
  BY <1>1, <1>2, <1>3, <1>4, <1>5, <1>6, <1>7, <1>8, <1>9, <1>10, <1>11,
     <1>12, <1>13, <1>14, <1>15, <1>16, <1>17, <1>18, <1>19, <1>20, <1>21,
     <1>22, <1>23, <1>24, <1>25, <1>26, <1>27, <1>28, <1>29, <1>30, <1>31
  DEF Next, Quarantining, Operating

(* As long as no call was cut short, what a finished entry keeps is        *)
(* nowhere else: not at any path outside, and in no other entry.           *)
THEOREM IsolatedHolds == Spec => []Isolated
<1>1. Init => Single
  BY DistinctAssumption DEF Init, Single, Leaving
<1>2. IInv /\ Single => Isolated
  BY DEF IInv, Phases, TypeOK, Single, Leaving, Isolated, Finished
<1>. QED BY <1>1, <1>2, Invariance, NextSingle, PTL DEF Spec
=============================================================================

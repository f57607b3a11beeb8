-------------------------- MODULE MigrationProofs --------------------------
(* Proofs about Migration: types, the truth of the version table, the      *)
(* order of the applied versions, the refinement of SchemaHistory, and     *)
(* that a call reaches its goal.                                           *)
EXTENDS Migration, FiniteSetTheorems, TLAPS

(* The strengthening: what the writing transaction sees, and what the rest *)
(* of each loop is.  A climbing loop has before it, or finds applied,      *)
(* everything below each of its versions; a descending loop is alone and   *)
(* is about to remove the top of the records.                              *)
TxView ==
  \A r \in Runners, v \in Versions :
     writer = r /\ IsNext(r, v) =>
       /\ txEffects = [effects EXCEPT ![v] = effects[v] + (IF down[r] THEN -1 ELSE 1)]
       /\ pc[r] = "changed" => txRecords = records
       /\ pc[r] = "recorded" =>
            /\ txRecords = IF down[r] THEN records \ {v} ELSE records \cup {v}
            /\ down[r] \/ v \notin records

ClimbInv ==
  \A r \in Runners : pc[r] # "idle" /\ ~down[r] =>
     \A v \in todo[r] : \A u \in 1..v : u \in records \/ u \in todo[r]

DescendInv ==
  \A r \in Runners : pc[r] # "idle" /\ down[r] =>
     /\ todo[r] \subseteq records
     /\ \A u \in records, v \in todo[r] : u \notin todo[r] => u < v
     /\ \A s \in Runners : s # r => pc[s] = "idle"

IInv == /\ TypeOK /\ RecordsTellEffects /\ AppliedInOrder
        /\ TxView /\ ClimbInv /\ DescendInv

(* What is above one of the newest is among the newest.                    *)
LEMMA NewestIsTop ==
  ASSUME NEW S \in SUBSET Versions, NEW n \in Nat,
         NEW v \in Newest(S, n), NEW w \in S, w > v
  PROVE  w \in Newest(S, n)
<1> DEFINE A == {u \in S : u > v}
           B == {u \in S : u > w}
<1>1. v \in S /\ Cardinality(A) < n BY DEF Newest
<1>2. S \subseteq 1..N BY DEF Versions
<1>3. IsFiniteSet(1..N) BY FS_Interval, NAssumption
<1>4. IsFiniteSet(S) BY <1>2, <1>3, FS_Subset
<1>5. IsFiniteSet(A) BY <1>4, FS_Subset
<1>6. v \in Int /\ w \in Int /\ \A u \in S : u \in Int BY <1>1, <1>2, NAssumption
<1>7. B \subseteq A
  <2> SUFFICES ASSUME NEW u \in S, u > w PROVE u > v OBVIOUS
  <2> QED BY <1>6
<1>8. IsFiniteSet(B) /\ Cardinality(B) <= Cardinality(A) BY <1>5, <1>7, FS_Subset
<1>9. Cardinality(A) \in Nat /\ Cardinality(B) \in Nat
  BY <1>5, <1>8, FS_CardinalityType
<1>10. Cardinality(B) < n BY <1>1, <1>8, <1>9
<1> QED BY <1>10 DEF Newest

LEMMA InitHolds == Init => IInv
<1> SUFFICES ASSUME Init PROVE IInv OBVIOUS
<1> USE NAssumption, RunnersAssumption DEF Init
<1>1. TypeOK BY DEF TypeOK, Versions
<1>2. RecordsTellEffects /\ AppliedInOrder
  BY DEF RecordsTellEffects, AppliedInOrder
<1>3. TxView BY DEF TxView
<1>4. ClimbInv /\ DescendInv BY DEF ClimbInv, DescendInv
<1> QED BY <1>1, <1>2, <1>3, <1>4 DEF IInv

LEMMA CallsPreserve ==
  ASSUME IInv, NEW r \in Runners, NEW isDown \in BOOLEAN, NEW k \in 0..N,
         NEW versions \in SUBSET Versions, NEW end \in 0..N,
         pc[r] = "idle", Begin(r, isDown, k, versions, end),
         ~isDown => /\ \A s \in Runners : pc[s] # "idle" => ~down[s]
                    /\ \A v \in versions : \A u \in 1..v :
                          u \in records \/ u \in versions,
         isDown => /\ ~Busy /\ versions \subseteq records
                   /\ \A u \in records, v \in versions : u \notin versions => u < v
  PROVE  IInv'
<1> USE DEF IInv, Begin, Go, db, tx
<1>1. TypeOK' BY DEF TypeOK
<1>2. RecordsTellEffects' /\ AppliedInOrder'
  BY DEF RecordsTellEffects, AppliedInOrder
<1>3. \A s \in Runners, v \in Versions : writer = s => s # r BY DEF TypeOK
<1>4. TxView'
  <2> SUFFICES ASSUME NEW s \in Runners, NEW v \in Versions, writer = s, IsNext(s, v)'
               PROVE  /\ txEffects = [effects EXCEPT ![v] = effects[v] + (IF down[s] THEN -1 ELSE 1)]
                      /\ pc[s] = "changed" => txRecords = records
                      /\ pc[s] = "recorded" =>
                           /\ txRecords = IF down[s] THEN records \ {v} ELSE records \cup {v}
                           /\ down[s] \/ v \notin records
                      /\ down'[s] = down[s] /\ pc'[s] = pc[s]
    BY DEF TxView
  <2>1. s # r BY DEF TypeOK
  <2>2. todo'[s] = todo[s] /\ down'[s] = down[s] /\ pc'[s] = pc[s]
    BY <2>1 DEF TypeOK
  <2>3. IsNext(s, v) BY <2>2 DEF IsNext
  <2> QED BY <2>2, <2>3 DEF TxView
<1>5. \A s \in Runners : s # r => /\ todo'[s] = todo[s]
                                  /\ down'[s] = down[s] /\ pc'[s] = pc[s]
  BY DEF TypeOK
<1>6. todo'[r] = versions /\ down'[r] = isDown /\ pc'[r] = "ready" BY DEF TypeOK
<1>7. ClimbInv' BY <1>5, <1>6 DEF ClimbInv
<1>8. DescendInv' BY <1>5, <1>6 DEF DescendInv, Busy
<1> QED BY <1>1, <1>2, <1>4, <1>7, <1>8

(* Whatever version MAX(version) is, it and everything below it is applied.*)
LEMMA BelowCurrent ==
  ASSUME AppliedInOrder, NEW cur \in 0..N, IsCurrent(cur), NEW u \in 1..cur
  PROVE  u \in records
BY NAssumption DEF AppliedInOrder, IsCurrent

LEMMA ClimbersPreserve ==
  ASSUME IInv, NEW r \in Runners, RunPending(r) \/ MigrateUp(r)
  PROVE  IInv'
<1>1. PICK k \in 0..N, limit \in 0..N : RunUpTo(r, k, limit)
  BY NAssumption DEF RunPending, MigrateUp
<1>2. PICK cur \in 0..N :
         /\ IsCurrent(cur)
         /\ Begin(r, FALSE, k, {v \in 1..k : cur < v /\ v <= limit}, limit)
  BY <1>1 DEF RunUpTo
<1> DEFINE versions == {v \in 1..k : cur < v /\ v <= limit}
<1>3. versions \in SUBSET Versions BY NAssumption DEF Versions
<1>4. ASSUME NEW v \in versions, NEW u \in 1..v
      PROVE  u \in records \/ u \in versions
  <2>1. CASE u <= cur BY <2>1, <1>2, BelowCurrent, NAssumption DEF IInv
  <2>2. CASE u > cur BY <2>2, NAssumption
  <2> QED BY <2>1, <2>2, NAssumption
<1>5. pc[r] = "idle" /\ \A s \in Runners : pc[s] # "idle" => ~down[s]
  BY DEF RunPending, MigrateUp
<1> QED BY <1>2, <1>3, <1>4, <1>5, CallsPreserve

LEMMA DescendersPreserve ==
  ASSUME IInv, NEW r \in Runners, Rollback(r) \/ MigrateDown(r)
  PROVE  IInv'
<1>1. PICK k \in 0..N, n \in Nat, end \in 0..N :
        Begin(r, TRUE, k, Newest(records, n), end)
  <2>1. CASE Rollback(r)
    <3>1. PICK k \in 0..N, steps \in 0..N, cur \in 0..N :
            Begin(r, TRUE, k, Newest(records, steps),
                  IF steps < cur THEN cur - steps ELSE 0)
      BY <2>1 DEF Rollback
    <3>2. (IF steps < cur THEN cur - steps ELSE 0) \in 0..N BY NAssumption
    <3>3. steps \in Nat BY NAssumption
    <3> QED BY <3>1, <3>2, <3>3
  <2>2. CASE MigrateDown(r)
    <3>1. PICK k \in 0..N, target \in 0..N, cur \in 0..N :
            /\ target < cur
            /\ Begin(r, TRUE, k, Newest(records, cur - target), target)
      BY <2>2 DEF MigrateDown
    <3>2. cur - target \in Nat BY <3>1, NAssumption
    <3> QED BY <3>1, <3>2
  <2> QED BY <2>1, <2>2
<1>2. ~Busy BY DEF Rollback, MigrateDown
<1>3. records \in SUBSET Versions BY DEF IInv, TypeOK
<1>4. Newest(records, n) \subseteq records BY DEF Newest
<1>5. ASSUME NEW u \in records, NEW v \in Newest(records, n), u \notin Newest(records, n)
      PROVE  u < v
  <2>1. v \in records BY <1>4
  <2>2. u \in 1..N /\ v \in 1..N BY <1>3, <2>1 DEF Versions
  <2>3. u # v BY <1>5
  <2>4. ASSUME u > v PROVE FALSE
    <3>1. u \in Newest(records, n) BY <1>3, <2>4, NewestIsTop
    <3> QED BY <1>5, <3>1
  <2> QED BY <2>2, <2>3, <2>4, NAssumption
<1>6. pc[r] = "idle" BY <1>2 DEF Busy
<1>7. Newest(records, n) \in SUBSET Versions BY <1>3, <1>4
<1> QED BY <1>1, <1>2, <1>4, <1>5, <1>6, <1>7, CallsPreserve

(* What a version that is next tells about the loop and the records.       *)
LEMMA NextUp ==
  ASSUME IInv, NEW r \in Runners, pc[r] # "idle", ~down[r],
         NEW v \in Versions, IsNext(r, v), NEW u \in Versions, u < v
  PROVE  u \in records
<1>1. v \in todo[r] /\ \A w \in todo[r] : v <= w BY DEF IsNext
<1>2. u \in 1..v BY NAssumption DEF Versions
<1>3. u \in records \/ u \in todo[r] BY <1>1, <1>2 DEF IInv, ClimbInv
<1>4. ~(v <= u) BY NAssumption DEF Versions
<1> QED BY <1>1, <1>3, <1>4

LEMMA NextDown ==
  ASSUME IInv, NEW r \in Runners, pc[r] # "idle", down[r],
         NEW v \in Versions, IsNext(r, v)
  PROVE  v \in records /\ \A u \in records : u <= v
<1>1. v \in todo[r] /\ \A w \in todo[r] : w <= v BY DEF IsNext
<1>2. v \in records BY <1>1 DEF IInv, DescendInv
<1>3. ASSUME NEW u \in records PROVE u <= v
  <2>1. CASE u \in todo[r] BY <1>1, <2>1
  <2>2. CASE u \notin todo[r]
    <3>1. u < v BY <1>1, <2>2 DEF IInv, DescendInv
    <3>2. u \in 1..N BY DEF IInv, TypeOK, Versions
    <3> QED BY <3>1, <3>2, NAssumption DEF Versions
  <2> QED BY <2>1, <2>2
<1> QED BY <1>2, <1>3

LEMMA NextUnique ==
  ASSUME IInv, NEW r \in Runners, NEW v \in Versions, NEW w \in Versions,
         IsNext(r, v), IsNext(r, w)
  PROVE  v = w
<1>1. v <= w /\ w <= v
  BY DEF IsNext, IInv, TypeOK
<1> QED BY <1>1, NAssumption DEF Versions

LEMMA ChangePreserves ==
  ASSUME IInv, NEW r \in Runners, NEW v \in Versions, Change(r, v)
  PROVE  IInv'
<1> USE DEF IInv, Change, Go, db, callVars
<1>1. TypeOK'
  <2>1. effects[v] + (IF down[r] THEN -1 ELSE 1) \in Int BY DEF TypeOK
  <2>2. txEffects' \in [Versions -> Int] BY <2>1 DEF TypeOK, SetEffect
  <2>3. pc' \in [Runners -> {"idle", "ready", "changed", "recorded"}] BY DEF TypeOK
  <2>4. \A s \in Runners : (writer' = s) <=> pc'[s] \in {"changed", "recorded"}
    BY RunnersAssumption DEF TypeOK
  <2> QED BY <2>2, <2>3, <2>4 DEF TypeOK
<1>2. RecordsTellEffects' /\ AppliedInOrder'
  BY DEF RecordsTellEffects, AppliedInOrder
<1>3. pc'[r] = "changed" /\ \A s \in Runners : s # r => pc'[s] = pc[s] BY DEF TypeOK
<1>4. TxView'
  <2> SUFFICES ASSUME NEW s \in Runners, NEW w \in Versions, writer' = s, IsNext(s, w)'
               PROVE  /\ txEffects' = [effects EXCEPT ![w] = effects[w] + (IF down[s] THEN -1 ELSE 1)]
                      /\ pc'[s] = "changed" /\ txRecords' = records
    BY DEF TxView
  <2>1. s = r /\ IsNext(r, w) BY DEF IsNext
  <2>2. w = v BY <2>1, NextUnique
  <2> QED BY <1>3, <2>1, <2>2 DEF SetEffect
<1>5. ClimbInv' BY <1>3 DEF ClimbInv
<1>6. DescendInv' BY <1>3 DEF DescendInv
<1> QED BY <1>1, <1>2, <1>4, <1>5, <1>6

LEMMA RecordPreserves ==
  ASSUME IInv, NEW r \in Runners, NEW v \in Versions, Record(r, v)
  PROVE  IInv'
<1> USE DEF IInv, Record, Go, db, callVars
<1>1. TypeOK' BY DEF TypeOK
<1>2. RecordsTellEffects' /\ AppliedInOrder'
  BY DEF RecordsTellEffects, AppliedInOrder
<1>3. pc'[r] = "recorded" /\ \A s \in Runners : s # r => pc'[s] = pc[s] BY DEF TypeOK
<1>4. writer = r BY DEF TypeOK
<1>5. TxView'
  <2> SUFFICES ASSUME NEW s \in Runners, NEW w \in Versions, writer = s, IsNext(s, w)'
               PROVE  /\ txEffects = [effects EXCEPT ![w] = effects[w] + (IF down[s] THEN -1 ELSE 1)]
                      /\ pc'[s] = "recorded"
                      /\ txRecords' = IF down[s] THEN records \ {w} ELSE records \cup {w}
                      /\ down[s] \/ w \notin records
    BY DEF TxView
  <2>1. s = r /\ IsNext(r, w) BY <1>4 DEF IsNext
  <2>2. w = v BY <2>1, NextUnique
  <2>3. txRecords = records /\ txEffects = [effects EXCEPT ![v] = effects[v] + (IF down[r] THEN -1 ELSE 1)]
    BY <1>4 DEF TxView
  <2> QED BY <1>3, <2>1, <2>2, <2>3
<1>6. ClimbInv' BY <1>3 DEF ClimbInv
<1>7. DescendInv' BY <1>3 DEF DescendInv
<1> QED BY <1>1, <1>2, <1>5, <1>6, <1>7

(* What a commit does to the records, and that it is what the abstract     *)
(* history allows.                                                         *)
LEMMA CommitIsStep ==
  ASSUME IInv, NEW r \in Runners, NEW v \in Versions, Commit(r, v)
  PROVE  /\ ~down[r] => History!StepUp(v)
         /\ down[r] => History!StepDown(v)
<1> USE DEF Commit
<1>1. writer = r /\ pc[r] = "recorded" BY DEF IInv, TypeOK
<1>2. /\ effects' = [effects EXCEPT ![v] = effects[v] + (IF down[r] THEN -1 ELSE 1)]
      /\ records' = IF down[r] THEN records \ {v} ELSE records \cup {v}
      /\ down[r] \/ v \notin records
  BY <1>1 DEF IInv, TxView
<1>3. CASE ~down[r]
  <2>1. effects[v] = 0 BY <1>2, <1>3 DEF IInv, RecordsTellEffects
  <2>2. effects' = [effects EXCEPT ![v] = 1] BY <1>2, <1>3, <2>1
  <2>3. \A u \in Versions : u < v => u \in records
    BY <1>1, <1>3, NextUp
  <2> QED BY <1>2, <1>3, <2>2, <2>3 DEF History!StepUp
<1>4. CASE down[r]
  <2>1. v \in records /\ \A u \in records : u <= v BY <1>1, <1>4, NextDown
  <2>2. effects[v] = 1 BY <2>1 DEF IInv, RecordsTellEffects
  <2>3. effects' = [effects EXCEPT ![v] = 0] BY <1>2, <1>4, <2>2
  <2> QED BY <1>2, <1>4, <2>1, <2>3 DEF History!StepDown
<1> QED BY <1>3, <1>4, <1>1 DEF IInv, TypeOK

LEMMA CommitPreserves ==
  ASSUME IInv, NEW r \in Runners, NEW v \in Versions, Commit(r, v)
  PROVE  IInv'
<1> USE DEF IInv, Commit, Go, callVars
<1>1. TypeOK'
  <2>1. \A s \in Runners : (writer' = s) <=> pc'[s] \in {"changed", "recorded"}
    BY RunnersAssumption DEF TypeOK
  <2> QED BY <2>1 DEF TypeOK
<1>2. /\ ~down[r] => History!StepUp(v)
      /\ down[r] => History!StepDown(v) BY CommitIsStep
<1>3. RecordsTellEffects'
  BY <1>2 DEF RecordsTellEffects, TypeOK, History!StepUp, History!StepDown
<1>4. AppliedInOrder'
  <2> SUFFICES ASSUME NEW w \in records', NEW u \in 1..w PROVE u \in records'
    BY DEF AppliedInOrder
  <2>1. w \in 1..N BY DEF TypeOK, Versions
  <2>2. u \in Versions /\ u <= w BY <2>1, NAssumption DEF Versions
  <2>3. CASE ~down[r]
    <3>1. CASE w = v /\ u = v BY <1>2, <2>3, <3>1 DEF History!StepUp
    <3>2. CASE w = v /\ u # v
      <4>1. u < v BY <2>2, <3>2, NAssumption DEF Versions
      <4> QED BY <1>2, <2>2, <2>3, <4>1 DEF History!StepUp
    <3>3. CASE w # v
      <4>1. w \in records BY <1>2, <2>3, <3>3 DEF History!StepUp
      <4> QED BY <1>2, <2>3, <4>1 DEF History!StepUp, AppliedInOrder
    <3> QED BY <3>1, <3>2, <3>3
  <2>4. CASE down[r]
    <3>1. w \in records /\ w # v /\ w <= v BY <1>2, <2>4 DEF History!StepDown
    <3>2. u # v BY <2>1, <2>2, <3>1, NAssumption DEF Versions
    <3>3. u \in records BY <3>1 DEF AppliedInOrder
    <3> QED BY <1>2, <2>4, <3>2, <3>3 DEF History!StepDown
  <2> QED BY <2>3, <2>4 DEF TypeOK
<1>5. /\ pc'[r] = "ready" /\ todo'[r] = todo[r] \ {v}
      /\ \A s \in Runners : s # r => pc'[s] = pc[s] /\ todo'[s] = todo[s]
  BY DEF TypeOK
<1>6. TxView' BY RunnersAssumption DEF TxView
<1>7. ClimbInv'
  <2> SUFFICES ASSUME NEW s \in Runners, pc'[s] # "idle", ~down[s],
                      NEW w \in todo'[s], NEW u \in 1..w
               PROVE  u \in records' \/ u \in todo'[s]
    BY DEF ClimbInv
  <2>1. pc[s] # "idle" BY <1>5
  <2>2. ~down[r] BY <2>1 DEF DescendInv
  <2>3. u \in records \/ u \in todo[s] BY <1>5, <2>1 DEF ClimbInv
  <2>4. records' = records \cup {v} BY <1>2, <2>2 DEF History!StepUp
  <2> QED BY <1>5, <2>3, <2>4
<1>8. DescendInv'
  <2> SUFFICES ASSUME NEW s \in Runners, pc'[s] # "idle", down[s]
               PROVE  /\ todo'[s] \subseteq records'
                      /\ \A u \in records', w \in todo'[s] : u \notin todo'[s] => u < w
                      /\ \A t \in Runners : t # s => pc'[t] = "idle"
    BY DEF DescendInv
  <2>1. pc[s] # "idle" BY <1>5
  <2>2. s = r BY <2>1 DEF DescendInv
  <2>3. records' = records \ {v} BY <1>2, <2>2 DEF History!StepDown
  <2> QED BY <1>5, <2>2, <2>3 DEF DescendInv
<1> QED BY <1>1, <1>3, <1>4, <1>6, <1>7, <1>8

LEMMA EndsPreserve ==
  ASSUME IInv, NEW r \in Runners, Finish(r) \/ Abort(r)
  PROVE  IInv'
<1> USE DEF IInv, Finish, Abort, Go, callVars, db, tx
<1>1. /\ UNCHANGED <<records, effects, txRecords, txEffects, down, known, goal>>
      /\ pc' = [pc EXCEPT ![r] = "idle"]
      /\ writer' = IF writer = r THEN NoRunner ELSE writer
      /\ todo' = [todo EXCEPT ![r] = {}]
  BY DEF TypeOK
<1>2. TypeOK'
  <2>1. \A s \in Runners : (writer' = s) <=> pc'[s] \in {"changed", "recorded"}
    BY <1>1, RunnersAssumption DEF TypeOK
  <2>2. todo' \in [Runners -> SUBSET Versions] BY <1>1 DEF TypeOK
  <2>3. writer' \in Runners \cup {NoRunner} BY <1>1 DEF TypeOK
  <2>4. pc' \in [Runners -> {"idle", "ready", "changed", "recorded"}] BY <1>1 DEF TypeOK
  <2> QED BY <1>1, <2>1, <2>2, <2>3, <2>4 DEF TypeOK
<1>3. RecordsTellEffects' /\ AppliedInOrder'
  BY <1>1 DEF RecordsTellEffects, AppliedInOrder
<1>4. pc'[r] = "idle" /\ \A s \in Runners : s # r => pc'[s] = pc[s] /\ todo'[s] = todo[s]
  BY <1>1 DEF TypeOK
<1>5. TxView'
  <2> SUFFICES ASSUME NEW s \in Runners, NEW v \in Versions, writer' = s, IsNext(s, v)'
               PROVE  writer = s /\ IsNext(s, v) /\ pc'[s] = pc[s]
    BY <1>1 DEF TxView
  <2>1. s # r /\ writer = s BY <1>1, RunnersAssumption
  <2> QED BY <1>1, <1>4, <2>1 DEF IsNext
<1>6. ClimbInv' BY <1>1, <1>4 DEF ClimbInv
<1>7. DescendInv' BY <1>1, <1>4 DEF DescendInv
<1> QED BY <1>2, <1>3, <1>5, <1>6, <1>7

LEMMA StutterPreserves == IInv /\ UNCHANGED vars => IInv'
BY DEF IInv, vars, db, tx, callVars, TypeOK, RecordsTellEffects, AppliedInOrder,
       TxView, ClimbInv, DescendInv, IsNext

THEOREM Invariance == Spec => []IInv
<1>1. IInv /\ [Next]_vars => IInv'
  <2> SUFFICES ASSUME IInv, [Next]_vars PROVE IInv' OBVIOUS
  <2>1. CASE UNCHANGED vars BY <2>1, StutterPreserves
  <2>2. ASSUME NEW r \in Runners, Call(r) PROVE IInv'
    BY <2>2, ClimbersPreserve, DescendersPreserve DEF Call
  <2>3. ASSUME NEW r \in Runners, Finish(r) \/ Abort(r) PROVE IInv'
    BY <2>3, EndsPreserve
  <2>4. ASSUME NEW r \in Runners, NEW v \in Versions, Treat(r, v) PROVE IInv'
    BY <2>4, ChangePreserves, RecordPreserves, CommitPreserves DEF Treat
  <2> QED BY <2>1, <2>2, <2>3, <2>4 DEF Next
<1> QED BY InitHolds, <1>1, PTL DEF Spec

(* Types, and that the write lock is held by the runner in a transaction.  *)
THEOREM TypeCorrect == Spec => []TypeOK
BY Invariance, PTL DEF IInv

(* The version table never lies about the schema.                          *)
THEOREM RecordsTellEffectsHolds == Spec => []RecordsTellEffects
BY Invariance, PTL DEF IInv

(* No migration is applied before an earlier one.                          *)
THEOREM AppliedInOrderHolds == Spec => []AppliedInOrder
BY Invariance, PTL DEF IInv

(* Whatever the runners do, crash or fail at, the database only moves one  *)
(* version up or down at a time.                                           *)
THEOREM ImplementationHolds == Spec => ImplementsSchemaHistory
<1>1. Init => History!SHInit BY DEF Init, History!SHInit
<1>2. IInv /\ [Next]_vars => [History!SHNext]_(History!shVars)
  <2> SUFFICES ASSUME IInv, [Next]_vars,
                      ~UNCHANGED <<records, effects>>
               PROVE  History!SHNext
    BY DEF History!shVars
  <2>1. PICK r \in Runners, v \in Versions : Commit(r, v)
    <3>1. ASSUME NEW r \in Runners, Call(r) PROVE FALSE
      BY <3>1 DEF Call, RunPending, MigrateUp, Rollback, MigrateDown, RunUpTo, Begin, db
    <3>2. ASSUME NEW r \in Runners, Finish(r) \/ Abort(r) PROVE FALSE
      BY <3>2 DEF Finish, Abort, db
    <3>3. ASSUME NEW r \in Runners, NEW v \in Versions, Change(r, v) \/ Record(r, v) PROVE FALSE
      BY <3>3 DEF Change, Record, db
    <3> QED BY <3>1, <3>2, <3>3 DEF Next, Treat, vars, db
  <2>2. History!StepUp(v) \/ History!StepDown(v)
    BY <2>1, CommitIsStep DEF IInv, TypeOK
  <2> QED BY <2>2 DEF History!SHNext
<1> QED BY Invariance, <1>1, <1>2, PTL DEF Spec, ImplementsSchemaHistory, History!SHSpec

-----------------------------------------------------------------------------
(* What is left to do together with what is recorded makes up the goal.    *)
GoalInv ==
  \A r \in Runners : pc[r] # "idle" =>
     /\ ~down[r] => 1..goal[r] \subseteq records \cup todo[r]
     /\ down[r] => /\ records = 1..goal[r] \cup todo[r]
                   /\ \A v \in todo[r] : goal[r] < v

(* With no gap, the newest are those above the current version less their  *)
(* number.                                                                 *)
LEMMA NewestAbove ==
  ASSUME IInv, NEW cur \in 0..N, IsCurrent(cur), NEW n \in Nat
  PROVE  Newest(records, n) = {v \in records : cur - v < n}
<1>1. records \subseteq 1..N BY DEF IInv, TypeOK, Versions
<1>2. \A u \in 1..cur : u \in records BY BelowCurrent DEF IInv
<1>3. \A u \in records : u \in 1..cur BY <1>1, NAssumption DEF IsCurrent
<1>4. ASSUME NEW v \in records PROVE Cardinality({u \in records : u > v}) = cur - v
  <2>0. v \in Int /\ cur \in Int /\ 0 <= v BY <1>1, NAssumption
  <2>1. {u \in records : u > v} = (v + 1)..cur
    <3>1. ASSUME NEW u \in records, u > v PROVE u \in (v + 1)..cur BY <1>3, <2>0, <3>1
    <3>2. ASSUME NEW u \in (v + 1)..cur PROVE u \in records /\ u > v
      <4>1. u \in 1..cur /\ u > v BY <2>0
      <4> QED BY <1>2, <4>1
    <3> QED BY <3>1, <3>2
  <2>2. \A a, b \in Int : Cardinality(a..b) = IF a > b THEN 0 ELSE b - a + 1 BY FS_Interval
  <2>3. v + 1 \in Int /\ cur \in Int /\ v <= cur BY <1>1, <1>3, NAssumption
  <2>4. Cardinality((v + 1)..cur) = cur - v
    <3>1. Cardinality((v + 1)..cur) = IF v + 1 > cur THEN 0 ELSE cur - (v + 1) + 1 BY <2>2, <2>3
    <3> QED BY <1>1, <2>3, <3>1, NAssumption
  <2> QED BY <2>1, <2>4
<1> QED BY <1>4 DEF Newest

(* What a call sets out to do.                                             *)
LEMMA CallsAimAtGoal ==
  ASSUME IInv, NEW r \in Runners, Call(r)
  PROVE  \E isDown \in BOOLEAN, k \in 0..N, versions \in SUBSET Versions, end \in 0..N :
           /\ pc[r] = "idle" /\ Begin(r, isDown, k, versions, end)
           /\ ~isDown => 1..end \subseteq records \cup versions
           /\ isDown => records = 1..end \cup versions /\ \A v \in versions : end < v
<1>1. CASE RunPending(r) \/ MigrateUp(r)
  <2>1. PICK k \in 0..N, limit \in 0..N : limit <= k /\ RunUpTo(r, k, limit)
    BY <1>1, NAssumption DEF RunPending, MigrateUp
  <2> DEFINE Above(cur) == {v \in 1..k : cur < v /\ v <= limit}
  <2>2. PICK cur \in 0..N : IsCurrent(cur) /\ Begin(r, FALSE, k, Above(cur), limit)
    BY <2>1 DEF RunUpTo
  <2>3. Above(cur) \in SUBSET Versions BY NAssumption DEF Versions
  <2>4. 1..limit \subseteq records \cup Above(cur)
    <3> SUFFICES ASSUME NEW u \in 1..limit, u \notin Above(cur) PROVE u \in records OBVIOUS
    <3>1. u \in 1..cur BY <2>1, NAssumption
    <3> QED BY <2>2, <3>1, BelowCurrent DEF IInv
  <2>5. pc[r] = "idle" BY <1>1 DEF RunPending, MigrateUp
  <2> HIDE DEF Above
  <2> QED BY <2>2, <2>3, <2>4, <2>5
<1>2. CASE Rollback(r) \/ MigrateDown(r)
  <2>1. PICK k \in 0..N, n \in Nat, cur \in 0..N :
          /\ IsCurrent(cur)
          /\ Begin(r, TRUE, k, Newest(records, n), IF n < cur THEN cur - n ELSE 0)
    <3>1. CASE Rollback(r)
      <4>1. 0..N \subseteq Nat BY NAssumption
      <4> QED BY <3>1, <4>1 DEF Rollback
    <3>2. CASE MigrateDown(r)
      <4>1. PICK k \in 0..N, target \in 0..N, cur \in 0..N :
              /\ IsCurrent(cur) /\ target < cur
              /\ Begin(r, TRUE, k, Newest(records, cur - target), target)
        BY <3>2 DEF MigrateDown
      <4>2. cur - target \in Nat BY <4>1, NAssumption
      <4>3. (IF cur - target < cur THEN cur - (cur - target) ELSE 0) = target
        BY <4>1, NAssumption
      <4> QED BY <4>1, <4>2, <4>3
    <3> QED BY <1>2, <3>1, <3>2
  <2> DEFINE end == IF n < cur THEN cur - n ELSE 0
             versions == Newest(records, n)
  <2>2. end \in 0..N /\ cur \in Int /\ n \in Int BY <2>1, NAssumption
  <2>3. records \subseteq 1..N BY DEF IInv, TypeOK, Versions
  <2>4. versions = {v \in records : cur - v < n} BY <2>1, NewestAbove
  <2>5. versions \in SUBSET Versions BY <2>3, <2>4 DEF Versions
  <2>6. \A u \in 1..cur : u \in records BY <2>1, BelowCurrent DEF IInv
  <2>7. \A v \in records : v \in 1..cur BY <2>1, <2>3, NAssumption DEF IsCurrent
  <2>8. ASSUME NEW v \in versions PROVE end < v
    <3>1. v \in records /\ cur - v < n BY <2>4
    <3>2. v \in 1..cur BY <2>7, <3>1
    <3> QED BY <2>2, <3>1, <3>2
  <2>9. records = 1..end \cup versions
    <3>1. ASSUME NEW u \in 1..end PROVE u \in records BY <2>2, <2>6, NAssumption
    <3>2. ASSUME NEW u \in records, u \notin versions PROVE u \in 1..end
      BY <2>2, <2>3, <2>4, <2>7, <3>2, NAssumption
    <3> QED BY <2>4, <3>1, <3>2
  <2>10. pc[r] = "idle" BY <1>2 DEF Rollback, MigrateDown, Busy
  <2> QED BY <2>1, <2>2, <2>5, <2>8, <2>9, <2>10
<1> QED BY <1>1, <1>2 DEF Call

LEMMA GoalStep == ASSUME IInv, GoalInv, [Next]_vars PROVE GoalInv'
<1> USE DEF Go, callVars, db, tx
<1>1. pc \in [Runners -> {"idle", "ready", "changed", "recorded"}]
      /\ down \in [Runners -> BOOLEAN] /\ todo \in [Runners -> SUBSET Versions]
      /\ goal \in [Runners -> 0..N]
  BY DEF IInv, TypeOK
<1>2. CASE UNCHANGED vars BY <1>2 DEF vars, GoalInv
<1>3. ASSUME NEW r \in Runners, Call(r) PROVE GoalInv'
  <2>1. PICK isDown \in BOOLEAN, k \in 0..N, versions \in SUBSET Versions, end \in 0..N :
           /\ pc[r] = "idle" /\ Begin(r, isDown, k, versions, end)
           /\ ~isDown => 1..end \subseteq records \cup versions
           /\ isDown => records = 1..end \cup versions /\ \A v \in versions : end < v
    BY <1>3, CallsAimAtGoal
  <2>2. /\ down'[r] = isDown /\ todo'[r] = versions /\ goal'[r] = end /\ records' = records
        /\ \A s \in Runners : s # r => /\ pc'[s] = pc[s] /\ down'[s] = down[s]
                                       /\ todo'[s] = todo[s] /\ goal'[s] = goal[s]
    BY <1>1, <2>1 DEF Begin
  <2> QED BY <2>1, <2>2 DEF GoalInv
<1>4. ASSUME NEW r \in Runners, Finish(r) \/ Abort(r) PROVE GoalInv'
  <2>1. /\ pc'[r] = "idle" /\ records' = records
        /\ \A s \in Runners : s # r => /\ pc'[s] = pc[s] /\ down'[s] = down[s]
                                       /\ todo'[s] = todo[s] /\ goal'[s] = goal[s]
    BY <1>1, <1>4 DEF Finish, Abort
  <2> QED BY <2>1 DEF GoalInv
<1>5. ASSUME NEW r \in Runners, NEW v \in Versions, Change(r, v) \/ Record(r, v) PROVE GoalInv'
  <2>1. /\ pc[r] # "idle" /\ UNCHANGED <<records, todo, down, goal>>
        /\ \A s \in Runners : s # r => pc'[s] = pc[s]
    BY <1>1, <1>5 DEF Change, Record
  <2> QED BY <2>1 DEF GoalInv
<1>6. ASSUME NEW r \in Runners, NEW v \in Versions, Commit(r, v) PROVE GoalInv'
  <2>1. /\ pc[r] = "recorded" /\ UNCHANGED <<down, goal>> /\ v \in todo[r]
        /\ todo'[r] = todo[r] \ {v}
        /\ \A s \in Runners : s # r => pc'[s] = pc[s] /\ todo'[s] = todo[s]
    BY <1>1, <1>6 DEF Commit, IsNext
  <2>2. CASE down[r]
    <3>1. \A s \in Runners : s # r => pc[s] = "idle" BY <2>1, <2>2 DEF IInv, DescendInv
    <3>2. records' = records \ {v} BY <1>6, <2>2, CommitIsStep DEF History!StepDown
    <3>3. goal[r] < v /\ goal[r] \in Int BY <1>1, <2>1, <2>2, NAssumption DEF GoalInv
    <3>4. v \notin 1..goal[r] BY <3>3, NAssumption DEF Versions
    <3>5. records = 1..goal[r] \cup todo[r] BY <2>1, <2>2 DEF GoalInv
    <3> QED BY <2>1, <2>2, <3>1, <3>2, <3>4, <3>5 DEF GoalInv
  <2>3. CASE ~down[r]
    <3>1. \A s \in Runners : pc[s] # "idle" => ~down[s] BY <2>1, <2>3 DEF IInv, DescendInv
    <3>2. records' = records \cup {v} BY <1>6, <2>3, CommitIsStep DEF History!StepUp
    <3>3. \A s \in Runners : pc'[s] # "idle" => pc[s] # "idle" BY <2>1
    <3> QED BY <2>1, <3>1, <3>2, <3>3 DEF GoalInv
  <2> QED BY <2>2, <2>3
<1> QED BY <1>2, <1>3, <1>4, <1>5, <1>6 DEF Next, Treat

(* A call that ends well has done what its name says, for any versions and *)
(* any number of runners (MigrationRunner::runPending, migrateTo,          *)
(* rollback, rollbackAll).                                                 *)
THEOREM GoalReachedHolds == Spec => GoalReached
<1>1. Init => GoalInv BY DEF Init, GoalInv
<1>2. IInv /\ GoalInv /\ [Next]_vars => GoalInv' BY GoalStep
<1>3. GoalInv => \A r \in Runners :
        pc[r] = "ready" /\ todo[r] = {} /\ pc'[r] = "idle"
          => IF down[r] THEN records = 1..goal[r] ELSE 1..goal[r] \subseteq records
  BY DEF GoalInv
<1> QED BY <1>1, <1>2, <1>3, Invariance, PTL DEF Spec, GoalReached
=============================================================================

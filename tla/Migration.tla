----------------------------- MODULE Migration -----------------------------
(***************************************************************************)
(* Database::MigrationManager: schema migrations, each applied or taken    *)
(* back in a transaction of its own together with its row in _migrations.  *)
(*                                                                         *)
(* Several runners (processes that start up, threads with connections of   *)
(* their own) may run pending migrations at the same time; each reads the  *)
(* current version before its first transaction and never again.  Taking   *)
(* migrations back is an operator's action, with nobody else at work.      *)
(* Runners differ in the migrations they know: an older build knows fewer. *)
(*                                                                         *)
(* SQLite lets one transaction write at a time, makes its writes visible   *)
(* at the commit, and drops them on a rollback or a crash.                 *)
(***************************************************************************)
EXTENDS Integers, FiniteSets

CONSTANTS Runners,
          NoRunner,     \* nobody holds SQLite's write lock
          N             \* versions are 1..N: "must be unique and sequential"

ASSUME NAssumption == N \in Nat
ASSUME RunnersAssumption == NoRunner \notin Runners

Versions == 1..N

VARIABLES
  records, effects,     \* committed: the rows of _migrations; how often each
                        \*   migration's changes are in the schema
  txRecords, txEffects, \* the same as the writing transaction sees them
  writer,               \* who holds the write lock
  pc,                   \* each runner: where it is in its call
  down,                 \* does it take migrations back?
  todo,                 \* the versions its loop has still to treat
  known,                \* the migrations registered in its build are 1..known
  goal                  \* history: the version its call is to end at

db      == <<records, effects>>
tx      == <<txRecords, txEffects, writer>>
callVars == <<down, known, goal>>
vars    == <<db, tx, pc, todo, callVars>>

TypeOK ==
  /\ records \subseteq Versions /\ txRecords \subseteq Versions
  /\ effects \in [Versions -> Int] /\ txEffects \in [Versions -> Int]
  /\ writer \in Runners \cup {NoRunner}
  /\ pc \in [Runners -> {"idle", "ready", "changed", "recorded"}]
  /\ down \in [Runners -> BOOLEAN]
  /\ todo \in [Runners -> SUBSET Versions]
  /\ known \in [Runners -> 0..N]
  /\ goal \in [Runners -> 0..N]
  /\ \A r \in Runners : (writer = r) <=> pc[r] \in {"changed", "recorded"}

Init ==
  /\ records = {} /\ effects = [v \in Versions |-> 0]
  /\ txRecords = records /\ txEffects = effects /\ writer = NoRunner
  /\ pc = [r \in Runners |-> "idle"]
  /\ down = [r \in Runners |-> FALSE]
  /\ todo = [r \in Runners |-> {}]
  /\ known = [r \in Runners |-> 0]
  /\ goal = [r \in Runners |-> 0]

Go(r, where) == pc' = [pc EXCEPT ![r] = where]

(* getCurrentVersion(): COALESCE(MAX(version), 0).                         *)
IsCurrent(v) == v \in records \cup {0} /\ \A u \in records : u <= v

NewestButOne(S, n) == {v \in S : Cardinality({u \in S : u >= v}) < n}  \* slip

(* The n most recent of a set of versions.                                 *)
Newest(S, n) == {v \in S : Cardinality({u \in S : u > v}) < n}

(* The version a loop treats next: registerMigration() sorts, so going up  *)
(* it is the least, going down the greatest.                               *)
IsNext(r, v) ==
  /\ v \in todo[r]
  /\ \A u \in todo[r] : IF down[r] THEN u <= v ELSE v <= u

Busy == \E r \in Runners : pc[r] # "idle"

-----------------------------------------------------------------------------
(* A call reads the version or the applied rows and fixes its loop.        *)
Begin(r, isDown, k, versions, end) ==
  /\ Go(r, "ready")
  /\ down' = [down EXCEPT ![r] = isDown]
  /\ todo' = [todo EXCEPT ![r] = versions]
  /\ known' = [known EXCEPT ![r] = k]
  /\ goal' = [goal EXCEPT ![r] = end]
  /\ UNCHANGED <<db, tx>>

(* runPending() by a build that knows k migrations; migrateTo() upwards is *)
(* the same with a limit.  A target beyond the build's last migration is   *)
(* no error: the call ends well at the last one.                           *)
RunUpTo(r, k, limit) ==
  \E cur \in 0..N :
     /\ IsCurrent(cur)
     /\ Begin(r, FALSE, k, {v \in 1..k : cur < v /\ v <= limit}, limit)

RunPending(r) ==
  /\ pc[r] = "idle" /\ \A s \in Runners : pc[s] # "idle" => ~down[s]
  /\ \E k \in 0..N : RunUpTo(r, k, k)

MigrateUp(r) ==
  /\ pc[r] = "idle" /\ \A s \in Runners : pc[s] # "idle" => ~down[s]
  /\ \E k \in 0..N, target \in 0..N :
        /\ \E cur \in 0..N : IsCurrent(cur) /\ target > cur
        /\ RunUpTo(r, k, IF target < k THEN target ELSE k)

(* rollback(steps), rollbackAll() with steps the number of rows.           *)
Rollback(r) ==
  /\ ~Busy
  /\ \E k \in 0..N, steps \in 0..N, cur \in 0..N :
        /\ IsCurrent(cur)
        /\ Begin(r, TRUE, k, Newest(records, steps),
                 IF steps < cur THEN cur - steps ELSE 0)

(* migrateTo() downwards counts the steps as a difference of versions.     *)
MigrateDown(r) ==
  /\ ~Busy
  /\ \E k \in 0..N, target \in 0..N, cur \in 0..N :
        /\ IsCurrent(cur) /\ target < cur
        /\ Begin(r, TRUE, k, Newest(records, cur - target), target)

-----------------------------------------------------------------------------
SetEffect(f, v, n) == [f EXCEPT ![v] = n]

ChangeOutsideTransaction(r, v) ==       \* slip: no BEGIN
  /\ pc[r] = "ready" /\ IsNext(r, v) /\ v <= known[r] /\ writer = NoRunner
  /\ writer' = r /\ Go(r, "changed")
  /\ effects' = SetEffect(effects, v, effects[v] + (IF down[r] THEN -1 ELSE 1))
  /\ txEffects' = effects' /\ txRecords' = records
  /\ UNCHANGED <<records, todo, callVars>>

(* BEGIN, then up() or down(): its first write takes the lock and sees     *)
(* what is committed by then.  Whether up() minds that its changes are in  *)
(* place already is its own affair.                                        *)
Change(r, v) ==
  /\ pc[r] = "ready" /\ IsNext(r, v) /\ v <= known[r] /\ writer = NoRunner
  /\ writer' = r /\ Go(r, "changed")
  /\ txEffects' = SetEffect(effects, v, effects[v] + (IF down[r] THEN -1 ELSE 1))
  /\ txRecords' = records
  /\ UNCHANGED <<db, todo, callVars>>

(* recordMigration() inserts a row under a primary key; removeMigration-   *)
(* Record() deletes whatever rows there are.                               *)
RecordOrReplace(r, v) ==        \* slip: INSERT OR REPLACE
  /\ pc[r] = "changed" /\ IsNext(r, v)
  /\ Go(r, "recorded")
  /\ txRecords' = IF down[r] THEN txRecords \ {v} ELSE txRecords \cup {v}
  /\ UNCHANGED <<db, txEffects, writer, todo, callVars>>

Record(r, v) ==
  /\ pc[r] = "changed" /\ IsNext(r, v)
  /\ down[r] \/ v \notin txRecords
  /\ Go(r, "recorded")
  /\ txRecords' = IF down[r] THEN txRecords \ {v} ELSE txRecords \cup {v}
  /\ UNCHANGED <<db, txEffects, writer, todo, callVars>>

(* COMMIT; the loop goes on to the next version.                           *)
Commit(r, v) ==
  /\ pc[r] = "recorded" /\ IsNext(r, v)
  /\ records' = txRecords /\ effects' = txEffects
  /\ writer' = NoRunner
  /\ todo' = [todo EXCEPT ![r] = @ \ {v}]
  /\ Go(r, "ready")
  /\ UNCHANGED <<txRecords, txEffects, callVars>>

Finish(r) ==
  /\ pc[r] = "ready" /\ todo[r] = {}
  /\ Go(r, "idle")
  /\ UNCHANGED <<db, tx, todo, callVars>>

(* Any statement may fail, a version may be unknown to the build, the      *)
(* process may crash: the transaction, if one is open, is rolled back and  *)
(* the call is over.                                                       *)
Abort(r) ==
  /\ pc[r] # "idle"
  /\ writer' = IF writer = r THEN NoRunner ELSE writer
  /\ Go(r, "idle")
  /\ todo' = [todo EXCEPT ![r] = {}]
  /\ UNCHANGED <<db, txRecords, txEffects, callVars>>

Call(r) == RunPending(r) \/ MigrateUp(r) \/ Rollback(r) \/ MigrateDown(r)
Treat(r, v) == Change(r, v) \/ Record(r, v) \/ Commit(r, v)

Next == \E r \in Runners :
          \/ Call(r) \/ Finish(r) \/ Abort(r)
          \/ \E v \in Versions : Treat(r, v)

Spec == Init /\ [][Next]_vars
-----------------------------------------------------------------------------
(* The rows of _migrations tell the truth: a migration's changes are in    *)
(* the schema exactly once if it has a row and not at all otherwise,       *)
(* whoever crashed, failed or raced; only the primary key stops a runner   *)
(* with a stale version from applying a migration again.                   *)
RecordsTellEffects ==
  \A v \in Versions : effects[v] = IF v \in records THEN 1 ELSE 0

(* "applied in order": the recorded versions are 1..k for some k, so that  *)
(* no migration runs on a schema that lacks an earlier one.                *)
AppliedInOrder == \A v \in records : \A u \in 1..v : u \in records

(* A call that ends well has done what its name says: everything up to the *)
(* goal is applied, or nothing beyond it is left ("Migrate to a specific   *)
(* version", "Rollback the last N migrations").                            *)
GoalReached ==
  [][\A r \in Runners :
       pc[r] = "ready" /\ todo[r] = {} /\ pc'[r] = "idle"
         => IF down[r] THEN records = 1..goal[r] ELSE 1..goal[r] \subseteq records]_vars

(* Every commit is one step of the abstract history.                       *)
History == INSTANCE SchemaHistory WITH applied <- records
ImplementsSchemaHistory == History!SHSpec
=============================================================================

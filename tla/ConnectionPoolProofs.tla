------------------------ MODULE ConnectionPoolProofs ------------------------
(* Proofs about ConnectionPool, for every set of threads, pool size and    *)
(* counter width.                                                          *)
EXTENDS ConnectionPool, SequenceTheorems, FiniteSetTheorems, TLAPS

(* A thread holds a connection exactly while it is past getConnection.     *)
HeldWhileUsing == \A t \in Threads : pc[t] = "using" <=> held[t] # NoConn

(* inTransaction_ errs on one side only: SQLite never has a transaction    *)
(* open that the flag does not know of.                                    *)
FlagCoversTx == \A c \in Conns : dbTx[c] => flagTx[c]

IInv == /\ TypeOK
        /\ HeldWhileUsing
        /\ FlagCoversTx
        /\ ExclusiveOwnership
        /\ PooledConnectionsClean

-----------------------------------------------------------------------------
LEMMA CountersType ==
  ASSUME NEW n \in 0 .. CountMod - 1
  PROVE  Inc(n) \in 0 .. CountMod - 1 /\ Dec(n) \in 0 .. CountMod - 1
BY SizesAssumption DEF Inc, Dec

(* What the three sequence operations do to the pool's elements.           *)
LEMMA AppendElements ==
  ASSUME NEW s \in Seq(Conns), NEW c \in Conns
  PROVE  /\ Append(s, c) \in Seq(Conns)
         /\ DOMAIN Append(s, c) = 1 .. Len(s) + 1
         /\ \A i \in 1 .. Len(s) : Append(s, c)[i] = s[i]
         /\ Append(s, c)[Len(s) + 1] = c
OBVIOUS

LEMMA TailElements ==
  ASSUME NEW s \in Seq(Conns), s # <<>>
  PROVE  /\ Tail(s) \in Seq(Conns)
         /\ Head(s) \in Conns
         /\ DOMAIN Tail(s) = 1 .. Len(s) - 1
         /\ \A i \in 1 .. Len(s) - 1 : Tail(s)[i] = s[i + 1]
         /\ Head(s) = s[1]
         /\ DOMAIN s = 1 .. Len(s) /\ Len(s) \in Nat \ {0}
OBVIOUS

LEMMA ConcatElements ==
  ASSUME NEW s \in Seq(Conns), NEW n \in Nat, NEW new \in [1..n -> Conns]
  PROVE  /\ s \o new \in Seq(Conns)
         /\ DOMAIN (s \o new) = 1 .. Len(s) + n
         /\ \A i \in 1 .. Len(s) : (s \o new)[i] = s[i]
         /\ \A i \in 1 .. n : (s \o new)[Len(s) + i] = new[i]
         /\ DOMAIN s = 1 .. Len(s) /\ Len(s) \in Nat
<1>1. new \in Seq(Conns) /\ Len(new) = n
  OBVIOUS
<1> QED BY <1>1

-----------------------------------------------------------------------------
LEMMA EmptyPool == pool = <<>> => pool \in Seq(Conns) /\ DOMAIN pool = {} /\ Pooled = {}
<1>1. DOMAIN <<>> = {}
  OBVIOUS
<1> QED BY <1>1 DEF Pooled

LEMMA EmptyPoolNext == pool' = <<>> => pool' \in Seq(Conns) /\ DOMAIN pool' = {} /\ Pooled' = {}
<1>1. DOMAIN <<>> = {}
  OBVIOUS
<1> QED BY <1>1 DEF Pooled

LEMMA InitIInv == Init => IInv
<1> SUFFICES ASSUME Init PROVE IInv
  OBVIOUS
<1>1. pool \in Seq(Conns) /\ DOMAIN pool = {} /\ Pooled = {}
  BY EmptyPool DEF Init
<1>2. TypeOK
  <2>1. 0 \in 0 .. CountMod - 1
    BY SizesAssumption
  <2> QED BY <1>1, <2>1, Zenon DEF Init, TypeOK
<1>3. HeldWhileUsing /\ FlagCoversTx /\ Holders = {}
  BY DEF Init, HeldWhileUsing, FlagCoversTx, Holders
<1> QED
  BY <1>1, <1>2, <1>3 DEF IInv, ExclusiveOwnership, PooledConnectionsClean

LEMMA InitializeIInv == IInv /\ Initialize => IInv'
<1> SUFFICES ASSUME IInv, Initialize PROVE IInv'
  OBVIOUS
<1> USE DEF IInv
<1>1. PICK n \in 0..PoolSize : CreateConnections(n) /\ initialized' = (n = PoolSize)
  BY DEF Initialize
<1>2. PICK new \in [1..n -> Fresh] :
        /\ \A i, j \in 1..n : i # j => new[i] # new[j]
        /\ pool' = pool \o new
        /\ totalCreated' = (totalCreated + n) % CountMod
        /\ flagTx' = [c \in Conns |-> c \notin {new[i] : i \in 1..n} /\ flagTx[c]]
        /\ dbTx' = [c \in Conns |-> c \notin {new[i] : i \in 1..n} /\ dbTx[c]]
        /\ missed' = (missed \/ (n > 0 /\ Waiting # {}))
  BY <1>1 DEF CreateConnections
<1>3. n \in Nat /\ new \in [1..n -> Conns]
  BY SizesAssumption, <1>2 DEF Fresh
<1>4. /\ pool' \in Seq(Conns)
      /\ DOMAIN pool' = 1 .. Len(pool) + n
      /\ \A i \in 1 .. Len(pool) : pool'[i] = pool[i]
      /\ \A i \in 1 .. n : pool'[Len(pool) + i] = new[i]
      /\ DOMAIN pool = 1 .. Len(pool) /\ Len(pool) \in Nat
  BY <1>2, <1>3, ConcatElements DEF TypeOK
<1>5. \A i \in DOMAIN pool' :
         \/ i \in 1 .. Len(pool) /\ pool'[i] = pool[i] /\ pool[i] \in Pooled
         \/ \E j \in 1 .. n : i = Len(pool) + j /\ pool'[i] = new[j]
  <2> SUFFICES ASSUME NEW i \in DOMAIN pool'
               PROVE  \/ i \in 1 .. Len(pool) /\ pool'[i] = pool[i] /\ pool[i] \in Pooled
                      \/ \E j \in 1 .. n : i = Len(pool) + j /\ pool'[i] = new[j]
    OBVIOUS
  <2>0. CASE i \in 1 .. Len(pool)
    BY <2>0, <1>4 DEF Pooled
  <2>1. CASE i \notin 1 .. Len(pool)
    <3>1. i - Len(pool) \in 1 .. n /\ i = Len(pool) + (i - Len(pool))
      BY <2>1, <1>3, <1>4
    <3> QED BY <3>1, <1>4
  <2> QED BY <2>0, <2>1
<1>6. \A i \in 1 .. n : new[i] \notin Pooled /\ \A t \in Holders : new[i] # held[t]
  BY <1>2 DEF Fresh, Live
<1>7. UNCHANGED <<activeCount, pc, expired, held>>
  BY DEF Initialize, thrVars
<1>8. TypeOK'
  <2>1. totalCreated' \in 0 .. CountMod - 1
    BY <1>2, <1>3, SizesAssumption DEF TypeOK
  <2>2. flagTx' \in [Conns -> BOOLEAN] /\ dbTx' \in [Conns -> BOOLEAN]
    BY <1>2 DEF TypeOK
  <2>3. missed' \in BOOLEAN /\ initialized' \in BOOLEAN
    BY <1>1, <1>2 DEF TypeOK
  <2> QED BY <2>1, <2>2, <2>3, <1>4, <1>7 DEF TypeOK
<1>9. HeldWhileUsing' /\ FlagCoversTx'
  BY <1>2, <1>7 DEF HeldWhileUsing, FlagCoversTx, TypeOK
<1>10. ExclusiveOwnership'
  <2>1. ASSUME NEW i \in DOMAIN pool', NEW j \in DOMAIN pool', i # j
        PROVE  pool'[i] # pool'[j]
    <3>1. CASE i \in 1 .. Len(pool) /\ j \in 1 .. Len(pool)
      BY <3>1, <2>1, <1>4 DEF ExclusiveOwnership
    <3>2. CASE i \in 1 .. Len(pool) /\ j \notin 1 .. Len(pool)
      BY <3>2, <1>5, <1>6
    <3>3. CASE i \notin 1 .. Len(pool) /\ j \in 1 .. Len(pool)
      BY <3>3, <1>5, <1>6
    <3>4. CASE i \notin 1 .. Len(pool) /\ j \notin 1 .. Len(pool)
      <4>1. PICK k \in 1 .. n, l \in 1 .. n : i = Len(pool) + k /\ j = Len(pool) + l
        BY <3>4, <1>5
      <4> QED BY <4>1, <2>1, <1>2, <1>4
    <3> QED BY <3>1, <3>2, <3>3, <3>4
  <2>2. Holders' = Holders
    BY <1>7 DEF Holders
  <2>3. ASSUME NEW t \in Holders PROVE held[t] \notin Pooled'
    <3> SUFFICES ASSUME NEW i \in DOMAIN pool', held[t] = pool'[i] PROVE FALSE
      BY DEF Pooled
    <3>1. CASE i \in 1 .. Len(pool)
      BY <3>1, <1>4 DEF ExclusiveOwnership, Pooled
    <3>2. CASE i \notin 1 .. Len(pool)
      BY <3>2, <1>5, <1>6
    <3> QED BY <3>1, <3>2
  <2> QED BY <2>1, <2>2, <2>3, <1>7 DEF ExclusiveOwnership
<1>11. PooledConnectionsClean'
  <2> SUFFICES ASSUME NEW i \in DOMAIN pool' PROVE ~dbTx'[pool'[i]]
    BY DEF PooledConnectionsClean, Pooled
  <2>1. CASE i \in 1 .. Len(pool)
    <3>1. pool[i] \in Conns /\ pool[i] \in Pooled /\ pool'[i] = pool[i]
      BY <2>1, <1>4 DEF Pooled, TypeOK
    <3> QED BY <3>1, <1>2 DEF PooledConnectionsClean
  <2>2. CASE i \notin 1 .. Len(pool)
    <3>1. PICK j \in 1 .. n : pool'[i] = new[j]
      BY <2>2, <1>5
    <3>2. new[j] \in Conns /\ new[j] \in {new[k] : k \in 1 .. n}
      BY <1>3
    <3> QED BY <3>1, <3>2, <1>2
  <2> QED BY <2>1, <2>2
<1> QED BY <1>8, <1>9, <1>10, <1>11

LEMMA ShutdownIInv == IInv /\ Shutdown => IInv'
<1> SUFFICES ASSUME IInv, Shutdown PROVE IInv'
  OBVIOUS
<1>1. pool' \in Seq(Conns) /\ DOMAIN pool' = {} /\ Pooled' = {}
  BY EmptyPoolNext DEF Shutdown
<1>2. TypeOK'
  <2>1. 0 \in 0 .. CountMod - 1
    BY SizesAssumption
  <2>2. UNCHANGED <<pc, expired, held, flagTx, dbTx, missed>> /\ initialized' = FALSE
    BY DEF Shutdown, thrVars, txVars
  <2> QED BY <1>1, <2>1, <2>2 DEF IInv, Shutdown, TypeOK
<1>3. HeldWhileUsing' /\ FlagCoversTx' /\ Holders' = Holders
  BY DEF IInv, Shutdown, HeldWhileUsing, FlagCoversTx, Holders, thrVars, txVars
<1>4. \A t, u \in Holders' : t # u => held'[t] # held'[u]
  BY <1>3 DEF IInv, Shutdown, ExclusiveOwnership, thrVars
<1> QED
  BY <1>1, <1>2, <1>3, <1>4 DEF IInv, ExclusiveOwnership, PooledConnectionsClean

(* Popping the front moves one connection from the pool to the caller.     *)
LEMMA TakeIInv ==
  ASSUME NEW t \in Threads, IInv, pc[t] # "using", Take(t)
  PROVE  IInv'
<1> USE DEF IInv
<1>1. /\ pool' \in Seq(Conns)
      /\ Head(pool) \in Conns
      /\ DOMAIN pool' = 1 .. Len(pool) - 1
      /\ \A i \in 1 .. Len(pool) - 1 : pool'[i] = pool[i + 1]
      /\ Head(pool) = pool[1]
      /\ DOMAIN pool = 1 .. Len(pool) /\ Len(pool) \in Nat \ {0}
  BY TailElements DEF Take, TypeOK
<1>2. TypeOK'
  BY <1>1, CountersType DEF Take, TypeOK, txVars
<1>3. held'[t] = Head(pool) /\ \A u \in Threads \ {t} : held'[u] = held[u]
  BY DEF Take, TypeOK
<1>4. pool[1] # NoConn /\ pool[1] \in Pooled
  BY <1>1, ConnsAssumption DEF Pooled
<1>5. HeldWhileUsing' /\ FlagCoversTx'
  BY <1>1, <1>3, <1>4 DEF Take, TypeOK, HeldWhileUsing, FlagCoversTx, txVars
<1>6. Pooled' \subseteq Pooled \ {pool[1]}
  BY <1>1 DEF Pooled, ExclusiveOwnership
<1>7. ExclusiveOwnership'
  <2>1. ASSUME NEW i \in DOMAIN pool', NEW j \in DOMAIN pool', i # j
        PROVE  pool'[i] # pool'[j]
    <3>1. i + 1 \in DOMAIN pool /\ j + 1 \in DOMAIN pool /\ i + 1 # j + 1
      BY <1>1, <2>1
    <3> QED BY <3>1, <1>1 DEF ExclusiveOwnership
  <2>2. \A u \in Holders' : u = t \/ u \in Holders
    BY <1>3 DEF Holders
  <2> QED BY <2>1, <2>2, <1>1, <1>3, <1>4, <1>6 DEF ExclusiveOwnership, Holders
<1>8. PooledConnectionsClean'
  BY <1>6 DEF Take, PooledConnectionsClean, txVars
<1> QED BY <1>2, <1>5, <1>7, <1>8

(* A returned connection is clean: the flag covers whatever SQLite has     *)
(* open, and a rollback that fails had nothing to undo.                    *)
LEMMA ReleaseIInv ==
  ASSUME NEW t \in Threads, IInv, Release(t)
  PROVE  IInv'
<1> USE DEF IInv
<1> DEFINE c == held[t]
<1>1. t \in Holders /\ c \in Conns /\ c \notin Pooled
  BY DEF Release, HeldWhileUsing, TypeOK, Holders, ExclusiveOwnership
<1>2. /\ pool' \in Seq(Conns)
      /\ DOMAIN pool' = 1 .. Len(pool) + 1
      /\ \A i \in 1 .. Len(pool) : pool'[i] = pool[i]
      /\ pool'[Len(pool) + 1] = c
      /\ DOMAIN pool = 1 .. Len(pool) /\ Len(pool) \in Nat
  BY <1>1, AppendElements DEF Release, TypeOK
<1>3. /\ dbTx' \in [Conns -> BOOLEAN] /\ flagTx' \in [Conns -> BOOLEAN]
      /\ ~dbTx'[c]
      /\ \A d \in Conns \ {c} : dbTx'[d] = dbTx[d] /\ flagTx'[d] = flagTx[d]
  BY <1>1 DEF Release, RolledBack, TypeOK, FlagCoversTx, txVars
<1>4. /\ held' \in [Threads -> Conns \cup {NoConn}]
      /\ held'[t] = NoConn
      /\ \A u \in Threads \ {t} : held'[u] = held[u]
  BY DEF Release, TypeOK
<1>5. /\ pc' \in [Threads -> {"idle", "waiting", "woken", "using"}]
      /\ pc'[t] # "using"
      /\ \A u \in Threads \ {t} : pc'[u] = "using" <=> pc[u] = "using"
  <2>1. CASE Waiting = {}
    BY <2>1 DEF Release, TypeOK
  <2>2. CASE Waiting # {}
    <3>1. PICK w \in Waiting : pc' = [pc EXCEPT ![t] = "idle", ![w] = "woken"]
      BY <2>2 DEF Release
    <3> QED BY <3>1 DEF Waiting, TypeOK
  <2> QED BY <2>1, <2>2
<1>6. TypeOK'
  BY <1>2, <1>3, <1>4, <1>5, CountersType DEF Release, TypeOK
<1>7. HeldWhileUsing' /\ FlagCoversTx'
  BY <1>1, <1>3, <1>4, <1>5 DEF HeldWhileUsing, FlagCoversTx
<1>8. Pooled' = Pooled \cup {c}
  BY <1>2 DEF Pooled
<1>9. Holders' = Holders \ {t}
  BY <1>4 DEF Holders
<1>10. ExclusiveOwnership'
  <2>1. ASSUME NEW i \in DOMAIN pool', NEW j \in DOMAIN pool', i # j
        PROVE  pool'[i] # pool'[j]
    <3>1. (i \in DOMAIN pool \/ i = Len(pool) + 1) /\ (j \in DOMAIN pool \/ j = Len(pool) + 1)
      BY <1>2
    <3>2. \A k \in DOMAIN pool : pool[k] # c
      BY <1>1 DEF Pooled
    <3> QED BY <3>1, <3>2, <2>1, <1>2 DEF ExclusiveOwnership
  <2> QED BY <2>1, <1>1, <1>4, <1>8, <1>9 DEF ExclusiveOwnership, Holders
<1>11. PooledConnectionsClean'
  <2>1. \A d \in Pooled : d \in Conns /\ d # c
    BY <1>1, <1>2 DEF Pooled, TypeOK
  <2> QED BY <2>1, <1>3, <1>8 DEF PooledConnectionsClean
<1> QED BY <1>6, <1>7, <1>10, <1>11

(* Steps that only move a thread through getConnection.                    *)
LEMMA WaitingIInv ==
  ASSUME NEW t \in Threads, IInv,
         \/ StartWaiting(t) \/ DeadlinePasses(t) \/ WakeOnTimeout(t)
         \/ WakeSpuriously(t) \/ ReturnTimeout(t) \/ WaitAgain(t)
  PROVE  IInv'
<1>1. UNCHANGED <<mgrVars, held, txVars>>
  BY DEF StartWaiting, DeadlinePasses, WakeOnTimeout, WakeSpuriously,
         ReturnTimeout, WaitAgain
<1>2. /\ pc' \in [Threads -> {"idle", "waiting", "woken", "using"}]
      /\ \A u \in Threads : pc'[u] = "using" <=> pc[u] = "using"
  BY DEF IInv, TypeOK, StartWaiting, DeadlinePasses, WakeOnTimeout,
         WakeSpuriously, ReturnTimeout, WaitAgain, Wake
<1>3. expired' \in [Threads -> BOOLEAN] /\ missed' \in BOOLEAN
  BY DEF IInv, TypeOK, StartWaiting, DeadlinePasses, WakeOnTimeout,
         WakeSpuriously, ReturnTimeout, WaitAgain
<1> QED
  BY <1>1, <1>2, <1>3
     DEF IInv, TypeOK, HeldWhileUsing, FlagCoversTx, ExclusiveOwnership,
         PooledConnectionsClean, Pooled, Holders, mgrVars, txVars

(* Calls of a holder on its own connection touch no pooled one.            *)
LEMMA TransactionIInv ==
  ASSUME NEW t \in Threads, IInv,
         BeginTransaction(t) \/ Commit(t) \/ Rollback(t) \/ AutoRollback(t)
  PROVE  IInv'
<1> USE DEF IInv
<1>1. held[t] \in Conns /\ held[t] \notin Pooled
  BY DEF BeginTransaction, Commit, Rollback, AutoRollback, HeldWhileUsing,
         TypeOK, Holders, ExclusiveOwnership
<1>2. UNCHANGED <<mgrVars, thrVars, missed>>
  BY DEF BeginTransaction, Commit, Rollback, AutoRollback
<1>3. /\ dbTx' \in [Conns -> BOOLEAN] /\ flagTx' \in [Conns -> BOOLEAN]
      /\ \A c \in Conns : dbTx'[c] => flagTx'[c]
      /\ \A c \in Conns \ {held[t]} : dbTx'[c] = dbTx[c]
  BY <1>1 DEF BeginTransaction, Commit, Rollback, AutoRollback, RolledBack,
              TypeOK, FlagCoversTx
<1>4. Pooled \subseteq Conns
  BY DEF Pooled, TypeOK
<1> QED
  BY <1>1, <1>2, <1>3, <1>4
     DEF TypeOK, HeldWhileUsing, FlagCoversTx, ExclusiveOwnership,
         PooledConnectionsClean, Pooled, Holders, mgrVars, thrVars

LEMMA NextIInv == IInv /\ [Next]_vars => IInv'
<1> SUFFICES ASSUME IInv, [Next]_vars PROVE IInv'
  OBVIOUS
<1>1. CASE Initialize
  BY <1>1, InitializeIInv
<1>2. CASE Shutdown
  BY <1>2, ShutdownIInv
<1>3. ASSUME NEW t \in Threads, Getting(t) PROVE IInv'
  <2>1. CASE GetAtOnce(t) \/ ResumeAndTake(t)
    BY <2>1, TakeIInv DEF GetAtOnce, ResumeAndTake
  <2> QED BY <1>3, <2>1, WaitingIInv DEF Getting
<1>4. ASSUME NEW t \in Threads, Using(t) PROVE IInv'
  BY <1>4, ReleaseIInv, TransactionIInv DEF Using
<1>5. CASE UNCHANGED vars
  BY <1>5 DEF vars, mgrVars, thrVars, txVars, IInv, TypeOK, HeldWhileUsing,
              FlagCoversTx, ExclusiveOwnership, PooledConnectionsClean, Pooled,
              Holders
<1> QED BY <1>1, <1>2, <1>3, <1>4, <1>5 DEF Next

LEMMA IInvHolds == Spec => []IInv
BY InitIInv, NextIInv, PTL DEF Spec

(* The variables keep their types: in particular the counters stay within  *)
(* the width of size_t, wrap included.                                     *)
THEOREM TypeCorrect == Spec => []TypeOK
<1>1. IInv => TypeOK
  BY DEF IInv
<1> QED BY <1>1, IInvHolds, PTL

(* A connection never has two owners, for any number of threads.           *)
THEOREM ExclusiveOwnershipHolds == Spec => []ExclusiveOwnership
<1>1. IInv => ExclusiveOwnership
  BY DEF IInv
<1> QED BY <1>1, IInvHolds, PTL

(* No transaction leaks from one holder of a connection to the next.       *)
THEOREM PooledConnectionsCleanHolds == Spec => []PooledConnectionsClean
<1>1. IInv => PooledConnectionsClean
  BY DEF IInv
<1> QED BY <1>1, IInvHolds, PTL
-----------------------------------------------------------------------------
(* Each step is a step of LeasePool or leaves free and lease alone.        *)
LEMMA TakeIsAcquire ==
  ASSUME NEW t \in Threads, IInv, pc[t] # "using", Take(t)
  PROVE  Lease!Acquire(t)
<1>1. /\ Head(pool) = pool[1]
      /\ DOMAIN pool' = 1 .. Len(pool) - 1
      /\ \A i \in 1 .. Len(pool) - 1 : pool'[i] = pool[i + 1]
      /\ DOMAIN pool = 1 .. Len(pool) /\ Len(pool) \in Nat \ {0}
  BY TailElements DEF Take, IInv, TypeOK
<1>2. Head(pool) \in Pooled /\ held[t] = NoConn
  BY <1>1 DEF Pooled, IInv, HeldWhileUsing
<1>3. Pooled' = Pooled \ {Head(pool)}
  <2>1. Pooled' \subseteq Pooled \ {Head(pool)}
    BY <1>1 DEF Pooled, IInv, ExclusiveOwnership
  <2>2. ASSUME NEW i \in DOMAIN pool, pool[i] # Head(pool) PROVE pool[i] \in Pooled'
    <3>1. i - 1 \in 1 .. Len(pool) - 1 /\ pool'[i - 1] = pool[i]
      BY <1>1, <2>2
    <3> QED BY <3>1, <1>1 DEF Pooled
  <2> QED BY <2>1, <2>2 DEF Pooled
<1> QED BY <1>2, <1>3 DEF Lease!Acquire, Take

LEMMA ReleaseIsReturn ==
  ASSUME NEW t \in Threads, IInv, Release(t)
  PROVE  Lease!Return(t)
<1>1. held[t] # NoConn /\ held[t] \in Conns /\ pool \in Seq(Conns)
  BY DEF Release, IInv, HeldWhileUsing, TypeOK
<1>2. /\ DOMAIN pool' = 1 .. Len(pool) + 1
      /\ \A i \in 1 .. Len(pool) : pool'[i] = pool[i]
      /\ pool'[Len(pool) + 1] = held[t]
      /\ DOMAIN pool = 1 .. Len(pool) /\ Len(pool) \in Nat
  BY <1>1, AppendElements DEF Release
<1>3. Pooled' = Pooled \cup {held[t]}
  BY <1>2 DEF Pooled
<1> QED BY <1>1, <1>3 DEF Lease!Return, Release

LEMMA InitializeIsSupply == IInv /\ Initialize => Lease!Supply
<1> SUFFICES ASSUME IInv, Initialize PROVE Lease!Supply
  OBVIOUS
<1>1. PICK n \in 0..PoolSize : CreateConnections(n)
  BY DEF Initialize
<1>2. PICK new \in [1..n -> Fresh] : pool' = pool \o new
  BY <1>1 DEF CreateConnections
<1>3. n \in Nat /\ new \in [1..n -> Conns]
  BY SizesAssumption DEF Fresh
<1>4. /\ DOMAIN pool' = 1 .. Len(pool) + n
      /\ \A i \in 1 .. Len(pool) : pool'[i] = pool[i]
      /\ \A i \in 1 .. n : pool'[Len(pool) + i] = new[i]
      /\ DOMAIN pool = 1 .. Len(pool) /\ Len(pool) \in Nat
  BY <1>2, <1>3, ConcatElements DEF IInv, TypeOK
<1> DEFINE added == {new[i] : i \in 1 .. n}
<1>5. Pooled' = Pooled \cup added
  <2>1. ASSUME NEW i \in DOMAIN pool' PROVE pool'[i] \in Pooled \cup added
    <3>1. CASE i \in 1 .. Len(pool)
      BY <3>1, <1>4 DEF Pooled
    <3>2. CASE i \notin 1 .. Len(pool)
      <4>1. i - Len(pool) \in 1 .. n /\ i = Len(pool) + (i - Len(pool))
        BY <3>2, <1>3, <1>4
      <4> QED BY <4>1, <1>4
    <3> QED BY <3>1, <3>2
  <2>2. ASSUME NEW i \in 1 .. Len(pool) PROVE pool[i] \in Pooled'
    <3>1. i \in DOMAIN pool'
      BY <1>3, <1>4
    <3> QED BY <3>1, <1>4 DEF Pooled
  <2>3. ASSUME NEW i \in 1 .. n PROVE new[i] \in Pooled'
    <3>1. Len(pool) + i \in DOMAIN pool'
      BY <1>3, <1>4
    <3> QED BY <3>1, <1>4 DEF Pooled
  <2> QED BY <2>1, <2>2, <2>3, <1>4 DEF Pooled
<1>6. added \in SUBSET (Conns \ (Pooled \cup Lease!Leased))
  BY <1>2, <1>3 DEF Fresh, Live, Lease!Leased, Holders
<1>7. UNCHANGED held
  BY DEF Initialize, thrVars
<1> QED BY <1>5, <1>6, <1>7 DEF Lease!Supply

(* The pool is an exclusive-lease service: everything a client can see of  *)
(* a ConnectionManager, LeasePool allows.                                  *)
THEOREM ImplementationHolds == Spec => ImplementsLeasePool
<1>1. Init => Lease!LPInit
  BY EmptyPool DEF Init, Lease!LPInit
<1>2. IInv /\ [Next]_vars => [Lease!LPNext]_(Lease!lpVars)
  <2> SUFFICES ASSUME IInv, [Next]_vars PROVE [Lease!LPNext]_(Lease!lpVars)
    OBVIOUS
  <2>1. CASE Initialize
    BY <2>1, InitializeIsSupply DEF Lease!LPNext
  <2>2. CASE Shutdown
    BY <2>2, EmptyPoolNext DEF Shutdown, thrVars, Lease!Discard, Lease!LPNext
  <2>3. ASSUME NEW t \in Threads, Getting(t) PROVE [Lease!LPNext]_(Lease!lpVars)
    <3>1. CASE GetAtOnce(t) \/ ResumeAndTake(t)
      BY <3>1, TakeIsAcquire DEF GetAtOnce, ResumeAndTake, Lease!LPNext
    <3>2. CASE UNCHANGED <<pool, held>>
      BY <3>2 DEF Lease!lpVars, Pooled
    <3> QED
      BY <2>3, <3>1, <3>2
         DEF Getting, StartWaiting, DeadlinePasses, WakeOnTimeout,
             WakeSpuriously, ReturnTimeout, WaitAgain, mgrVars
  <2>4. ASSUME NEW t \in Threads, Using(t) PROVE [Lease!LPNext]_(Lease!lpVars)
    <3>1. CASE Release(t)
      BY <3>1, ReleaseIsReturn DEF Lease!LPNext
    <3>2. CASE UNCHANGED <<pool, held>>
      BY <3>2 DEF Lease!lpVars, Pooled
    <3> QED
      BY <2>4, <3>1, <3>2
         DEF Using, BeginTransaction, Commit, Rollback, AutoRollback, mgrVars, thrVars
  <2>5. CASE UNCHANGED vars
    BY <2>5 DEF vars, mgrVars, thrVars, Lease!lpVars, Pooled
  <2> QED BY <2>1, <2>2, <2>3, <2>4, <2>5 DEF Next
<1> QED BY <1>1, <1>2, IInvHolds, PTL DEF Spec, ImplementsLeasePool, Lease!LPSpec
-----------------------------------------------------------------------------
(* Remainders: what they are, and that they are unique.                    *)
LEMMA Remainder ==
  ASSUME NEW M \in Nat \ {0}, NEW x \in Int
  PROVE  x % M \in 0 .. M - 1 /\ \E q \in Int : x = (x % M) + q * M
<1>1. x % M \in 0 .. M - 1 /\ x = M * (x \div M) + (x % M) /\ (x \div M) \in Int
  OBVIOUS
<1>2. x = (x % M) + (x \div M) * M
  BY <1>1
<1> QED
  BY <1>1, <1>2

LEMMA Positive ==
  ASSUME NEW M \in Nat \ {0}, NEW d \in Int, d > 0
  PROVE  d * M >= M
<1>1. d * M = (d-1) * M + M
  OBVIOUS
<1>2. d - 1 \in Nat /\ (d-1) * M >= 0
  OBVIOUS
<1>3. (d-1) * M \in Int
  OBVIOUS
<1> QED
  BY <1>1, <1>2, <1>3

LEMMA RemainderUnique ==
  ASSUME NEW M \in Nat \ {0}, NEW x \in Int, NEW r \in 0 .. M - 1, NEW k \in Int, x = r + k * M
  PROVE  x % M = r
<1>1. PICK q \in Int : x = (x % M) + q * M
  BY Remainder
<1> DEFINE s == x % M
<1>2. s \in 0 .. M - 1
  BY Remainder
<1> HIDE DEF s
<1>3. (k - q) * M = s - r
  BY <1>1, <1>2 DEF s
<1>4. CASE k - q > 0
  <2>1. (k - q) * M >= M
    BY <1>4, Positive
  <2> QED
    BY <1>2, <1>3, <2>1
<1>5. CASE q - k > 0
  <2>1. (q - k) * M >= M
    BY <1>5, Positive
  <2>2. (q - k) * M = r - s
    BY <1>1, <1>2 DEF s
  <2> QED
    BY <1>2, <2>1, <2>2
<1>6. CASE k = q
  <2>1. k * M \in Int
    OBVIOUS
  <2> QED
    BY <1>1, <1>2, <1>6, <2>1 DEF s
<1> QED
  BY <1>4, <1>5, <1>6

(* CountersAgree without the remainder: the sums differ by a multiple.     *)
Balanced(size, active, total) == \E k \in Int : size + active = total + k * CountMod

LEMMA BalancedAgrees ==
  ASSUME NEW size \in Nat, NEW active \in Nat, NEW total \in 0 .. CountMod - 1
  PROVE  Balanced(size, active, total) <=> total = (size + active) % CountMod
<1>1. CountMod \in Nat \ {0} /\ size + active \in Int
  BY SizesAssumption
<1>2. ASSUME NEW k \in Int, size + active = total + k * CountMod
      PROVE  total = (size + active) % CountMod
  BY <1>1, <1>2, RemainderUnique
<1>3. ASSUME total = (size + active) % CountMod
      PROVE  \E k \in Int : size + active = total + k * CountMod
  BY <1>1, <1>3, Remainder
<1> QED
  BY <1>2, <1>3 DEF Balanced

LEMMA CountsWrap ==
  ASSUME NEW n \in 0 .. CountMod - 1
  PROVE  /\ \E j \in {0, 1} : Inc(n) = n + 1 - j * CountMod
         /\ \E j \in {0, 1} : Dec(n) = n - 1 + j * CountMod
BY SizesAssumption DEF Inc, Dec

(* A connection is taken or returned: the sum stays, up to a wrap.         *)
LEMMA MovedOut ==
  ASSUME NEW size \in Nat, NEW a \in 0 .. CountMod - 1, NEW total \in 0 .. CountMod - 1,
         Balanced(size, a, total)
  PROVE  /\ Balanced(size - 1, Inc(a), total)
         /\ Balanced(size + 1, Dec(a), total)
<1>1. PICK k \in Int : size + a = total + k * CountMod
  BY DEF Balanced
<1>2. /\ CountMod \in Nat /\ a \in Int /\ total \in Int /\ k * CountMod \in Int
      /\ (k-1) * CountMod = k * CountMod - CountMod /\ (k+1) * CountMod = k * CountMod + CountMod
  BY SizesAssumption
<1>3. Balanced(size - 1, Inc(a), total)
  <2>1. CASE Inc(a) = a + 1
    <3>1. size - 1 + Inc(a) = total + k * CountMod
      BY <1>1, <1>2, <2>1
    <3> QED
      BY <3>1 DEF Balanced
  <2>2. CASE Inc(a) = a + 1 - CountMod
    <3>1. size - 1 + Inc(a) = total + (k-1) * CountMod /\ k - 1 \in Int
      BY <1>1, <1>2, <2>2
    <3> QED
      BY <3>1 DEF Balanced
  <2> QED
    BY <1>2, <2>1, <2>2, CountsWrap
<1>4. Balanced(size + 1, Dec(a), total)
  <2>1. CASE Dec(a) = a - 1
    <3>1. size + 1 + Dec(a) = total + k * CountMod
      BY <1>1, <1>2, <2>1
    <3> QED
      BY <3>1 DEF Balanced
  <2>2. CASE Dec(a) = a - 1 + CountMod
    <3>1. size + 1 + Dec(a) = total + (k+1) * CountMod /\ k + 1 \in Int
      BY <1>1, <1>2, <2>2
    <3> QED
      BY <3>1 DEF Balanced
  <2> QED
    BY <1>2, <2>1, <2>2, CountsWrap
<1> QED
  BY <1>3, <1>4

LEMMA SumsAdd ==
  ASSUME NEW l \in Int, NEW n \in Int, NEW a \in Int, NEW t \in Int, NEW u \in Int,
         NEW x \in Int, NEW y \in Int, l + a = t + x, t + n = u + y
  PROVE  l + n + a = u + (y + x)
OBVIOUS

LEMMA InitializeCounts == IInv /\ CountersAgree /\ Initialize => CountersAgree'
<1> SUFFICES ASSUME IInv, CountersAgree, Initialize PROVE CountersAgree'
  OBVIOUS
<1>1. PICK n \in 0..PoolSize : CreateConnections(n)
  BY DEF Initialize
<1>2. PICK new \in [1..n -> Fresh] : pool' = pool \o new /\ totalCreated' = (totalCreated + n) % CountMod
  BY <1>1 DEF CreateConnections
<1>3. /\ n \in Nat /\ new \in Seq(Conns) /\ Len(new) = n /\ activeCount' = activeCount
  BY SizesAssumption, <1>2 DEF Fresh, Initialize
<1>4. /\ Len(pool') = Len(pool) + n /\ Len(pool) \in Nat /\ activeCount \in Nat /\ totalCreated \in Nat
      /\ CountMod \in Nat \ {0}
  BY <1>2, <1>3, SizesAssumption DEF IInv, TypeOK
<1>5. PICK k \in Int : Len(pool) + activeCount = totalCreated + k * CountMod
  <2>1. Len(pool) + activeCount \in Int
    BY <1>4
  <2> QED
    BY <1>4, <2>1, Remainder DEF CountersAgree
<1>6. PICK q \in Int : totalCreated + n = totalCreated' + q * CountMod
  <2>1. totalCreated + n \in Int
    BY <1>3, <1>4
  <2> QED
    BY <1>2, <1>4, <2>1, Remainder
<1>7. totalCreated' \in 0 .. CountMod - 1
  <2>1. totalCreated + n \in Int
    BY <1>3, <1>4
  <2> QED
    BY <1>2, <1>4, <2>1, Remainder
<1>8. /\ Len(pool') + activeCount' = totalCreated' + (q+k) * CountMod /\ q + k \in Int
      /\ Len(pool') \in Nat
  <2>1. /\ k * CountMod \in Int /\ q * CountMod \in Int
        /\ (q+k) * CountMod = q * CountMod + k * CountMod
    BY <1>4
  <2>2. totalCreated' \in Int
    BY <1>4, <1>7
  <2>3. Len(pool) + n + activeCount = totalCreated' + (q * CountMod + k * CountMod)
    <3>1. n \in Int /\ Len(pool) \in Int /\ activeCount \in Int /\ totalCreated \in Int
      BY <1>3, <1>4
    <3> QED
      <4>1. Len(pool) + activeCount = totalCreated + k * CountMod
        BY <1>5
      <4>2. totalCreated + n = totalCreated' + q * CountMod
        BY <1>6
      <4>3. k * CountMod \in Int /\ q * CountMod \in Int
        BY <2>1
      <4> QED
        BY <2>2, <3>1, <4>1, <4>2, <4>3, SumsAdd
  <2> QED
    BY <1>3, <1>4, <2>1, <2>3
<1>9. Balanced(Len(pool'), activeCount', totalCreated')
  BY <1>8 DEF Balanced
<1> QED
  BY <1>3, <1>4, <1>7, <1>8, <1>9, BalancedAgrees DEF CountersAgree

LEMMA NextCounts == IInv /\ CountersAgree /\ [Next]_vars => CountersAgree'
<1> SUFFICES ASSUME IInv, CountersAgree, [Next]_vars PROVE CountersAgree'
  OBVIOUS
<1>1. /\ pool \in Seq(Conns) /\ Len(pool) \in Nat /\ activeCount \in 0 .. CountMod - 1
      /\ totalCreated \in 0 .. CountMod - 1 /\ activeCount \in Nat
      /\ Len(pool') \in Nat /\ activeCount' \in Nat /\ totalCreated' \in 0 .. CountMod - 1
  BY NextIInv, SizesAssumption DEF IInv, TypeOK
<1>2. Balanced(Len(pool), activeCount, totalCreated)
  BY <1>1, BalancedAgrees DEF CountersAgree
<1>3. CASE UNCHANGED <<pool, activeCount, totalCreated>>
  BY <1>3 DEF CountersAgree
<1>4. CASE Shutdown
  <2>1. Len(<<>>) = 0 /\ 0 + 0 = 0 + 0 * CountMod
    BY SizesAssumption
  <2>2. Balanced(Len(pool'), activeCount', totalCreated')
    BY <1>4, <2>1 DEF Shutdown, Balanced
  <2> QED
    BY <1>1, <2>2, BalancedAgrees DEF CountersAgree
<1>5. ASSUME NEW t \in Threads, Take(t) PROVE CountersAgree'
  <2>1. /\ Len(pool') = Len(pool) - 1 /\ activeCount' = Inc(activeCount)
        /\ totalCreated' = totalCreated
    BY <1>1, <1>5 DEF Take
  <2>2. Balanced(Len(pool'), activeCount', totalCreated')
    BY <1>1, <1>2, <2>1, MovedOut
  <2> QED
    BY <1>1, <2>2, BalancedAgrees DEF CountersAgree
<1>6. ASSUME NEW t \in Threads, Release(t) PROVE CountersAgree'
  <2>1. /\ Len(pool') = Len(pool) + 1 /\ activeCount' = Dec(activeCount)
        /\ totalCreated' = totalCreated
    BY <1>1, <1>6 DEF Release
  <2>2. Balanced(Len(pool'), activeCount', totalCreated')
    BY <1>1, <1>2, <2>1, MovedOut
  <2> QED
    BY <1>1, <2>2, BalancedAgrees DEF CountersAgree
<1> QED
  BY <1>3, <1>4, <1>5, <1>6, InitializeCounts
  DEF Next, Getting, Using, GetAtOnce, ResumeAndTake, StartWaiting, DeadlinePasses, WakeOnTimeout,
      WakeSpuriously, ReturnTimeout, WaitAgain, BeginTransaction, Commit, Rollback, AutoRollback,
      vars, mgrVars

(* totalCreated_ is what is pooled plus activeCount_, modulo the width of  *)
(* size_t, although shutdown() zeroes both while connections are on lease  *)
(* and activeCount_ then wraps as they come back.                          *)
THEOREM CountersAgreeHolds == Spec => []CountersAgree
<1>1. Init => CountersAgree
  <2>1. Len(<<>>) = 0 /\ 0 % CountMod = 0
    BY SizesAssumption
  <2> QED
    BY <2>1 DEF Init, CountersAgree
<1> QED
  BY <1>1, NextCounts, IInvHolds, PTL DEF Spec
-----------------------------------------------------------------------------
(* Who sleeps and who is awake, counted.                                   *)
LEMMA WokenCounted ==
  ASSUME NEW S \in SUBSET Threads
  PROVE  IsFiniteSet(S) /\ Cardinality(S) \in Nat
BY ThreadsAssumption, FS_Subset, FS_CardinalityType

LEMMA WokenAdded ==
  ASSUME NEW w \in Threads, w \notin Woken, Woken' = Woken \cup {w}
  PROVE  Cardinality(Woken') = Cardinality(Woken) + 1
BY WokenCounted, FS_AddElement DEF Woken

LEMMA WokenRemoved ==
  ASSUME NEW w \in Woken, Woken' = Woken \ {w}
  PROVE  Cardinality(Woken') = Cardinality(Woken) - 1
BY WokenCounted, FS_RemoveElement DEF Woken

LEMMA NextWakes == IInv /\ NoLostWakeup /\ [Next]_vars => NoLostWakeup'
<1> SUFFICES ASSUME IInv, NoLostWakeup, [Next]_vars, ~missed', Waiting' # {}
             PROVE  Len(pool') <= Cardinality(Woken')
  BY DEF NoLostWakeup
<1>1. /\ pc \in [Threads -> {"idle", "waiting", "woken", "using"}] /\ pool \in Seq(Conns)
      /\ Len(pool) \in Nat
  BY DEF IInv, TypeOK
<1>2. Cardinality(Woken) \in Nat /\ Cardinality(Woken') \in Nat
  <2>1. Woken \in SUBSET Threads /\ Woken' \in SUBSET Threads
    BY DEF Woken
  <2> QED
    BY <2>1, WokenCounted
<1>3. ~missed /\ Waiting # {} => Len(pool) <= Cardinality(Woken)
  BY DEF NoLostWakeup
<1>4. CASE pool' = <<>>
  <2>1. Len(pool') = 0
    BY <1>4
  <2> QED
    BY <1>2, <2>1
<1>5. CASE UNCHANGED <<pool, pc, missed>>
  BY <1>3, <1>5 DEF Waiting, Woken
<1>6. CASE Initialize
  <2>1. PICK n \in 0..PoolSize : CreateConnections(n)
    BY <1>6 DEF Initialize
  <2>2. PICK new \in [1..n -> Fresh] : pool' = pool \o new
    BY <2>1 DEF CreateConnections
  <2>3. missed' = (missed \/ (n > 0 /\ Waiting # {})) /\ n \in Nat
    BY <2>1, SizesAssumption DEF CreateConnections
  <2>4. UNCHANGED pc /\ Waiting' = Waiting
    BY <1>6 DEF Initialize, thrVars, Waiting
  <2>5. ~(n > 0) /\ ~missed
    BY <2>3, <2>4, Zenon
  <2>6. n = 0
    BY <2>3, <2>5
  <2>7. new = <<>> /\ pool \o <<>> = pool
    BY <1>1, <2>2, <2>6
  <2> QED
    BY <1>3, <2>2, <2>4, <2>5, <2>7 DEF Woken
<1>7. ASSUME NEW t \in Threads, Take(t), pc[t] = "idle" \/ pc[t] = "woken"
      PROVE  Len(pool') <= Cardinality(Woken')
  <2>1. /\ Len(pool') = Len(pool) - 1 /\ pc' = [pc EXCEPT ![t] = "using"] /\ missed' = missed
    BY <1>1, <1>7 DEF Take
  <2>2. Waiting' = Waiting
    BY <1>1, <1>7, <2>1 DEF Waiting
  <2>3. CASE pc[t] = "idle"
    <3>1. Woken' = Woken
      BY <1>1, <2>1, <2>3 DEF Woken
    <3> QED
      BY <1>1, <1>2, <1>3, <2>1, <2>2, <3>1
  <2>4. CASE pc[t] = "woken"
    <3>1. Woken' = Woken \ {t} /\ t \in Woken
      BY <1>1, <2>1, <2>4 DEF Woken
    <3>2. Cardinality(Woken') = Cardinality(Woken) - 1
      BY <3>1, WokenRemoved
    <3> QED
      BY <1>1, <1>2, <1>3, <2>1, <2>2, <3>2
  <2> QED
    BY <1>7, <2>3, <2>4
<1>8. ASSUME NEW t \in Threads, WakeOnTimeout(t) \/ WakeSpuriously(t)
      PROVE  Len(pool') <= Cardinality(Woken')
  <2>1. pc[t] = "waiting" /\ pc' = [pc EXCEPT ![t] = "woken"] /\ UNCHANGED <<pool, missed>>
    BY <1>8 DEF WakeOnTimeout, WakeSpuriously, Wake, mgrVars
  <2>2. Woken' = Woken \cup {t} /\ t \notin Woken /\ Waiting' \subseteq Waiting
    BY <1>1, <2>1 DEF Woken, Waiting
  <2>3. Cardinality(Woken') = Cardinality(Woken) + 1
    BY <2>2, WokenAdded
  <2> QED
    BY <1>1, <1>2, <1>3, <2>1, <2>2, <2>3
<1>9. ASSUME NEW t \in Threads, Release(t) PROVE Len(pool') <= Cardinality(Woken')
  <2>1. Len(pool') = Len(pool) + 1 /\ missed' = missed /\ pc[t] = "using"
    BY <1>1, <1>9 DEF Release
  <2>2. CASE Waiting = {}
    <3>1. Waiting' = {}
      BY <1>1, <1>9, <2>2 DEF Release, Waiting
    <3> QED
      BY <3>1
  <2>3. CASE Waiting # {}
    <3>1. PICK w \in Waiting : pc' = [pc EXCEPT ![t] = "idle", ![w] = "woken"]
      BY <1>9, <2>3 DEF Release
    <3>2. w \in Threads /\ Woken' = Woken \cup {w} /\ w \notin Woken
      BY <1>1, <2>1, <3>1 DEF Woken, Waiting
    <3>3. Cardinality(Woken') = Cardinality(Woken) + 1
      BY <3>2, WokenAdded
    <3> QED
      BY <1>1, <1>2, <1>3, <2>1, <2>3, <3>3
  <2> QED
    BY <2>2, <2>3
<1>10. ASSUME NEW t \in Threads, ReturnTimeout(t) PROVE pool' = <<>>
  BY <1>10 DEF ReturnTimeout, mgrVars
<1>11. ASSUME NEW t \in Threads, StartWaiting(t) \/ WaitAgain(t) PROVE pool' = <<>>
  BY <1>11 DEF StartWaiting, WaitAgain, mgrVars
<1>12. ASSUME NEW t \in Threads,
              \/ DeadlinePasses(t) \/ BeginTransaction(t) \/ Commit(t) \/ Rollback(t)
              \/ AutoRollback(t)
       PROVE  UNCHANGED <<pool, pc, missed>>
  BY <1>12 DEF DeadlinePasses, BeginTransaction, Commit, Rollback, AutoRollback, mgrVars, thrVars
<1>13. CASE Shutdown
  BY <1>4, <1>13 DEF Shutdown
<1>14. CASE UNCHANGED vars
  BY <1>5, <1>14 DEF vars, mgrVars, thrVars
<1>15. ASSUME NEW t \in Threads, Getting(t) PROVE Len(pool') <= Cardinality(Woken')
  BY <1>4, <1>5, <1>7, <1>8, <1>10, <1>11, <1>12, <1>15 DEF Getting, GetAtOnce, ResumeAndTake
<1>16. ASSUME NEW t \in Threads, Using(t) PROVE Len(pool') <= Cardinality(Woken')
  BY <1>5, <1>9, <1>12, <1>16 DEF Using
<1> QED
  BY <1>6, <1>13, <1>14, <1>15, <1>16 DEF Next

(* As long as no thread whose deadline had passed swallowed a wakeup and   *)
(* initialize() did not fill the pool under sleepers, idle connections     *)
(* beside a sleeping thread are no more than the threads on their way to   *)
(* them: notify_one in releaseConnection() is enough.                      *)
THEOREM NoLostWakeupHolds == Spec => []NoLostWakeup
<1>1. Init => NoLostWakeup
  BY DEF Init, NoLostWakeup, Waiting
<1> QED
  BY <1>1, NextWakes, IInvHolds, PTL DEF Spec
=============================================================================

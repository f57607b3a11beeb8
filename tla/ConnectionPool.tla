--------------------------- MODULE ConnectionPool ---------------------------
(***************************************************************************)
(* Database::ConnectionManager: a FIFO of open connections guarded by one  *)
(* mutex, a condition variable on which getConnection() waits with a       *)
(* deadline, and counters for statistics.  Every action is one critical    *)
(* section of mutex_ or one call on a connection its holder owns.          *)
(*                                                                         *)
(* The condition variable follows the C++ library: notify_one moves some   *)
(* waiter to "woken"; a woken thread competes for the mutex with threads   *)
(* that have just called getConnection; wait_until answers "timeout"       *)
(* whenever the deadline has passed by then, even if the thread was woken  *)
(* by a notification; and a waiter may wake for no reason at all.          *)
(***************************************************************************)
EXTENDS Integers, Sequences, FiniteSets

CONSTANTS Threads,      \* callers of getConnection
          Conns,        \* connection objects (bounds how many live at once)
          NoConn,       \* the null ScopedConnection
          PoolSize,     \* config_.poolSize
          CountMod      \* 2^w of size_t: the counters wrap

ASSUME ThreadsAssumption == IsFiniteSet(Threads)
ASSUME ConnsAssumption == NoConn \notin Conns
ASSUME SizesAssumption ==
  /\ PoolSize \in Nat
  /\ CountMod \in Nat /\ CountMod > 1

VARIABLES
  initialized,          \* initialized_
  pool,                 \* pool_, the front first
  activeCount,          \* activeCount_
  totalCreated,         \* totalCreated_
  pc,                   \* where each thread is in getConnection
  expired,              \* has the thread's deadline passed?
  held,                 \* the connection in the thread's ScopedConnection
  flagTx,               \* SQLiteConnection::inTransaction_
  dbTx,                 \* does SQLite itself have a transaction open?
  missed                \* history: a wakeup was consumed or never sent

mgrVars == <<initialized, pool, activeCount, totalCreated>>
thrVars == <<pc, expired, held>>
txVars  == <<flagTx, dbTx>>
vars    == <<mgrVars, thrVars, txVars, missed>>

Inc(n) == IF n = CountMod - 1 THEN 0 ELSE n + 1
Dec(n) == IF n = 0 THEN CountMod - 1 ELSE n - 1

Pooled  == {pool[i] : i \in DOMAIN pool}
Holders == {t \in Threads : held[t] # NoConn}
Waiting == {t \in Threads : pc[t] = "waiting"}
Woken   == {t \in Threads : pc[t] = "woken"}
Live    == Pooled \cup {held[t] : t \in Holders}
Fresh   == Conns \ Live

TypeOK ==
  /\ initialized \in BOOLEAN
  /\ pool \in Seq(Conns)
  /\ activeCount \in 0 .. CountMod - 1
  /\ totalCreated \in 0 .. CountMod - 1
  /\ pc \in [Threads -> {"idle", "waiting", "woken", "using"}]
  /\ expired \in [Threads -> BOOLEAN]
  /\ held \in [Threads -> Conns \cup {NoConn}]
  /\ flagTx \in [Conns -> BOOLEAN]
  /\ dbTx \in [Conns -> BOOLEAN]
  /\ missed \in BOOLEAN

Init ==
  /\ initialized = FALSE
  /\ pool = <<>>
  /\ activeCount = 0
  /\ totalCreated = 0
  /\ pc = [t \in Threads |-> "idle"]
  /\ expired = [t \in Threads |-> FALSE]
  /\ held = [t \in Threads |-> NoConn]
  /\ flagTx = [c \in Conns |-> FALSE]
  /\ dbTx = [c \in Conns |-> FALSE]
  /\ missed = FALSE

-----------------------------------------------------------------------------
(* initialize(): createConnection() succeeds n times and each result is    *)
(* pushed; all PoolSize of them make the manager initialised, an earlier   *)
(* failure returns with what was pushed still in the pool.  No waiter is   *)
(* notified.                                                               *)
CreateConnections(n) ==
  \E new \in [1..n -> Fresh] :
     /\ \A i, j \in 1..n : i # j => new[i] # new[j]
     /\ pool' = pool \o new
     /\ totalCreated' = (totalCreated + n) % CountMod
     /\ flagTx' = [c \in Conns |-> c \notin {new[i] : i \in 1..n} /\ flagTx[c]]
     /\ dbTx' = [c \in Conns |-> c \notin {new[i] : i \in 1..n} /\ dbTx[c]]
     /\ missed' = (missed \/ (n > 0 /\ Waiting # {}))

Initialize ==
  /\ ~initialized
  /\ \E n \in 0..PoolSize :
        /\ CreateConnections(n)
        /\ initialized' = (n = PoolSize)
  /\ UNCHANGED <<activeCount, thrVars>>

(* Slip: the second counter is left alone.                                 *)
ShutdownKeepsTotal ==
  /\ initialized' = FALSE
  /\ pool' = <<>>
  /\ activeCount' = 0
  /\ UNCHANGED <<totalCreated, thrVars, txVars, missed>>

(* shutdown(): drops the pooled connections and zeroes the counters.       *)
(* Connections on lease stay with their holders; waiters are not woken.    *)
Shutdown ==
  /\ initialized' = FALSE
  /\ pool' = <<>>
  /\ activeCount' = 0
  /\ totalCreated' = 0
  /\ UNCHANGED <<thrVars, txVars, missed>>

-----------------------------------------------------------------------------
(* Slip: front() without pop().                                            *)
TakeWithoutPop(t) ==
  /\ pool # <<>>
  /\ held' = [held EXCEPT ![t] = Head(pool)]
  /\ activeCount' = Inc(activeCount)
  /\ pc' = [pc EXCEPT ![t] = "using"]
  /\ UNCHANGED <<initialized, pool, totalCreated, expired, txVars, missed>>

(* getConnection() past its wait loop: pop the front, count it, lease it.  *)
Take(t) ==
  /\ pool # <<>>
  /\ held' = [held EXCEPT ![t] = Head(pool)]
  /\ pool' = Tail(pool)
  /\ activeCount' = Inc(activeCount)
  /\ pc' = [pc EXCEPT ![t] = "using"]
  /\ UNCHANGED <<initialized, totalCreated, expired, txVars, missed>>

(* A call that finds a connection at once ...                              *)
GetAtOnce(t) == pc[t] = "idle" /\ initialized /\ Take(t)

(* ... and one that has to wait: initialized_ is not looked at again.      *)
StartWaiting(t) ==
  /\ pc[t] = "idle" /\ initialized /\ pool = <<>>
  /\ pc' = [pc EXCEPT ![t] = "waiting"]
  /\ expired' = [expired EXCEPT ![t] = FALSE]
  /\ UNCHANGED <<mgrVars, held, txVars, missed>>

DeadlinePasses(t) ==
  /\ pc[t] \in {"waiting", "woken"} /\ ~expired[t]
  /\ expired' = [expired EXCEPT ![t] = TRUE]
  /\ UNCHANGED <<mgrVars, pc, held, txVars, missed>>

Wake(t) == pc' = [pc EXCEPT ![t] = "woken"]

WakeNever(t) == FALSE /\ UNCHANGED vars      \* slip: wait() for wait_until()

WakeOnTimeout(t) ==
  /\ pc[t] = "waiting" /\ expired[t] /\ Wake(t)
  /\ UNCHANGED <<mgrVars, expired, held, txVars, missed>>

WakeSpuriously(t) ==
  /\ pc[t] = "waiting" /\ ~expired[t] /\ Wake(t)
  /\ UNCHANGED <<mgrVars, expired, held, txVars, missed>>

(* The woken thread has the mutex again: wait_until has returned.          *)
ReturnTimeout(t) ==
  /\ pc[t] = "woken" /\ expired[t]
  /\ pc' = [pc EXCEPT ![t] = "idle"]
  /\ missed' = (missed \/ pool # <<>>)
  /\ UNCHANGED <<mgrVars, expired, held, txVars>>

ResumeAndTake(t) == pc[t] = "woken" /\ ~expired[t] /\ Take(t)

WaitAgain(t) ==
  /\ pc[t] = "woken" /\ ~expired[t] /\ pool = <<>>
  /\ pc' = [pc EXCEPT ![t] = "waiting"]
  /\ UNCHANGED <<mgrVars, expired, held, txVars, missed>>

-----------------------------------------------------------------------------
(* ROLLBACK is an error outside a transaction, and then the flag stays.    *)
RolledBack(c) ==
  /\ dbTx' = [dbTx EXCEPT ![c] = FALSE]
  /\ flagTx' = [flagTx EXCEPT ![c] = @ /\ ~dbTx[c]]

(* Slips: no notify_one; no rollback.                                      *)
ReleaseSilently(t) ==
  LET c == held[t] IN
  /\ pc[t] = "using"
  /\ IF flagTx[c] THEN RolledBack(c) ELSE UNCHANGED txVars
  /\ pool' = Append(pool, c)
  /\ activeCount' = Dec(activeCount)
  /\ held' = [held EXCEPT ![t] = NoConn]
  /\ pc' = [pc EXCEPT ![t] = "idle"]
  /\ UNCHANGED <<initialized, totalCreated, expired, missed>>

ReleaseAsIs(t) ==
  LET c == held[t] IN
  /\ pc[t] = "using"
  /\ pool' = Append(pool, c)
  /\ activeCount' = Dec(activeCount)
  /\ held' = [held EXCEPT ![t] = NoConn]
  /\ IF Waiting = {}
        THEN pc' = [pc EXCEPT ![t] = "idle"]
        ELSE \E w \in Waiting : pc' = [pc EXCEPT ![t] = "idle", ![w] = "woken"]
  /\ UNCHANGED <<initialized, totalCreated, expired, txVars, missed>>

(* ~ScopedConnection: releaseConnection() rolls an open transaction back   *)
(* if inTransaction_ says there is one, ignores whether that worked, and   *)
(* pushes the connection whatever the manager's state; then notify_one.    *)
Release(t) ==
  LET c == held[t] IN
  /\ pc[t] = "using"
  /\ IF flagTx[c] THEN RolledBack(c) ELSE UNCHANGED txVars
  /\ pool' = Append(pool, c)
  /\ activeCount' = Dec(activeCount)
  /\ held' = [held EXCEPT ![t] = NoConn]
  /\ IF Waiting = {}
        THEN pc' = [pc EXCEPT ![t] = "idle"]
        ELSE \E w \in Waiting : pc' = [pc EXCEPT ![t] = "idle", ![w] = "woken"]
  /\ UNCHANGED <<initialized, totalCreated, expired, missed>>

(* Calls of the holder on its connection.  BEGIN is refused inside a       *)
(* transaction; a COMMIT that fails leaves everything as it was.           *)
BeginTransaction(t) ==
  LET c == held[t] IN
  /\ pc[t] = "using" /\ ~dbTx[c]
  /\ dbTx' = [dbTx EXCEPT ![c] = TRUE]
  /\ flagTx' = [flagTx EXCEPT ![c] = TRUE]
  /\ UNCHANGED <<mgrVars, thrVars, missed>>

Commit(t) ==
  LET c == held[t] IN
  /\ pc[t] = "using" /\ dbTx[c]
  /\ dbTx' = [dbTx EXCEPT ![c] = FALSE]
  /\ flagTx' = [flagTx EXCEPT ![c] = FALSE]
  /\ UNCHANGED <<mgrVars, thrVars, missed>>

(* Rollback, also by ~Transaction.                                         *)
Rollback(t) ==
  /\ pc[t] = "using" /\ dbTx[held[t]] /\ RolledBack(held[t])
  /\ UNCHANGED <<mgrVars, thrVars, missed>>

(* SQLite ends a transaction by itself when a statement in it fails hard   *)
(* (disk full, I/O error): inTransaction_ does not follow.                 *)
AutoRollback(t) ==
  /\ pc[t] = "using" /\ dbTx[held[t]]
  /\ dbTx' = [dbTx EXCEPT ![held[t]] = FALSE]
  /\ UNCHANGED <<mgrVars, thrVars, flagTx, missed>>

Getting(t) ==
  \/ GetAtOnce(t) \/ StartWaiting(t) \/ DeadlinePasses(t) \/ WakeOnTimeout(t)
  \/ WakeSpuriously(t) \/ ReturnTimeout(t) \/ ResumeAndTake(t) \/ WaitAgain(t)

Using(t) ==
  \/ Release(t) \/ BeginTransaction(t) \/ Commit(t) \/ Rollback(t)
  \/ AutoRollback(t)

Next == Initialize \/ Shutdown \/ \E t \in Threads : Getting(t) \/ Using(t)

Spec == Init /\ [][Next]_vars

(* Time passes, the clock wakes sleepers, and the mutex is handed to every *)
(* thread that keeps asking for it.                                        *)
Fairness == \A t \in Threads :
  /\ WF_vars(DeadlinePasses(t))
  /\ WF_vars(WakeOnTimeout(t))
  /\ WF_vars(ReturnTimeout(t))

FairSpec == Spec /\ Fairness

-----------------------------------------------------------------------------
(* A connection is in the pool once, or in the hands of one thread, never  *)
(* both: whatever mix of shutdowns, re-initialisations, late returns and   *)
(* timeouts getConnection and ~ScopedConnection go through.                *)
ExclusiveOwnership ==
  /\ \A i, j \in DOMAIN pool : i # j => pool[i] # pool[j]
  /\ \A t \in Holders : held[t] \notin Pooled
  /\ \A t, u \in Holders : t # u => held[t] # held[u]

(* Whoever pops a connection gets one with no transaction left open by its *)
(* previous holder, although SQLite may end transactions behind the back   *)
(* of inTransaction_ and releaseConnection ignores a failed rollback.      *)
PooledConnectionsClean == \A c \in Pooled : ~dbTx[c]

(* The counters agree with the pool: modulo the width of size_t,           *)
(* totalCreated_ is what is pooled plus what activeCount_ says is out,     *)
(* across shutdowns that zero both while connections are on lease.         *)
CountersAgree == totalCreated = (Len(pool) + activeCount) % CountMod

(* Unless a wakeup was swallowed by a thread whose deadline had passed, or *)
(* initialize() filled the pool under sleeping waiters, there are never    *)
(* more connections lying idle than threads on their way to take them      *)
(* while somebody still sleeps: no notify_one is lost.                     *)
NoLostWakeup ==
  ~missed /\ Waiting # {} => Len(pool) <= Cardinality(Woken)

(* getConnection returns: a thread that began to wait ends up with a       *)
(* connection or an error, whatever happens to the manager meanwhile.      *)
EveryCallReturns ==
  \A t \in Threads :
     pc[t] \in {"waiting", "woken"} ~> pc[t] \in {"idle", "using"}

(* The pool gives out exclusive leases (see LeasePool).                    *)
Lease == INSTANCE LeasePool WITH
           Clients <- Threads, Resources <- Conns, None <- NoConn,
           free <- Pooled, lease <- held
ImplementsLeasePool == Lease!LPSpec
=============================================================================

--------------------------- MODULE ScanScheduler ---------------------------
(***************************************************************************)
(* Scanner::ScanScheduler: worker threads that wait on a condition         *)
(* variable for jobs in a queue.  The queue is guarded by mutex_; the      *)
(* flags running_ and stopping_ are atomics that are not.                  *)
(*                                                                         *)
(* A worker holds mutex_ between finding the wait predicate false and      *)
(* going to sleep ("checked"): whoever needs the mutex waits for it then,  *)
(* but stop(), which sets stopping_ and notifies without the mutex, does   *)
(* not.  Clients submit from their own threads and are caught between the  *)
(* test of running_, the push and the notification.                        *)
(***************************************************************************)
EXTENDS Naturals, Sequences, FiniteSets, SequencesExt

CONSTANTS Workers, Clients, Jobs,
          NoJob         \* a worker with nothing to run

ASSUME NoJobAssumption == NoJob \notin Jobs
ASSUME JobsAssumption == IsFiniteSet(Jobs)
ASSUME WorkersAssumption == Workers # {}      \* threadCount_ is at least one

VARIABLES
  running, stopping,    \* running_, stopping_
  control,              \* progress of start() and stop()
  queue,                \* jobQueue_
  wpc, job,             \* each worker: where it is, what it runs
  cpc, batch,           \* each client: where it is, what it submits
  late,                 \* history: jobs pushed while stopping_ was set
  fresh,                \* jobs no client has submitted yet
  finished, cancelled   \* history: jobs whose handler returned; dropped jobs

ctlVars    == <<running, stopping, control>>
workerVars == <<wpc, job>>
clientVars == <<cpc, batch, fresh, late>>
vars == <<ctlVars, queue, workerVars, clientVars, finished, cancelled>>

MutexFree == \A w \in Workers : wpc[w] # "checked"
Sleeping  == {w \in Workers : wpc[w] = "waiting"}
Running   == {job[w] : w \in Workers} \ {NoJob}
Queued    == ToSet(queue)

TypeOK ==
  /\ running \in BOOLEAN /\ stopping \in BOOLEAN
  /\ control \in {"stopped", "running", "signalling", "joining"}
  /\ queue \in Seq(Jobs)
  /\ wpc \in [Workers -> {"none", "lock", "checked", "waiting", "busy", "exited"}]
  /\ job \in [Workers -> Jobs \cup {NoJob}]
  /\ \A w \in Workers : wpc[w] = "busy" <=> job[w] # NoJob
  /\ cpc \in [Clients -> {"ready", "pushing", "notifying"}]
  /\ batch \in [Clients -> Seq(Jobs)]
  /\ late \subseteq Jobs /\ fresh \subseteq Jobs /\ finished \subseteq Jobs /\ cancelled \subseteq Jobs

Init ==
  /\ running = FALSE /\ stopping = FALSE /\ control = "stopped"
  /\ queue = <<>>
  /\ wpc = [w \in Workers |-> "none"]
  /\ job = [w \in Workers |-> NoJob]
  /\ cpc = [c \in Clients |-> "ready"]
  /\ batch = [c \in Clients |-> <<>>]
  /\ late = {} /\ fresh = Jobs /\ finished = {} /\ cancelled = {}

-----------------------------------------------------------------------------
(* start(): every worker begins at the lock.                               *)
Start ==
  /\ control = "stopped" /\ ~running
  /\ running' = TRUE /\ stopping' = FALSE /\ control' = "running"
  /\ wpc' = [w \in Workers |-> "lock"]
  /\ UNCHANGED <<queue, job, clientVars, finished, cancelled>>

(* stop(): set stopping_, then notify, then join, none of it under mutex_. *)
StopFlag ==
  /\ control = "running" /\ running
  /\ stopping' = TRUE /\ control' = "signalling"
  /\ UNCHANGED <<running, queue, workerVars, clientVars, finished, cancelled>>

WakeAll == wpc' = [w \in Workers |-> IF wpc[w] = "waiting" THEN "lock" ELSE wpc[w]]

StopNotify ==
  /\ control = "signalling"
  /\ WakeAll
  /\ control' = "joining"
  /\ UNCHANGED <<running, stopping, queue, job, clientVars, finished, cancelled>>

StopWithoutJoin ==      \* slip: the threads are detached
  /\ control = "joining"
  /\ wpc' = [w \in Workers |-> "none"]
  /\ running' = FALSE /\ control' = "stopped"
  /\ UNCHANGED <<stopping, queue, job, clientVars, finished, cancelled>>

StopJoined ==
  /\ control = "joining"
  /\ \A w \in Workers : wpc[w] = "exited"
  /\ wpc' = [w \in Workers |-> "none"]
  /\ running' = FALSE /\ control' = "stopped"
  /\ UNCHANGED <<stopping, queue, job, clientVars, finished, cancelled>>

-----------------------------------------------------------------------------
(* submit() and submitBatch(): running_ is tested before the lock.         *)
Submit(c) ==
  /\ cpc[c] = "ready" /\ running
  /\ \E js \in (SUBSET fresh) \ {{}} :
        /\ \E order \in SetToSeqs(js) : batch' = [batch EXCEPT ![c] = order]
        /\ fresh' = fresh \ js
  /\ cpc' = [cpc EXCEPT ![c] = "pushing"]
  /\ UNCHANGED <<ctlVars, queue, workerVars, late, finished, cancelled>>

Push(c) ==
  /\ cpc[c] = "pushing" /\ MutexFree
  /\ queue' = queue \o batch[c]
  /\ late' = IF stopping THEN late \cup ToSet(batch[c]) ELSE late
  /\ cpc' = [cpc EXCEPT ![c] = "notifying"]
  /\ UNCHANGED <<ctlVars, workerVars, batch, fresh, finished, cancelled>>

(* One job: notify_one; a batch: notify_all.                               *)
NotifyNobody(c) ==      \* slip
  /\ cpc[c] = "notifying"
  /\ cpc' = [cpc EXCEPT ![c] = "ready"]
  /\ batch' = [batch EXCEPT ![c] = <<>>]
  /\ UNCHANGED <<ctlVars, queue, workerVars, fresh, late, finished, cancelled>>

Notify(c) ==
  /\ cpc[c] = "notifying"
  /\ IF Len(batch[c]) = 1 /\ Sleeping # {}
        THEN \E w \in Sleeping : wpc' = [wpc EXCEPT ![w] = "lock"]
        ELSE WakeAll
  /\ cpc' = [cpc EXCEPT ![c] = "ready"]
  /\ batch' = [batch EXCEPT ![c] = <<>>]
  /\ UNCHANGED <<ctlVars, queue, job, fresh, late, finished, cancelled>>

CancelPending ==
  /\ MutexFree /\ queue # <<>>
  /\ queue' = <<>>
  /\ cancelled' = cancelled \cup Queued
  /\ UNCHANGED <<ctlVars, workerVars, clientVars, finished>>

-----------------------------------------------------------------------------
ExitAtOnce(w) ==        \* slip: stop without draining the queue
  /\ wpc[w] = "lock" /\ MutexFree /\ stopping
  /\ wpc' = [wpc EXCEPT ![w] = "exited"]
  /\ UNCHANGED <<ctlVars, queue, job, clientVars, finished, cancelled>>

(* workerLoop(): with the mutex, the predicate is true ...                 *)
Exit(w) ==
  /\ wpc[w] = "lock" /\ MutexFree /\ stopping /\ queue = <<>>
  /\ wpc' = [wpc EXCEPT ![w] = "exited"]
  /\ UNCHANGED <<ctlVars, queue, job, clientVars, finished, cancelled>>

PopLocked(w) ==
  /\ job' = [job EXCEPT ![w] = Head(queue)]
  /\ wpc' = [wpc EXCEPT ![w] = "busy"]
  /\ UNCHANGED <<ctlVars, clientVars, finished, cancelled>>

PopTwice(w) ==          \* slip: the front is copied, another worker pops it
  /\ wpc[w] = "lock" /\ MutexFree /\ queue # <<>>
  /\ (queue' = Tail(queue) \/ queue' = queue)
  /\ PopLocked(w)

PopNewest(w) ==         \* slip: a stack for a queue
  /\ wpc[w] = "lock" /\ MutexFree /\ queue # <<>>
  /\ queue' = Front(queue)
  /\ job' = [job EXCEPT ![w] = Last(queue)]
  /\ wpc' = [wpc EXCEPT ![w] = "busy"]
  /\ UNCHANGED <<ctlVars, clientVars, finished, cancelled>>

Pop(w) ==
  /\ wpc[w] = "lock" /\ MutexFree /\ queue # <<>>
  /\ queue' = Tail(queue)
  /\ PopLocked(w)

(* ... or false, and the worker is about to sleep, the mutex still held.   *)
PredicateFalse(w) ==
  /\ wpc[w] = "lock" /\ MutexFree /\ ~stopping /\ queue = <<>>
  /\ wpc' = [wpc EXCEPT ![w] = "checked"]
  /\ UNCHANGED <<ctlVars, queue, job, clientVars, finished, cancelled>>

Sleep(w) ==
  /\ wpc[w] = "checked"
  /\ wpc' = [wpc EXCEPT ![w] = "waiting"]
  /\ UNCHANGED <<ctlVars, queue, job, clientVars, finished, cancelled>>

(* A condition variable may wake a waiter for no reason, and need not.     *)
WakeSpuriously(w) ==
  /\ wpc[w] = "waiting"
  /\ wpc' = [wpc EXCEPT ![w] = "lock"]
  /\ UNCHANGED <<ctlVars, queue, job, clientVars, finished, cancelled>>

(* The handler returns or throws; either way the job counts as completed.  *)
Finish(w) ==
  /\ wpc[w] = "busy"
  /\ finished' = finished \cup {job[w]}
  /\ job' = [job EXCEPT ![w] = NoJob]
  /\ wpc' = [wpc EXCEPT ![w] = "lock"]
  /\ UNCHANGED <<ctlVars, queue, clientVars, cancelled>>

Worker(w) == \/ Exit(w) \/ Pop(w) \/ PredicateFalse(w) \/ Sleep(w)
             \/ WakeSpuriously(w) \/ Finish(w)
Client(c) == Submit(c) \/ Push(c) \/ Notify(c)
Control   == Start \/ StopFlag \/ StopNotify \/ StopJoined

Next == Control \/ CancelPending \/ (\E c \in Clients : Client(c))
                \/ (\E w \in Workers : Worker(w))

Spec == Init /\ [][Next]_vars

(* Threads that can run do; a mutex asked for again and again is obtained  *)
(* (Push and the worker's steps at the lock compete for it: strong         *)
(* fairness).  Nobody has to submit, to start or to stop.                  *)
Fairness ==
  /\ WF_vars(StopNotify) /\ WF_vars(StopJoined)
  /\ \A c \in Clients : SF_vars(Push(c)) /\ WF_vars(Notify(c))
  /\ \A w \in Workers :
        /\ SF_vars(Pop(w) \/ Exit(w) \/ PredicateFalse(w))
        /\ WF_vars(Sleep(w)) /\ WF_vars(Finish(w))

FairSpec == Spec /\ Fairness

-----------------------------------------------------------------------------
(* Every job is in one place: not submitted, in a client's hands, queued,  *)
(* run by exactly one worker, finished or cancelled.  None is run twice or *)
(* run after it was cancelled, and none vanishes.                          *)
InFlight == UNION {ToSet(batch[c]) : c \in {d \in Clients : cpc[d] = "pushing"}}

JobsConserved ==
  /\ Jobs = fresh \cup InFlight \cup Queued \cup Running \cup finished \cup cancelled
  /\ Cardinality(fresh) + Cardinality(InFlight) + Len(queue)
     + Cardinality({w \in Workers : job[w] # NoJob})
     + Cardinality(finished) + Cardinality(cancelled) = Cardinality(Jobs)

(* stop() returns only when no handler is executing: "waits for            *)
(* in-progress jobs to complete".                                          *)
StoppedMeansQuiet == ~running => Running = {}

(* A stop drains the queue: when it has returned, nothing is pending but   *)
(* jobs of clients that got past the test of running_ before the stop and  *)
(* pushed after stopping_ was set.                                         *)
StopDrains == control = "stopped" => Queued \subseteq late

(* While nobody stops the scheduler, a queued job is taken up: pushes need *)
(* the mutex, so a worker cannot miss one on its way to sleep, and a stop  *)
(* that comes later still drains it.                                       *)
QueuedJobsTaken ==
  \A j \in Jobs : (j \in Queued /\ running /\ ~stopping) ~> j \notin Queued

(* stop() returns ("Stop the thread pool (waits for in-progress jobs to    *)
(* complete)").                                                            *)
StopReturns == control = "signalling" ~> control = "stopped"

(* The scheduler is a JobPool.                                             *)
Pool == INSTANCE JobPool WITH Idle <- NoJob, pending <- queue, busy <- job
PoolStep ==
  \/ \E c \in Clients : Pool!SubmitAll(batch[c])
  \/ Pool!CancelAll
  \/ \E w \in Workers : Pool!StartJob(w) \/ Pool!EndJob(w)
ImplementsJobPool == Pool!JPInit /\ [][PoolStep]_(Pool!jpVars)
=============================================================================

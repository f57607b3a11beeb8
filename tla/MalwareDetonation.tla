------------------------- MODULE MalwareDetonation -------------------------
(***************************************************************************)
(* Sandbox::MalwareDetonation: jobs with a status, a queue of jobs beside  *)
(* them, and three counters.  The queue and the statuses are changed by    *)
(* different calls: taking a job from the queue does not start it, and     *)
(* starting or failing it does not take it from the queue.  Every          *)
(* operation is one section of mutex_.  Start times and time-outs only     *)
(* feed getTimedOutJobs(), after which timeoutJob() may come too late.     *)
(***************************************************************************)
EXTENDS Positions

CONSTANT MaxJobs            \* bound: jobs ever enqueued

VARIABLES
  jobs,             \* jobs_: status and priority by number
  queue,            \* queue_: numbers of jobs
  totalProcessed, totalCompleted, totalFailed,
  left,             \* history: jobs taken from the queue, or cleared with it
  started, timedOut, cancelled          \* history: what happened to a job

detonationVars == <<jobs, queue, totalProcessed, totalCompleted, totalFailed,
                    left, started, timedOut, cancelled>>
counters == <<totalProcessed, totalCompleted, totalFailed>>
history  == <<left, started, timedOut, cancelled>>

Status(j) == jobs[j].status
Mark(j, status) == jobs' = [jobs EXCEPT ![j].status = status]

Init == /\ jobs = <<>> /\ queue = <<>>
        /\ totalProcessed = 0 /\ totalCompleted = 0 /\ totalFailed = 0
        /\ left = {} /\ started = {} /\ timedOut = {} /\ cancelled = {}
-----------------------------------------------------------------------------
(* enqueueJob(): the newest of high priority comes first.                  *)
EnqueueJob(high) ==
  LET j == Len(jobs) + 1 IN
  /\ j <= MaxJobs
  /\ jobs' = Append(jobs, [status |-> "Queued", high |-> high])
  /\ queue' = IF high THEN <<j>> \o queue ELSE Append(queue, j)
  /\ UNCHANGED <<counters, history>>

DequeueNextJob ==
  /\ queue # <<>> /\ queue' = Tail(queue) /\ left' = left \cup {Head(queue)}
  /\ UNCHANGED <<jobs, counters, started, timedOut, cancelled>>

ClearQueue ==
  /\ queue # <<>> /\ queue' = <<>> /\ left' = left \cup Range(queue)
  /\ UNCHANGED <<jobs, counters, started, timedOut, cancelled>>

StartJob(j) ==
  /\ Status(j) = "Queued" /\ Mark(j, "Running")
  /\ totalProcessed' = totalProcessed + 1 /\ started' = started \cup {j}
  /\ UNCHANGED <<queue, totalCompleted, totalFailed, left, timedOut, cancelled>>

CompleteJob(j) ==
  /\ Status(j) = "Running" /\ Mark(j, "Completed")
  /\ totalCompleted' = totalCompleted + 1
  /\ UNCHANGED <<queue, totalProcessed, totalFailed, history>>

FailAgain(j) ==                        \* slip: a failed job may fail again
  /\ Status(j) # "Completed" /\ Mark(j, "Failed")
  /\ totalFailed' = totalFailed + 1
  /\ UNCHANGED <<queue, totalProcessed, totalCompleted, history>>

(* failJob(): also before the start, and once more after a time-out.       *)
FailJob(j) ==
  /\ Status(j) \notin {"Completed", "Failed"} /\ Mark(j, "Failed")
  /\ totalFailed' = totalFailed + 1
  /\ UNCHANGED <<queue, totalProcessed, totalCompleted, history>>

(* cancelJob(): Failed, but not counted.                                   *)
CancelJob(j) ==
  /\ Status(j) \notin {"Completed", "Failed"} /\ Mark(j, "Failed")
  /\ queue' = Kept(queue, {i \in DOMAIN queue : queue[i] # j})
  /\ cancelled' = cancelled \cup {j}
  /\ UNCHANGED <<counters, left, started, timedOut>>

TimeoutJob(j) ==
  /\ Status(j) = "Running" /\ Mark(j, "Timeout")
  /\ totalFailed' = totalFailed + 1 /\ timedOut' = timedOut \cup {j}
  /\ UNCHANGED <<queue, totalProcessed, totalCompleted, left, started, cancelled>>

Next == \/ \E b \in BOOLEAN : EnqueueJob(b)
        \/ \E j \in DOMAIN jobs : \/ StartJob(j) \/ CompleteJob(j) \/ FailJob(j)
                                  \/ CancelJob(j) \/ TimeoutJob(j)
        \/ DequeueNextJob \/ ClearQueue

Spec == Init /\ [][Next]_detonationVars
-----------------------------------------------------------------------------
DetonationTypeOK ==
  /\ jobs \in Seq([status : {"Queued", "Running", "Completed", "Failed", "Timeout"},
                   high : BOOLEAN])
  /\ queue \in Seq(DOMAIN jobs)
  /\ totalProcessed \in Nat /\ totalCompleted \in Nat /\ totalFailed \in Nat
  /\ \A h \in {left, started, timedOut, cancelled} : h \subseteq DOMAIN jobs

With(status) == {j \in DOMAIN jobs : Status(j) = status}

(* Queue, statuses and counters tell one story, although no call changes   *)
(* all three: every job waits in the queue once until it is taken, cleared *)
(* or cancelled, those of high priority first; a job runs once at most;    *)
(* and totalFailed counts each job that failed or timed out, one that      *)
(* failed after its time-out twice, and a cancelled one not at all.        *)
JobsAccounted ==
  /\ IsInjective(queue) /\ Range(queue) = DOMAIN jobs \ (left \cup cancelled)
  /\ \A i, k \in DOMAIN queue : i < k /\ jobs[queue[k]].high => jobs[queue[i]].high
  /\ totalProcessed = Cardinality(started)
  /\ With("Running") \cup With("Completed") \cup timedOut \subseteq started
  /\ totalCompleted = Cardinality(With("Completed"))
  /\ totalFailed = Cardinality(timedOut) + Cardinality(With("Failed") \ cancelled)
=============================================================================

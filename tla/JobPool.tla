------------------------------ MODULE JobPool ------------------------------
(***************************************************************************)
(* A pool of workers as its users see it: a queue of jobs, and each worker *)
(* idle or busy with one.  Jobs start in the order they were submitted; a  *)
(* job leaves the queue by being started or by a cancellation of all that  *)
(* is pending.  ScanScheduler implements it; ScanEngine is built on it.    *)
(***************************************************************************)
EXTENDS Naturals, Sequences

CONSTANTS Jobs,         \* what can be submitted
          Workers,
          Idle          \* a worker with no job

VARIABLES pending,      \* submitted, not started; the oldest first
          busy          \* worker -> job or Idle

jpVars == <<pending, busy>>

JPTypeOK == /\ pending \in Seq(Jobs)
            /\ busy \in [Workers -> Jobs \cup {Idle}]

JPInit == pending = <<>> /\ busy = [w \in Workers |-> Idle]

SubmitAll(batch) == pending' = pending \o batch /\ UNCHANGED busy

CancelAll == pending' = <<>> /\ UNCHANGED busy

StartJob(w) == /\ busy[w] = Idle /\ pending # <<>>
               /\ busy' = [busy EXCEPT ![w] = Head(pending)]
               /\ pending' = Tail(pending)

EndJob(w) == /\ busy[w] # Idle
             /\ busy' = [busy EXCEPT ![w] = Idle]
             /\ UNCHANGED pending

JPNext == \/ \E batch \in Seq(Jobs) : SubmitAll(batch)
          \/ CancelAll
          \/ \E w \in Workers : StartJob(w) \/ EndJob(w)

JPSpec == JPInit /\ [][JPNext]_jpVars
=============================================================================

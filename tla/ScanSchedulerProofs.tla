------------------------ MODULE ScanSchedulerProofs ------------------------
(* Proofs about ScanScheduler, for every number of workers, clients, jobs. *)
EXTENDS ScanScheduler, SequenceTheorems, FiniteSetTheorems, TLAPS

(* start() and stop() keep running_, their own progress and the threads in *)
(* step: outside them there are no worker threads.                         *)
ControlInv == /\ running <=> control # "stopped"
              /\ control = "stopped" => \A w \in Workers : wpc[w] = "none"

(* Once one worker has left, the queue it saw was empty and whatever came  *)
(* after it came late; and after a stop, nothing can come that is not late.*)
DrainInv ==
  /\ \A w \in Workers : wpc[w] = "exited" => stopping /\ Queued \subseteq late
  /\ control = "stopped" =>
        /\ Queued \subseteq late
        /\ ~stopping => \A c \in Clients : cpc[c] = "ready"

(* A client between ready and ready has a batch of jobs in hand.           *)
ClientInv == \A c \in Clients : batch[c] \in Seq(Jobs)

IInv == TypeOK /\ ControlInv /\ DrainInv /\ ClientInv

-----------------------------------------------------------------------------
LEMMA PushedElements ==
  ASSUME NEW s \in Seq(Jobs), NEW t \in Seq(Jobs)
  PROVE  s \o t \in Seq(Jobs) /\ ToSet(s \o t) = ToSet(s) \cup ToSet(t)
<1>1. /\ s \o t \in Seq(Jobs)
      /\ DOMAIN (s \o t) = 1 .. Len(s) + Len(t)
      /\ DOMAIN s = 1 .. Len(s) /\ DOMAIN t = 1 .. Len(t)
      /\ Len(s) \in Nat /\ Len(t) \in Nat
      /\ \A i \in 1 .. Len(s) : (s \o t)[i] = s[i]
      /\ \A i \in 1 .. Len(t) : (s \o t)[Len(s) + i] = t[i]
  OBVIOUS
<1>2. ASSUME NEW i \in DOMAIN (s \o t) PROVE (s \o t)[i] \in ToSet(s) \cup ToSet(t)
  <2>1. CASE i \in 1 .. Len(s)
    BY <2>1, <1>1 DEF ToSet
  <2>2. CASE i \notin 1 .. Len(s)
    <3>1. i - Len(s) \in 1 .. Len(t) /\ i = Len(s) + (i - Len(s))
      BY <2>2, <1>1
    <3> QED BY <3>1, <1>1 DEF ToSet
  <2> QED BY <2>1, <2>2
<1>3. ASSUME NEW i \in DOMAIN s PROVE s[i] \in ToSet(s \o t)
  <2>1. i \in DOMAIN (s \o t)
    BY <1>1
  <2> QED BY <2>1, <1>1 DEF ToSet
<1>4. ASSUME NEW i \in DOMAIN t PROVE t[i] \in ToSet(s \o t)
  <2>1. Len(s) + i \in DOMAIN (s \o t)
    BY <1>1
  <2> QED BY <2>1, <1>1 DEF ToSet
<1> QED BY <1>1, <1>2, <1>3, <1>4 DEF ToSet

LEMMA PoppedElements ==
  ASSUME NEW s \in Seq(Jobs), s # <<>>
  PROVE  Tail(s) \in Seq(Jobs) /\ Head(s) \in Jobs /\ ToSet(Tail(s)) \subseteq ToSet(s)
<1>1. /\ Tail(s) \in Seq(Jobs) /\ Head(s) \in Jobs
      /\ DOMAIN Tail(s) = 1 .. Len(s) - 1
      /\ \A i \in 1 .. Len(s) - 1 : Tail(s)[i] = s[i + 1]
      /\ DOMAIN s = 1 .. Len(s) /\ Len(s) \in Nat
  OBVIOUS
<1>2. ASSUME NEW i \in DOMAIN Tail(s) PROVE Tail(s)[i] \in ToSet(s)
  <2>1. i + 1 \in DOMAIN s
    BY <1>1
  <2> QED BY <2>1, <1>1 DEF ToSet
<1> QED BY <1>1, <1>2 DEF ToSet

LEMMA EmptyElements == <<>> \in Seq(Jobs) /\ ToSet(<<>>) = {}
<1>1. DOMAIN <<>> = {}
  OBVIOUS
<1> QED BY <1>1 DEF ToSet

-----------------------------------------------------------------------------
LEMMA InitIInv == Init => IInv
<1> SUFFICES ASSUME Init PROVE IInv
  OBVIOUS
<1>1. TypeOK
  BY EmptyElements, NoJobAssumption DEF Init, TypeOK
<1>2. ControlInv /\ DrainInv /\ ClientInv
  BY EmptyElements, WorkersAssumption
     DEF Init, ControlInv, DrainInv, ClientInv, Queued
<1> QED BY <1>1, <1>2 DEF IInv

LEMMA ControlSteps == IInv /\ Control => IInv'
<1> SUFFICES ASSUME IInv, Control PROVE IInv'
  OBVIOUS
<1> USE DEF IInv, clientVars, ctlVars, workerVars
<1>1. CASE Start
  BY <1>1 DEF Start, TypeOK, ControlInv, DrainInv, ClientInv, Queued
<1>2. CASE StopFlag
  BY <1>2 DEF StopFlag, TypeOK, ControlInv, DrainInv, ClientInv, Queued
<1>3. CASE StopNotify
  BY <1>3 DEF StopNotify, WakeAll, TypeOK, ControlInv, DrainInv, ClientInv, Queued
<1>4. CASE StopJoined
  <2>1. stopping /\ Queued \subseteq late
    BY <1>4, WorkersAssumption DEF StopJoined, DrainInv
  <2>2. \A w \in Workers : job[w] = NoJob
    BY <1>4 DEF StopJoined, TypeOK
  <2> QED
    BY <1>4, <2>1, <2>2
       DEF StopJoined, TypeOK, ControlInv, DrainInv, ClientInv, Queued
<1> QED BY <1>1, <1>2, <1>3, <1>4 DEF Control

LEMMA ClientSteps ==
  ASSUME NEW c \in Clients, IInv, Client(c)
  PROVE  IInv'
<1> USE DEF IInv, clientVars, ctlVars, workerVars
<1>1. CASE Submit(c)
  <2>1. PICK js \in (SUBSET fresh) \ {{}} :
          /\ \E order \in SetToSeqs(js) : batch' = [batch EXCEPT ![c] = order]
          /\ fresh' = fresh \ js
    BY <1>1 DEF Submit
  <2>2. PICK order \in SetToSeqs(js) : batch' = [batch EXCEPT ![c] = order]
    BY <2>1
  <2>3. order \in Seq(Jobs)
    <3>1. js \subseteq Jobs
      BY <2>1 DEF TypeOK
    <3>2. Cardinality(js) \in Nat
      BY <3>1, JobsAssumption, FS_Subset, FS_CardinalityType
    <3>3. order \in [1 .. Cardinality(js) -> js]
      BY <2>2 DEF SetToSeqs
    <3> QED BY <3>1, <3>2, <3>3
  <2>4. batch' \in [Clients -> Seq(Jobs)] /\ fresh' \subseteq Jobs
    BY <2>1, <2>2, <2>3 DEF TypeOK
  <2> QED
    BY <1>1, <2>4 DEF Submit, TypeOK, ControlInv, DrainInv, ClientInv, Queued
<1>2. CASE Push(c)
  <2>1. queue' \in Seq(Jobs) /\ Queued' = Queued \cup ToSet(batch[c])
    BY <1>2, PushedElements DEF Push, TypeOK, Queued
  <2>2. late' \subseteq Jobs /\ late \subseteq late'
    <3>1. ToSet(batch[c]) \subseteq Jobs
      BY DEF TypeOK, ToSet
    <3> QED BY <1>2, <3>1 DEF Push, TypeOK
  <2>3. stopping => Queued' \subseteq Queued \cup late'
    BY <1>2, <2>1 DEF Push
  <2>4. TypeOK'
    BY <1>2, <2>1, <2>2 DEF Push, TypeOK
  <2>5. DrainInv'
    BY <1>2, <2>2, <2>3 DEF Push, DrainInv, TypeOK
  <2> QED BY <1>2, <2>4, <2>5 DEF Push, ControlInv, ClientInv
<1>3. CASE Notify(c)
  <2>1. /\ wpc' \in [Workers -> {"none", "lock", "checked", "waiting", "busy", "exited"}]
        /\ \A w \in Workers : wpc'[w] = wpc[w] \/ (wpc[w] = "waiting" /\ wpc'[w] = "lock")
    BY <1>3 DEF Notify, WakeAll, Sleeping, TypeOK
  <2>2. batch' \in [Clients -> Seq(Jobs)]
    BY <1>3, EmptyElements DEF Notify, TypeOK
  <2> QED
    BY <1>3, <2>1, <2>2 DEF Notify, TypeOK, ControlInv, DrainInv, ClientInv, Queued
<1> QED BY <1>1, <1>2, <1>3 DEF Client

LEMMA WorkerSteps ==
  ASSUME NEW w \in Workers, IInv, Worker(w)
  PROVE  IInv'
<1> USE DEF IInv, clientVars, ctlVars, workerVars
<1>1. CASE Exit(w)
  <2>1. Queued = {}
    BY <1>1, EmptyElements DEF Exit, Queued
  <2> QED
    BY <1>1, <2>1 DEF Exit, TypeOK, ControlInv, DrainInv, ClientInv, Queued
<1>2. CASE Pop(w)
  <2>1. queue' \in Seq(Jobs) /\ Head(queue) \in Jobs /\ Queued' \subseteq Queued
    BY <1>2, PoppedElements DEF Pop, TypeOK, Queued
  <2> QED
    BY <1>2, <2>1, NoJobAssumption
       DEF Pop, PopLocked, TypeOK, ControlInv, DrainInv, ClientInv
<1>3. CASE PredicateFalse(w) \/ Sleep(w) \/ WakeSpuriously(w)
  BY <1>3 DEF PredicateFalse, Sleep, WakeSpuriously, TypeOK, ControlInv, DrainInv,
              ClientInv, Queued
<1>4. CASE Finish(w)
  BY <1>4 DEF Finish, TypeOK, ControlInv, DrainInv, ClientInv, Queued
<1> QED BY <1>1, <1>2, <1>3, <1>4 DEF Worker

LEMMA NextIInv == IInv /\ [Next]_vars => IInv'
<1> SUFFICES ASSUME IInv, [Next]_vars PROVE IInv'
  OBVIOUS
<1>1. CASE CancelPending
  <2>1. queue' \in Seq(Jobs) /\ Queued' = {}
    BY <1>1, EmptyElements DEF CancelPending, Queued
  <2>2. Queued \subseteq Jobs
    BY DEF IInv, TypeOK, Queued, ToSet
  <2> QED
    BY <1>1, <2>1, <2>2
       DEF CancelPending, IInv, TypeOK, ControlInv, DrainInv, ClientInv,
           clientVars, ctlVars, workerVars
<1>2. CASE UNCHANGED vars
  BY <1>2 DEF vars, clientVars, ctlVars, workerVars, IInv, TypeOK, ControlInv,
              DrainInv, ClientInv, Queued
<1> QED BY <1>1, <1>2, ControlSteps, ClientSteps, WorkerSteps DEF Next

LEMMA IInvHolds == Spec => []IInv
BY InitIInv, NextIInv, PTL DEF Spec

(* Types, and that a worker has a job exactly while it runs one.           *)
THEOREM TypeCorrect == Spec => []TypeOK
<1>1. IInv => TypeOK
  BY DEF IInv
<1> QED BY <1>1, IInvHolds, PTL

(* stop() does not return while a handler runs.                            *)
THEOREM StoppedMeansQuietHolds == Spec => []StoppedMeansQuiet
<1>1. IInv => StoppedMeansQuiet
  BY DEF IInv, ControlInv, TypeOK, StoppedMeansQuiet, Running
<1> QED BY <1>1, IInvHolds, PTL

(* stop() leaves no job behind that was queued before it.                  *)
THEOREM StopDrainsHolds == Spec => []StopDrains
<1>1. IInv => StopDrains
  BY DEF IInv, DrainInv, StopDrains
<1> QED BY <1>1, IInvHolds, PTL

(* The scheduler implements the job pool the scan engine relies on.        *)
THEOREM ImplementationHolds == Spec => ImplementsJobPool
<1>1. Init => Pool!JPInit
  BY DEF Init, Pool!JPInit
<1>2. IInv /\ [Next]_vars => [PoolStep]_(Pool!jpVars)
  <2> SUFFICES ASSUME IInv, [Next]_vars PROVE [PoolStep]_(Pool!jpVars)
    OBVIOUS
  <2>1. CASE CancelPending
    BY <2>1 DEF CancelPending, workerVars, Pool!CancelAll, PoolStep
  <2>2. CASE UNCHANGED vars
    BY <2>2 DEF vars, workerVars, Pool!jpVars
  <2>3. CASE Control
    BY <2>3 DEF Control, Start, StopFlag, StopNotify, StopJoined, workerVars, Pool!jpVars
  <2>4. ASSUME NEW c \in Clients, Client(c) PROVE [PoolStep]_(Pool!jpVars)
    <3>1. CASE Push(c)
      BY <3>1 DEF Push, workerVars, Pool!SubmitAll, PoolStep
    <3>2. CASE UNCHANGED <<queue, job>>
      BY <3>2 DEF Pool!jpVars
    <3> QED BY <2>4, <3>1, <3>2 DEF Client, Submit, Notify, workerVars
  <2>5. ASSUME NEW w \in Workers, Worker(w) PROVE [PoolStep]_(Pool!jpVars)
    <3>1. CASE Pop(w)
      BY <3>1 DEF Pop, PopLocked, IInv, TypeOK, Pool!StartJob, PoolStep
    <3>2. CASE Finish(w)
      BY <3>2 DEF Finish, IInv, TypeOK, Pool!EndJob, PoolStep
    <3>3. CASE UNCHANGED <<queue, job>>
      BY <3>3 DEF Pool!jpVars
    <3> QED
      BY <2>5, <3>1, <3>2, <3>3
         DEF Worker, Exit, PredicateFalse, Sleep, WakeSpuriously
  <2> QED BY <2>1, <2>2, <2>3, <2>4, <2>5 DEF Next
<1> QED BY <1>1, <1>2, IInvHolds, PTL DEF Spec, ImplementsJobPool
-----------------------------------------------------------------------------
(* Every job has one place.  Six sets that share nothing and together are  *)
(* all the jobs:                                                           *)
Apart(submitting, flight, waiting, run, done, dropped) ==
  /\ Jobs = submitting \cup flight \cup waiting \cup run \cup done \cup dropped
  /\ done \cap dropped = {}
  /\ run \cap (done \cup dropped) = {}
  /\ waiting \cap (run \cup done \cup dropped) = {}
  /\ flight \cap (waiting \cup run \cup done \cup dropped) = {}
  /\ submitting \cap (flight \cup waiting \cup run \cup done \cup dropped) = {}

Distinct(s) == \A i, k \in DOMAIN s : s[i] = s[k] => i = k
Pushing     == {c \in Clients : cpc[c] = "pushing"}

(* ... and within its place it is there once: at one position of the queue *)
(* or of one client's batch, or with one worker.                           *)
PlaceInv ==
  /\ Apart(fresh, InFlight, Queued, Running, finished, cancelled)
  /\ Distinct(queue)
  /\ \A w, v \in Workers : job[w] = job[v] /\ job[w] # NoJob => w = v
  /\ \A c \in Pushing : Distinct(batch[c])
  /\ \A c, d \in Pushing : c # d => ToSet(batch[c]) \cap ToSet(batch[d]) = {}

LEMMA FlightIs == InFlight = UNION {ToSet(batch[c]) : c \in Pushing}
BY DEF InFlight, Pushing

LEMMA DisjointUnion ==
  ASSUME NEW S, NEW T, IsFiniteSet(S), IsFiniteSet(T), S \cap T = {}
  PROVE  /\ IsFiniteSet(S \cup T)
         /\ Cardinality(S) \in Nat /\ Cardinality(T) \in Nat
         /\ Cardinality(S \cup T) = Cardinality(S) + Cardinality(T)
<1>1. Cardinality(S) \in Nat /\ Cardinality(T) \in Nat
  BY FS_CardinalityType
<1>2. IsFiniteSet(S \cup T) /\ Cardinality(S \cup T) = Cardinality(S) + Cardinality(T) - 0
  BY FS_Union, FS_EmptySet
<1> QED
  BY <1>1, <1>2

LEMMA ApartCounts ==
  ASSUME NEW S1, NEW S2, NEW S3, NEW S4, NEW S5, NEW S6, Apart(S1, S2, S3, S4, S5, S6)
  PROVE  Cardinality(S1) + Cardinality(S2) + Cardinality(S3) + Cardinality(S4)
           + Cardinality(S5) + Cardinality(S6) = Cardinality(Jobs)
<1> DEFINE T5 == S5 \cup S6
           T4 == S4 \cup T5
           T3 == S3 \cup T4
           T2 == S2 \cup T3
           T1 == S1 \cup T2
<1>1. /\ Jobs = T1
      /\ S1 \cap T2 = {} /\ S2 \cap T3 = {} /\ S3 \cap T4 = {} /\ S4 \cap T5 = {} /\ S5 \cap S6 = {}
  BY Zenon DEF Apart
<1>2. /\ IsFiniteSet(S1) /\ IsFiniteSet(S2) /\ IsFiniteSet(S3)
      /\ IsFiniteSet(S4) /\ IsFiniteSet(S5) /\ IsFiniteSet(S6)
  <2>1. /\ S1 \in SUBSET Jobs /\ S2 \in SUBSET Jobs /\ S3 \in SUBSET Jobs
        /\ S4 \in SUBSET Jobs /\ S5 \in SUBSET Jobs /\ S6 \in SUBSET Jobs
    BY DEF Apart
  <2> QED
    BY <2>1, JobsAssumption, FS_Subset
<1>3. /\ IsFiniteSet(T5) /\ Cardinality(T5) = Cardinality(S5) + Cardinality(S6)
      /\ Cardinality(S5) \in Nat /\ Cardinality(S6) \in Nat
  BY <1>1, <1>2, DisjointUnion
<1>4. IsFiniteSet(T4) /\ Cardinality(T4) = Cardinality(S4) + Cardinality(T5) /\ Cardinality(S4) \in Nat
  BY <1>1, <1>2, <1>3, DisjointUnion
<1>5. IsFiniteSet(T3) /\ Cardinality(T3) = Cardinality(S3) + Cardinality(T4) /\ Cardinality(S3) \in Nat
  BY <1>1, <1>2, <1>4, DisjointUnion
<1>6. IsFiniteSet(T2) /\ Cardinality(T2) = Cardinality(S2) + Cardinality(T3) /\ Cardinality(S2) \in Nat
  BY <1>1, <1>2, <1>5, DisjointUnion
<1>7. Cardinality(T1) = Cardinality(S1) + Cardinality(T2) /\ Cardinality(S1) \in Nat
  BY <1>1, <1>2, <1>6, DisjointUnion
<1> HIDE DEF T1, T2, T3, T4, T5
<1> QED
  BY <1>1, <1>3, <1>4, <1>5, <1>6, <1>7

LEMMA DistinctCounted ==
  ASSUME NEW s \in Seq(Jobs), Distinct(s)
  PROVE  Cardinality(ToSet(s)) = Len(s)
<1>1. Len(s) \in Nat /\ DOMAIN s = 1 .. Len(s) /\ s \in [1 .. Len(s) -> ToSet(s)]
  BY DEF ToSet
<1>2. s \in Bijection(1 .. Len(s), ToSet(s))
  BY <1>1 DEF Distinct, ToSet, Bijection, Injection, Surjection, IsInjective
<1>3. IsFiniteSet(1 .. Len(s)) /\ Cardinality(1 .. Len(s)) = Len(s)
  BY <1>1, FS_Interval
<1> QED
  BY <1>2, <1>3, FS_Bijection DEF ExistsBijection

LEMMA RunningCounted ==
  ASSUME TypeOK, PlaceInv
  PROVE  Cardinality({w \in Workers : job[w] # NoJob}) = Cardinality(Running)
<1> DEFINE W == {w \in Workers : job[w] # NoJob}
           f == [w \in W |-> job[w]]
<1>1. f \in [W -> Running]
  BY DEF Running
<1>2. \A w, v \in W : f[w] = f[v] => w = v
  BY DEF PlaceInv
<1>3. \A j \in Running : \E w \in W : f[w] = j
  BY DEF Running
<1>4. f \in Bijection(W, Running)
  <2> HIDE DEF W, f
  <2> QED
    BY <1>1, <1>2, <1>3 DEF Bijection, Injection, Surjection, IsInjective
<1>5. IsFiniteSet(Running)
  <2>1. Running \in SUBSET Jobs
    BY DEF TypeOK, Running
  <2> QED
    BY <2>1, JobsAssumption, FS_Subset
<1>6. IsFiniteSet(W)
  BY <1>4, <1>5, FS_Injection DEF Bijection
<1>7. Cardinality(W) = Cardinality(Running)
  BY <1>4, <1>6, FS_Bijection DEF ExistsBijection
<1> QED
  BY <1>7

LEMMA PlacesImply == TypeOK /\ PlaceInv => JobsConserved
<1> SUFFICES ASSUME TypeOK, PlaceInv PROVE JobsConserved
  OBVIOUS
<1>1. Apart(fresh, InFlight, Queued, Running, finished, cancelled)
  BY DEF PlaceInv
<1>2. Jobs = fresh \cup InFlight \cup Queued \cup Running \cup finished \cup cancelled
  BY <1>1 DEF Apart
<1>3. Cardinality(Queued) = Len(queue)
  BY DistinctCounted DEF PlaceInv, TypeOK, Queued
<1>4. Cardinality({w \in Workers : job[w] # NoJob}) = Cardinality(Running)
  BY RunningCounted
<1>5. Cardinality(fresh) + Cardinality(InFlight) + Cardinality(Queued) + Cardinality(Running)
        + Cardinality(finished) + Cardinality(cancelled) = Cardinality(Jobs)
  BY <1>1, ApartCounts
<1> QED
  BY <1>2, <1>3, <1>4, <1>5 DEF JobsConserved

-----------------------------------------------------------------------------
(* How the sequences behind two of the places change.                      *)
LEMMA OrderedBatch ==
  ASSUME NEW js, js \subseteq Jobs, NEW order \in SetToSeqs(js)
  PROVE  order \in Seq(Jobs) /\ Distinct(order) /\ ToSet(order) = js
<1> DEFINE n == Cardinality(js)
<1>1. IsFiniteSet(js) /\ n \in Nat
  BY JobsAssumption, FS_Subset, FS_CardinalityType
<1>2. order \in [1 .. n -> js] /\ \A i, k \in 1 .. n : i # k => order[i] # order[k]
  BY DEF SetToSeqs
<1>3. IsFiniteSet(1 .. n) /\ Cardinality(1 .. n) = n
  BY <1>1, FS_Interval
<1> HIDE DEF n
<1>4. order \in Seq(Jobs) /\ Distinct(order)
  BY <1>1, <1>2 DEF Distinct
<1>5. order \in Injection(1 .. n, js)
  BY <1>2 DEF Injection, IsInjective
<1>6. order \in Surjection(1 .. n, js)
  BY <1>1, <1>3, <1>5, FS_Injection DEF n
<1> QED
  BY <1>2, <1>4, <1>6 DEF Surjection, ToSet

LEMMA PushedDistinct ==
  ASSUME NEW s \in Seq(Jobs), NEW t \in Seq(Jobs), Distinct(s), Distinct(t),
         ToSet(s) \cap ToSet(t) = {}
  PROVE  Distinct(s \o t)
<1>1. /\ DOMAIN (s \o t) = 1 .. Len(s) + Len(t)
      /\ DOMAIN s = 1 .. Len(s) /\ DOMAIN t = 1 .. Len(t)
      /\ Len(s) \in Nat /\ Len(t) \in Nat
      /\ \A i \in 1 .. Len(s) : (s \o t)[i] = s[i]
      /\ \A i \in 1 .. Len(t) : (s \o t)[Len(s) + i] = t[i]
  OBVIOUS
<1>2. ASSUME NEW i \in DOMAIN (s \o t), i \notin 1 .. Len(s)
      PROVE  i - Len(s) \in DOMAIN t /\ (s \o t)[i] = t[i - Len(s)] /\ i \in Int
  <2>1. i - Len(s) \in 1 .. Len(t) /\ i = Len(s) + (i - Len(s)) /\ i \in Int
    BY <1>1, <1>2
  <2> QED
    BY <1>1, <2>1
<1>3. \A i \in DOMAIN s, k \in DOMAIN t : s[i] # t[k]
  BY DEF ToSet
<1> SUFFICES ASSUME NEW i \in DOMAIN (s \o t), NEW k \in DOMAIN (s \o t), (s \o t)[i] = (s \o t)[k]
             PROVE  i = k
  BY DEF Distinct
<1>4. CASE i \in 1 .. Len(s) /\ k \in 1 .. Len(s)
  BY <1>1, <1>4 DEF Distinct
<1>5. CASE i \in 1 .. Len(s) /\ k \notin 1 .. Len(s)
  BY <1>1, <1>2, <1>3, <1>5
<1>6. CASE i \notin 1 .. Len(s) /\ k \in 1 .. Len(s)
  BY <1>1, <1>2, <1>3, <1>6
<1>7. CASE i \notin 1 .. Len(s) /\ k \notin 1 .. Len(s)
  <2>1. i - Len(s) = k - Len(s) /\ i \in Int /\ k \in Int
    BY <1>2, <1>7 DEF Distinct
  <2> QED
    BY <1>1, <2>1
<1> QED
  BY <1>4, <1>5, <1>6, <1>7

LEMMA PoppedDistinct ==
  ASSUME NEW s \in Seq(Jobs), s # <<>>, Distinct(s)
  PROVE  /\ Head(s) \in ToSet(s) /\ ToSet(Tail(s)) = ToSet(s) \ {Head(s)}
         /\ Distinct(Tail(s))
<1>1. /\ Head(s) = s[1] /\ 1 \in DOMAIN s
      /\ DOMAIN Tail(s) = 1 .. Len(s) - 1
      /\ \A i \in 1 .. Len(s) - 1 : Tail(s)[i] = s[i + 1]
      /\ DOMAIN s = 1 .. Len(s) /\ Len(s) \in Nat
  OBVIOUS
<1>2. ASSUME NEW i \in DOMAIN Tail(s)
      PROVE  i + 1 \in DOMAIN s /\ Tail(s)[i] = s[i + 1] /\ i + 1 # 1 /\ i \in Int
  BY <1>1
<1>3. ASSUME NEW i \in DOMAIN s, i # 1
      PROVE  i - 1 \in DOMAIN Tail(s) /\ Tail(s)[i - 1] = s[i]
  <2>1. i - 1 \in 1 .. Len(s) - 1 /\ (i - 1) + 1 = i
    BY <1>1, <1>3
  <2> QED
    BY <1>1, <2>1
<1>4. ToSet(Tail(s)) \subseteq ToSet(s) \ {Head(s)}
  BY <1>1, <1>2 DEF ToSet, Distinct
<1>5. ToSet(s) \ {Head(s)} \subseteq ToSet(Tail(s))
  <2> SUFFICES ASSUME NEW i \in DOMAIN s, s[i] # Head(s) PROVE s[i] \in ToSet(Tail(s))
    BY DEF ToSet
  <2> QED
    BY <1>1, <1>3 DEF ToSet
<1>6. Distinct(Tail(s))
  <2> SUFFICES ASSUME NEW i \in DOMAIN Tail(s), NEW k \in DOMAIN Tail(s), Tail(s)[i] = Tail(s)[k]
               PROVE  i = k
    BY DEF Distinct
  <2>1. i + 1 = k + 1 /\ i \in Int /\ k \in Int
    BY <1>2 DEF Distinct
  <2> QED
    BY <2>1
<1> QED
  BY <1>1, <1>4, <1>5, <1>6 DEF ToSet

-----------------------------------------------------------------------------
(* Steps that move no job.                                                 *)
LEMMA PlacesStay ==
  ASSUME PlaceInv, UNCHANGED <<fresh, queue, job, finished, cancelled>>,
         Pushing' = Pushing, \A c \in Pushing : batch'[c] = batch[c]
  PROVE  PlaceInv'
<1>1. InFlight' = InFlight /\ Queued' = Queued /\ Running' = Running
  <2>1. InFlight' = UNION {ToSet(batch'[c]) : c \in Pushing'}
    BY DEF InFlight, Pushing
  <2>2. {ToSet(batch'[c]) : c \in Pushing'} = {ToSet(batch[c]) : c \in Pushing}
    OBVIOUS
  <2> QED
    BY <2>1, <2>2, FlightIs DEF Queued, Running
<1> QED
  BY <1>1 DEF PlaceInv

LEMMA SubmitMoves ==
  ASSUME NEW c \in Clients, IInv, PlaceInv, Submit(c)
  PROVE  PlaceInv'
<1>1. PICK js \in (SUBSET fresh) \ {{}} :
        /\ \E order \in SetToSeqs(js) : batch' = [batch EXCEPT ![c] = order]
        /\ fresh' = fresh \ js
  BY DEF Submit
<1>2. PICK order \in SetToSeqs(js) : batch' = [batch EXCEPT ![c] = order]
  BY <1>1
<1>3. order \in Seq(Jobs) /\ Distinct(order) /\ ToSet(order) = js
  <2>1. js \subseteq Jobs
    BY <1>1 DEF IInv, TypeOK
  <2> QED
    BY <2>1, OrderedBatch
<1>4. /\ cpc \in [Clients -> {"ready", "pushing", "notifying"}] /\ cpc[c] = "ready"
      /\ cpc' = [cpc EXCEPT ![c] = "pushing"] /\ batch \in [Clients -> Seq(Jobs)]
      /\ UNCHANGED <<queue, job, finished, cancelled>>
  BY DEF Submit, IInv, TypeOK, workerVars
<1>5. /\ Pushing' = Pushing \cup {c} /\ c \notin Pushing
      /\ batch'[c] = order /\ \A d \in Pushing : batch'[d] = batch[d]
  BY <1>2, <1>4 DEF Pushing
<1>6. InFlight' = InFlight \cup js
  <2>1. InFlight' = UNION {ToSet(batch'[d]) : d \in Pushing \cup {c}}
    BY <1>5 DEF InFlight, Pushing
  <2>2. \A d \in Pushing : ToSet(batch'[d]) = ToSet(batch[d])
    BY <1>5
  <2>3. ToSet(batch'[c]) = js
    BY <1>3, <1>5
  <2> QED
    BY <2>1, <2>2, <2>3, FlightIs
<1>7. Queued' = Queued /\ Running' = Running
  BY <1>4 DEF Queued, Running
<1>8. Apart(fresh, InFlight, Queued, Running, finished, cancelled)'
  <2>1. Apart(fresh, InFlight, Queued, Running, finished, cancelled)
    BY DEF PlaceInv
  <2>2. js \subseteq fresh
    BY <1>1
  <2> QED
    BY <1>1, <1>4, <1>6, <1>7, <2>1, <2>2 DEF Apart
<1>9. \A d \in Pushing : ToSet(batch[d]) \cap js = {}
  <2>1. \A d \in Pushing : ToSet(batch[d]) \subseteq InFlight
    BY FlightIs
  <2>2. InFlight \cap fresh = {}
    BY DEF PlaceInv, Apart
  <2> QED
    BY <1>1, <2>1, <2>2
<1>10. /\ \A d \in Pushing' : Distinct(batch'[d])
       /\ \A d, e \in Pushing' : d # e => ToSet(batch'[d]) \cap ToSet(batch'[e]) = {}
  BY <1>3, <1>5, <1>9 DEF PlaceInv
<1> QED
  BY <1>4, <1>8, <1>10 DEF PlaceInv

LEMMA PushMoves ==
  ASSUME NEW c \in Clients, IInv, PlaceInv, Push(c)
  PROVE  PlaceInv'
<1>1. /\ cpc \in [Clients -> {"ready", "pushing", "notifying"}] /\ cpc[c] = "pushing"
      /\ cpc' = [cpc EXCEPT ![c] = "notifying"]
      /\ queue' = queue \o batch[c] /\ queue \in Seq(Jobs) /\ batch[c] \in Seq(Jobs)
      /\ UNCHANGED <<batch, fresh, job, finished, cancelled>>
  BY DEF Push, IInv, TypeOK, workerVars
<1>2. /\ c \in Pushing /\ Pushing' = Pushing \ {c}
  BY <1>1 DEF Pushing
<1> DEFINE js == ToSet(batch[c])
<1>3. \A d \in Pushing : ToSet(batch[d]) \subseteq InFlight
  BY FlightIs
<1>4. \A d \in Pushing \ {c} : ToSet(batch[d]) \cap js = {}
  BY <1>2 DEF PlaceInv
<1>5. InFlight' = InFlight \ js
  <2>1. InFlight' = UNION {ToSet(batch[d]) : d \in Pushing \ {c}}
    BY <1>1, <1>2 DEF InFlight, Pushing
  <2>2. UNION {ToSet(batch[d]) : d \in Pushing \ {c}} = (UNION {ToSet(batch[d]) : d \in Pushing}) \ js
    BY <1>2, <1>4
  <2> QED
    BY <2>1, <2>2, FlightIs
<1>6. Queued' = Queued \cup js /\ Running' = Running
  BY <1>1, PushedElements DEF Queued, Running
<1>7. js \subseteq InFlight /\ InFlight \cap Queued = {}
  BY <1>2, <1>3 DEF PlaceInv, Apart
<1>8. Apart(fresh, InFlight, Queued, Running, finished, cancelled)'
  <2>1. Apart(fresh, InFlight, Queued, Running, finished, cancelled)
    BY DEF PlaceInv
  <2> HIDE DEF js
  <2> QED
    BY <1>1, <1>5, <1>6, <1>7, <2>1 DEF Apart
<1>9. Distinct(queue')
  <2>1. Distinct(queue) /\ Distinct(batch[c])
    BY <1>2 DEF PlaceInv
  <2>2. ToSet(queue) \cap ToSet(batch[c]) = {}
    BY <1>7 DEF Queued
  <2> QED
    BY <1>1, <2>1, <2>2, PushedDistinct
<1> QED
  BY <1>1, <1>2, <1>8, <1>9 DEF PlaceInv

LEMMA CancelMoves ==
  ASSUME IInv, PlaceInv, CancelPending
  PROVE  PlaceInv'
<1>1. /\ queue' = <<>> /\ cancelled' = cancelled \cup Queued
      /\ UNCHANGED <<cpc, batch, fresh, job, finished>>
  BY DEF CancelPending, workerVars, clientVars
<1>2. InFlight' = InFlight /\ Running' = Running /\ Pushing' = Pushing
  BY <1>1 DEF InFlight, Running, Pushing
<1>3. Queued' = {} /\ Distinct(queue')
  BY <1>1, EmptyElements DEF Queued, Distinct
<1>4. Apart(fresh, InFlight, Queued, Running, finished, cancelled)'
  <2>1. Apart(fresh, InFlight, Queued, Running, finished, cancelled)
    BY DEF PlaceInv
  <2> QED
    BY <1>1, <1>2, <1>3, <2>1 DEF Apart
<1> QED
  BY <1>1, <1>2, <1>3, <1>4 DEF PlaceInv

LEMMA PopMoves ==
  ASSUME NEW w \in Workers, IInv, PlaceInv, Pop(w)
  PROVE  PlaceInv'
<1> DEFINE j == Head(queue)
<1>1. /\ queue \in Seq(Jobs) /\ queue # <<>> /\ queue' = Tail(queue)
      /\ job \in [Workers -> Jobs \cup {NoJob}] /\ job' = [job EXCEPT ![w] = j]
      /\ job[w] = NoJob
      /\ UNCHANGED <<cpc, batch, fresh, finished, cancelled>>
  BY DEF Pop, PopLocked, IInv, TypeOK, clientVars
<1>2. j \in Queued /\ Queued' = Queued \ {j} /\ Distinct(queue')
  BY <1>1, PoppedDistinct DEF PlaceInv, Queued
<1>3. j \in Jobs /\ j # NoJob
  BY <1>1, PoppedElements, NoJobAssumption
<1> HIDE DEF j
<1>4. Running' = Running \cup {j}
  BY <1>1, <1>3 DEF Running
<1>5. InFlight' = InFlight /\ Pushing' = Pushing
  BY <1>1 DEF InFlight, Pushing
<1>6. Apart(fresh, InFlight, Queued, Running, finished, cancelled)'
  <2>1. Apart(fresh, InFlight, Queued, Running, finished, cancelled)
    BY DEF PlaceInv
  <2> QED
    BY <1>1, <1>2, <1>4, <1>5, <2>1 DEF Apart
<1>7. \A v \in Workers : job[v] # j
  <2>1. j \notin Running
    BY <1>2 DEF PlaceInv, Apart
  <2> QED
    BY <1>3, <2>1 DEF Running
<1>8. \A v, u \in Workers : job'[v] = job'[u] /\ job'[v] # NoJob => v = u
  BY <1>1, <1>7 DEF PlaceInv
<1> QED
  BY <1>1, <1>2, <1>5, <1>6, <1>8 DEF PlaceInv

LEMMA FinishMoves ==
  ASSUME NEW w \in Workers, IInv, PlaceInv, Finish(w)
  PROVE  PlaceInv'
<1>1. /\ job \in [Workers -> Jobs \cup {NoJob}] /\ job' = [job EXCEPT ![w] = NoJob]
      /\ job[w] # NoJob /\ finished' = finished \cup {job[w]}
      /\ UNCHANGED <<queue, cpc, batch, fresh, cancelled>>
  BY DEF Finish, IInv, TypeOK, clientVars
<1>2. Running' = Running \ {job[w]} /\ job[w] \in Running
  BY <1>1 DEF Running, PlaceInv
<1>3. InFlight' = InFlight /\ Pushing' = Pushing /\ Queued' = Queued
  BY <1>1 DEF InFlight, Pushing, Queued
<1>4. Apart(fresh, InFlight, Queued, Running, finished, cancelled)'
  <2>1. Apart(fresh, InFlight, Queued, Running, finished, cancelled)
    BY DEF PlaceInv
  <2> QED
    BY <1>1, <1>2, <1>3, <2>1 DEF Apart
<1>5. \A v, u \in Workers : job'[v] = job'[u] /\ job'[v] # NoJob => v = u
  BY <1>1 DEF PlaceInv
<1> QED
  BY <1>1, <1>3, <1>4, <1>5 DEF PlaceInv

LEMMA NextMoves == IInv /\ PlaceInv /\ [Next]_vars => PlaceInv'
<1> SUFFICES ASSUME IInv, PlaceInv, [Next]_vars PROVE PlaceInv'
  OBVIOUS
<1>1. CASE UNCHANGED <<fresh, queue, job, finished, cancelled, cpc, batch>>
  BY <1>1, PlacesStay DEF Pushing
<1>2. CASE Control
  BY <1>1, <1>2 DEF Control, Start, StopFlag, StopNotify, StopJoined, workerVars, clientVars
<1>3. ASSUME NEW c \in Clients, Client(c) PROVE PlaceInv'
  <2>1. CASE Notify(c)
    <3>1. Pushing' = Pushing /\ \A d \in Pushing : batch'[d] = batch[d]
      BY <2>1 DEF Notify, Pushing, IInv, TypeOK
    <3> QED
      BY <2>1, <3>1, PlacesStay DEF Notify
  <2> QED
    BY <1>3, <2>1, SubmitMoves, PushMoves DEF Client
<1>4. ASSUME NEW w \in Workers, Worker(w) PROVE PlaceInv'
  <2>1. CASE Exit(w) \/ PredicateFalse(w) \/ Sleep(w) \/ WakeSpuriously(w)
    BY <1>1, <2>1 DEF Exit, PredicateFalse, Sleep, WakeSpuriously, clientVars
  <2> QED
    BY <1>4, <2>1, PopMoves, FinishMoves DEF Worker
<1>5. CASE UNCHANGED vars
  BY <1>1, <1>5 DEF vars, workerVars, clientVars
<1> QED
  BY <1>2, <1>3, <1>4, <1>5, CancelMoves DEF Next

(* Every submitted job is in exactly one place, and there once: none is    *)
(* run twice, run after it was cancelled, or lost between the queue and a  *)
(* worker.                                                                 *)
THEOREM JobsConservedHolds == Spec => []JobsConserved
<1>1. Init => PlaceInv
  <2> SUFFICES ASSUME Init PROVE PlaceInv
    OBVIOUS
  <2>1. Pushing = {} /\ Queued = {} /\ Distinct(queue) /\ Running = {}
    BY EmptyElements DEF Init, Pushing, Queued, Distinct, Running
  <2>2. InFlight = {}
    BY <2>1, FlightIs
  <2>3. Apart(fresh, InFlight, Queued, Running, finished, cancelled)
    BY <2>1, <2>2 DEF Init, Apart
  <2> QED
    BY <2>1, <2>3 DEF PlaceInv, Init
<1>2. IInv => TypeOK
  BY DEF IInv
<1> QED
  BY <1>1, <1>2, NextMoves, PlacesImply, IInvHolds, PTL DEF Spec
=============================================================================

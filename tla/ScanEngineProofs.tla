-------------------------- MODULE ScanEngineProofs --------------------------
(***************************************************************************)
(* Proofs about ScanEngine, for any number of scans, workers and files:    *)
(* types, and that a scan reported as Completed has seen all its files.    *)
(***************************************************************************)
EXTENDS ScanEngine, FiniteSetTheorems, TLAPS

(* A job that is queued or being worked on is a file of a scan that has    *)
(* handed its files over.                                                  *)
Proper(j) == /\ j[2] \in 1..total[j[1]]
             /\ caller[j[1]] \notin {"before", "inline", "reading"}

(* Every job is in one place at most: once in the queue, or with one       *)
(* worker.                                                                 *)
JobInv ==
  /\ \A i, k \in DOMAIN pending : pending[i] = pending[k] => i = k
  /\ \A j \in ToSet(pending) : Proper(j) /\ \A w \in Workers : busy[w] # j
  /\ \A w \in Workers : busy[w] # NoJob => Proper(busy[w])
  /\ \A w, v \in Workers : busy[w] # NoJob /\ busy[w] = busy[v] => w = v

(* The files that were counted are as many as the counter says, they have  *)
(* no job left, and those among them that are infected are in the findings.*)
CountedAs(s, done) ==
  /\ Cardinality(done) = scanned[s]
  /\ \A i \in done : /\ <<s, i>> \notin ToSet(pending)
                     /\ \A w \in Workers : busy[w] # <<s, i>>
                     /\ <<s, i>> \in Infected => i \in findings[s]
  /\ caller[s] \in {"inline", "reading"} => done = 1..scanned[s]

Counted(s) == \E done \in SUBSET (1..total[s]) : CountedAs(s, done)

(* Where all files must have been counted, and what the findings are.      *)
Progress(s) ==
  /\ caller[s] = "before" =>
       status[s] = "Idle" /\ total[s] = 0 /\ scanned[s] = 0 /\ findings[s] = {}
  /\ caller[s] = "reading" => scanned[s] < total[s]
  /\ findings[s] \subseteq InfectedIn(s)
  /\ \/ status[s] = "Completed" \/ caller[s] = "completing"
     \/ caller[s] = "ended" /\ status[s] = "Running"
     => scanned[s] = total[s]

IInv == TypeOK /\ JobInv /\ \A s \in Scans : Progress(s) /\ Counted(s)
-----------------------------------------------------------------------------
LEMMA SubmittedJobs ==
  ASSUME NEW p \in Seq(Jobs), NEW s \in Scans, NEW n \in 0..MaxFiles
  PROVE  /\ p \o FilesOf(s, n) \in Seq(Jobs)
         /\ ToSet(p \o FilesOf(s, n)) = ToSet(p) \cup {<<s, i>> : i \in 1..n}
         /\ (\A i, k \in DOMAIN p : p[i] = p[k] => i = k) /\ (\A j \in ToSet(p) : j[1] # s)
              => \A i, k \in DOMAIN (p \o FilesOf(s, n)) :
                   (p \o FilesOf(s, n))[i] = (p \o FilesOf(s, n))[k] => i = k
<1>. DEFINE q == FilesOf(s, n)
<1>1. /\ q \in Seq(Jobs) /\ Len(q) = n
      /\ \A i \in 1..n : q[i] = <<s, i>>
  BY LimitAssumption DEF FilesOf, Jobs
<1>. HIDE DEF q
<1>2. /\ p \o q \in Seq(Jobs)
      /\ DOMAIN (p \o q) = 1..Len(p) + n /\ DOMAIN p = 1..Len(p) /\ Len(p) \in Nat
      /\ \A i \in 1..Len(p) : (p \o q)[i] = p[i]
      /\ \A i \in 1..n : (p \o q)[Len(p) + i] = <<s, i>>
  <2>1. q \in Seq(Jobs)
    BY <1>1
  <2>2. /\ p \o q \in Seq(Jobs)
        /\ DOMAIN (p \o q) = 1..Len(p) + Len(q) /\ DOMAIN p = 1..Len(p) /\ Len(p) \in Nat
        /\ \A i \in 1..Len(p) : (p \o q)[i] = p[i]
        /\ \A i \in 1..Len(q) : (p \o q)[Len(p) + i] = q[i]
    BY <2>1
  <2>3. n \in Nat
    BY LimitAssumption
  <2>. QED BY <1>1, <2>2, <2>3
<1>3. ASSUME NEW i \in 1..Len(p) + n, i \notin 1..Len(p)
      PROVE  i - Len(p) \in 1..n /\ (p \o q)[i] = <<s, i - Len(p)>>
  <2>1. i - Len(p) \in 1..n /\ i = Len(p) + (i - Len(p))
    BY <1>3, <1>2
  <2>. QED BY <2>1, <1>2
<1>4. ToSet(p \o q) \subseteq ToSet(p) \cup {<<s, i>> : i \in 1..n}
  BY <1>2, <1>3 DEF ToSet
<1>5. ToSet(p) \subseteq ToSet(p \o q)
  BY <1>2 DEF ToSet
<1>6. ASSUME NEW i \in 1..n PROVE <<s, i>> \in ToSet(p \o q)
  <2>1. Len(p) + i \in DOMAIN (p \o q)
    BY <1>2
  <2>. QED BY <2>1, <1>2 DEF ToSet
<1>7. ASSUME \A i, k \in DOMAIN p : p[i] = p[k] => i = k, \A j \in ToSet(p) : j[1] # s,
             NEW i \in DOMAIN (p \o q), NEW k \in DOMAIN (p \o q), (p \o q)[i] = (p \o q)[k]
      PROVE  i = k
  <2>1. ASSUME NEW m \in 1..Len(p) PROVE (p \o q)[m] = p[m] /\ p[m] \in ToSet(p)
    BY <1>2 DEF ToSet
  <2>2. CASE i \in 1..Len(p) /\ k \in 1..Len(p)
    BY <1>7, <2>1, <2>2, <1>2
  <2>3. CASE i \in 1..Len(p) /\ k \notin 1..Len(p)
    BY <1>7, <2>1, <2>3, <1>2, <1>3
  <2>4. CASE i \notin 1..Len(p) /\ k \in 1..Len(p)
    BY <1>7, <2>1, <2>4, <1>2, <1>3
  <2>5. CASE i \notin 1..Len(p) /\ k \notin 1..Len(p)
    <3>1. i - Len(p) = k - Len(p)
      BY <1>7, <2>5, <1>2, <1>3
    <3>. QED BY <3>1, <1>2
  <2>. QED BY <2>2, <2>3, <2>4, <2>5
<1>. QED BY <1>2, <1>4, <1>5, <1>6, <1>7 DEF q

LEMMA StartedJob ==
  ASSUME NEW p \in Seq(Jobs), p # <<>>, \A i, k \in DOMAIN p : p[i] = p[k] => i = k
  PROVE  /\ Tail(p) \in Seq(Jobs) /\ Head(p) \in Jobs
         /\ Head(p) \in ToSet(p) /\ ToSet(Tail(p)) = ToSet(p) \ {Head(p)}
         /\ \A i, k \in DOMAIN Tail(p) : Tail(p)[i] = Tail(p)[k] => i = k
<1>1. /\ Tail(p) \in Seq(Jobs) /\ Head(p) \in Jobs /\ Head(p) = p[1]
      /\ DOMAIN Tail(p) = 1..Len(p) - 1
      /\ \A i \in 1..Len(p) - 1 : Tail(p)[i] = p[i + 1]
      /\ DOMAIN p = 1..Len(p) /\ Len(p) \in Nat \ {0}
  OBVIOUS
<1>2. ASSUME NEW i \in DOMAIN Tail(p)
      PROVE  i + 1 \in DOMAIN p /\ Tail(p)[i] = p[i + 1] /\ i + 1 # 1 /\ i \in Int
  BY <1>1
<1>3. ASSUME NEW i \in DOMAIN p, i # 1
      PROVE  i - 1 \in DOMAIN Tail(p) /\ Tail(p)[i - 1] = p[i]
  <2>1. i - 1 \in 1..Len(p) - 1 /\ (i - 1) + 1 = i
    BY <1>1, <1>3
  <2>. QED BY <1>1, <2>1
<1>4. 1 \in DOMAIN p
  BY <1>1
<1>5. ToSet(Tail(p)) \subseteq ToSet(p) \ {Head(p)}
  BY <1>1, <1>2, <1>4 DEF ToSet
<1>6. ToSet(p) \ {Head(p)} \subseteq ToSet(Tail(p))
  <2>. SUFFICES ASSUME NEW i \in DOMAIN p, p[i] # Head(p) PROVE p[i] \in ToSet(Tail(p))
    BY DEF ToSet
  <2>1. i # 1
    BY <1>1
  <2>. QED BY <1>3, <2>1 DEF ToSet
<1>7. ASSUME NEW i \in DOMAIN Tail(p), NEW k \in DOMAIN Tail(p), Tail(p)[i] = Tail(p)[k]
      PROVE  i = k
  <2>1. i + 1 = k + 1
    BY <1>2, <1>7
  <2>. QED BY <2>1, <1>2
<1>. QED BY <1>1, <1>4, <1>5, <1>6, <1>7 DEF ToSet

(* When all are counted, every file was.                                   *)
LEMMA AllCounted ==
  ASSUME TypeOK, NEW s \in Scans, NEW done \in SUBSET (1..total[s]), CountedAs(s, done),
         scanned[s] = total[s]
  PROVE  done = 1..total[s]
<1>1. total[s] \in Nat
  BY LimitAssumption DEF TypeOK
<1>2. IsFiniteSet(1..total[s]) /\ Cardinality(1..total[s]) = total[s]
  BY <1>1, FS_Interval
<1>3. Cardinality(1..total[s]) = Cardinality(done) => 1..total[s] = done
  BY <1>2, FS_Subset
<1>. QED BY <1>2, <1>3 DEF CountedAs

(* Never more are counted than there are.                                  *)
LEMMA CountBounded ==
  ASSUME TypeOK, NEW s \in Scans, NEW done \in SUBSET (1..total[s]), CountedAs(s, done)
  PROVE  IsFiniteSet(done) /\ scanned[s] <= total[s]
<1>1. total[s] \in Nat
  BY LimitAssumption DEF TypeOK
<1>2. IsFiniteSet(1..total[s]) /\ Cardinality(1..total[s]) = total[s]
  BY <1>1, FS_Interval
<1>3. IsFiniteSet(done) /\ Cardinality(done) <= Cardinality(1..total[s])
  BY <1>2, FS_Subset
<1>. QED BY <1>2, <1>3 DEF CountedAs

(* What is counted, queued and being read never adds up to more than the   *)
(* files there are: each job is an injection of its own into them.         *)
LEMMA SumBounded ==
  ASSUME IInv, NEW s \in Scans
  PROVE  scanned[s] + Cardinality({j \in ToSet(pending) : j[1] = s})
           + Cardinality(JobsOf(s)) <= total[s]
<1>. DEFINE all == 1..total[s]
            waiting == {j \in ToSet(pending) : j[1] = s}
            queued == {i \in all : <<s, i>> \in ToSet(pending)}
            read == {i \in all : \E w \in Workers : busy[w] = <<s, i>>}
<1>1. IsFiniteSet(all) /\ Cardinality(all) = total[s] /\ total[s] \in Nat
  <2>1. total[s] \in Nat
    BY LimitAssumption DEF IInv, TypeOK
  <2>. QED BY <2>1, FS_Interval
<1>2. PICK done \in SUBSET all : CountedAs(s, done)
  BY DEF IInv, Counted
<1>3. ASSUME NEW j, j \in ToSet(pending) \/ \E w \in Workers : busy[w] = j /\ j # NoJob
      PROVE  j \in Jobs /\ j = <<j[1], j[2]>> /\ Proper(j)
  <2>1. j \in Jobs /\ Proper(j)
    BY <1>3 DEF IInv, TypeOK, Pool!JPTypeOK, JobInv, ToSet
  <2>. QED BY <2>1 DEF Jobs
<1>4. IsFiniteSet(waiting) /\ Cardinality(waiting) <= Cardinality(queued)
  <2>. DEFINE f == [j \in waiting |-> j[2]]
  <2>1. ASSUME NEW j \in waiting PROVE j = <<s, j[2]>> /\ j[2] \in queued
    BY <1>3 DEF Proper
  <2>2. f \in [waiting -> queued]
    BY <2>1
  <2>3. ASSUME NEW j \in waiting, NEW k \in waiting, f[j] = f[k] PROVE j = k
    BY <2>1, <2>3
  <2>4. f \in Injection(waiting, queued)
    BY <2>2, <2>3 DEF Injection, IsInjective
  <2>5. IsFiniteSet(queued)
    BY <1>1, FS_Subset
  <2>. QED BY <2>4, <2>5, FS_Injection
<1>5. IsFiniteSet(JobsOf(s)) /\ Cardinality(JobsOf(s)) <= Cardinality(read)
  <2>. DEFINE f == [w \in JobsOf(s) |-> busy[w][2]]
  <2>1. ASSUME NEW w \in JobsOf(s)
        PROVE  w \in Workers /\ busy[w] # NoJob /\ busy[w] = <<s, busy[w][2]>> /\ busy[w][2] \in read
    BY <1>3 DEF Proper, JobsOf
  <2>2. f \in [JobsOf(s) -> read]
    BY <2>1
  <2>3. ASSUME NEW w \in JobsOf(s), NEW v \in JobsOf(s), f[w] = f[v] PROVE w = v
    BY <2>1, <2>3 DEF IInv, JobInv
  <2>4. f \in Injection(JobsOf(s), read)
    BY <2>2, <2>3 DEF Injection, IsInjective
  <2>5. IsFiniteSet(read)
    BY <1>1, FS_Subset
  <2>. QED BY <2>4, <2>5, FS_Injection
<1>6. /\ done \cap queued = {} /\ (done \cup queued) \cap read = {}
      /\ (done \cup queued) \cup read \in SUBSET all
  BY <1>2 DEF CountedAs, IInv, JobInv
<1>7. IsFiniteSet(done) /\ IsFiniteSet(queued) /\ IsFiniteSet(read)
  BY <1>1, FS_Subset
<1>. HIDE DEF all, waiting, queued, read
<1>8. ASSUME NEW A, NEW B, IsFiniteSet(A), IsFiniteSet(B), A \cap B = {}
      PROVE  IsFiniteSet(A \cup B) /\ Cardinality(A \cup B) = Cardinality(A) + Cardinality(B)
  <2>1. /\ IsFiniteSet(A \cup B)
        /\ Cardinality(A \cup B) = Cardinality(A) + Cardinality(B) - Cardinality(A \cap B)
    BY <1>8, FS_Union
  <2>2. Cardinality(A) \in Nat /\ Cardinality(B) \in Nat /\ Cardinality(A \cap B) = 0
    BY <1>8, FS_CardinalityType, FS_EmptySet
  <2>. QED BY <2>1, <2>2
<1>9. /\ IsFiniteSet(done \cup queued)
      /\ Cardinality(done \cup queued) = Cardinality(done) + Cardinality(queued)
  BY <1>8, <1>6, <1>7
<1>10. Cardinality((done \cup queued) \cup read)
        = Cardinality(done) + Cardinality(queued) + Cardinality(read)
  BY <1>8, <1>6, <1>7, <1>9
<1>11. Cardinality((done \cup queued) \cup read) <= total[s]
  BY <1>1, <1>6, FS_Subset
<1>12. /\ Cardinality(done) = scanned[s] /\ Cardinality(done) \in Nat
       /\ Cardinality(queued) \in Nat /\ Cardinality(read) \in Nat
       /\ Cardinality(waiting) \in Nat /\ Cardinality(JobsOf(s)) \in Nat
  BY <1>2, <1>4, <1>5, <1>7, FS_CardinalityType DEF CountedAs
<1>13. Cardinality(done) + Cardinality(waiting) + Cardinality(JobsOf(s)) <= total[s]
  BY <1>1, <1>4, <1>5, <1>10, <1>11, <1>12
<1>. QED BY <1>12, <1>13 DEF waiting
-----------------------------------------------------------------------------
LEMMA Numbers ==
  ASSUME TypeOK, NEW s \in Scans
  PROVE  total[s] \in Nat /\ scanned[s] \in Nat /\ total[s] <= MaxFiles /\ 1..total[s] \subseteq 1..MaxFiles
BY LimitAssumption DEF TypeOK

LEMMA JobAtHand ==
  ASSUME TypeOK, JobInv, NEW w \in Workers, busy[w] # NoJob
  PROVE  /\ busy[w] = <<busy[w][1], busy[w][2]>> /\ busy[w][1] \in Scans
         /\ busy[w][2] \in 1..total[busy[w][1]]
         /\ caller[busy[w][1]] \notin {"before", "inline", "reading"}
BY DEF TypeOK, Pool!JPTypeOK, JobInv, Proper, Jobs

LEMMA JobEnded ==
  ASSUME TypeOK, JobInv, NEW w \in Workers, JobEnds(w), UNCHANGED <<caller, total>>
  PROVE  /\ JobInv' /\ Pool!JPTypeOK' /\ busy[w] # NoJob /\ stage' \in [Workers -> {"none", "picked", "reading"}]
         /\ \A v \in Workers : stage'[v] = "none" <=> busy'[v] = NoJob
         /\ pending' = pending
         /\ \A v \in Workers : busy'[v] = IF v = w THEN NoJob ELSE busy[v]
<1>1. /\ busy' = [busy EXCEPT ![w] = NoJob] /\ pending' = pending /\ busy[w] # NoJob
      /\ stage' = [stage EXCEPT ![w] = "none"]
  BY DEF JobEnds, Pool!EndJob
<1>2. \A v \in Workers : busy'[v] = IF v = w THEN NoJob ELSE busy[v]
  BY <1>1 DEF TypeOK, Pool!JPTypeOK
<1>3. Pool!JPTypeOK'
  BY <1>1 DEF TypeOK, Pool!JPTypeOK
<1>4. JobInv'
  <2>1. \A i, k \in DOMAIN pending' : pending'[i] = pending'[k] => i = k
    BY <1>1 DEF JobInv
  <2>2. ASSUME NEW j \in ToSet(pending') PROVE Proper(j)' /\ \A v \in Workers : busy'[v] # j
    <3>1. j \in ToSet(pending) /\ j # NoJob
      BY <1>1, NoJobAssumption DEF TypeOK, Pool!JPTypeOK, ToSet
    <3>. QED BY <1>2, <3>1 DEF JobInv, Proper
  <2>3. ASSUME NEW v \in Workers, busy'[v] # NoJob PROVE Proper(busy[v])' /\ Proper(busy'[v])
    BY <1>2, <2>3 DEF JobInv, Proper
  <2>4. \A v, u \in Workers : busy'[v] # NoJob /\ busy'[v] = busy'[u] => v = u
    BY <1>2 DEF JobInv
  <2>. QED BY <1>2, <2>1, <2>2, <2>3, <2>4 DEF JobInv, Proper
<1>5. /\ stage' \in [Workers -> {"none", "picked", "reading"}]
      /\ \A v \in Workers : stage'[v] = "none" <=> busy'[v] = NoJob
  BY <1>1, <1>2 DEF TypeOK
<1>. QED BY <1>1, <1>2, <1>3, <1>4, <1>5

(* A step that counts nothing and gives no job to a counted file.          *)
LEMMA StaysCounted ==
  ASSUME TypeOK, NEW r \in Scans, Counted(r),
         total'[r] = total[r], scanned'[r] = scanned[r], findings[r] \subseteq findings'[r],
         caller'[r] \in {"inline", "reading"} => caller[r] \in {"inline", "reading"},
         ToSet(pending') \subseteq ToSet(pending),
         \A w \in Workers : busy'[w] \in {busy[w], NoJob} \cup ToSet(pending)
  PROVE  Counted(r)'
<1>1. PICK done \in SUBSET (1..total[r]) : CountedAs(r, done)
  BY DEF Counted
<1>2. ASSUME NEW i \in done PROVE <<r, i>> # NoJob
  <2>1. i \in 1..MaxFiles
    BY LimitAssumption DEF TypeOK
  <2>. QED BY <2>1, NoJobAssumption DEF Jobs
<1>3. CountedAs(r, done)'
  BY <1>1, <1>2 DEF CountedAs
<1>. QED BY <1>3 DEF Counted

(* One more file is counted, whose job has ended.                          *)
LEMMA CountsOne ==
  ASSUME TypeOK, NEW r \in Scans, NEW done \in SUBSET (1..total[r]), CountedAs(r, done),
         NEW i \in (1..total[r]) \ done,
         total'[r] = total[r], scanned'[r] = scanned[r] + 1, findings[r] \subseteq findings'[r],
         <<r, i>> \in Infected => i \in findings'[r],
         caller'[r] \in {"inline", "reading"} =>
            caller[r] \in {"inline", "reading"} /\ i = scanned[r] + 1,
         pending' = pending, <<r, i>> \notin ToSet(pending),
         \A w \in Workers : busy'[w] \in {busy[w], NoJob} /\ busy'[w] # <<r, i>>
  PROVE  Counted(r)' /\ scanned'[r] <= total[r]
<1>1. IsFiniteSet(done) /\ Cardinality(done) = scanned[r] /\ scanned[r] \in Nat /\ total[r] \in Nat
  BY CountBounded, Numbers DEF CountedAs
<1>2. Cardinality(done \cup {i}) = scanned[r] + 1
  <2>1. Cardinality(done \cup {i}) = IF i \in done THEN Cardinality(done) ELSE Cardinality(done) + 1
    BY <1>1, FS_AddElement
  <2>. QED BY <1>1, <2>1
<1>3. ASSUME NEW k \in done PROVE <<r, k>> # NoJob
  <2>1. k \in 1..MaxFiles
    BY LimitAssumption DEF TypeOK
  <2>. QED BY <2>1, NoJobAssumption DEF Jobs
<1>4. ASSUME caller'[r] \in {"inline", "reading"} PROVE done \cup {i} = 1..scanned'[r]
  <2>1. done = 1..scanned[r] /\ i = scanned[r] + 1
    BY <1>4 DEF CountedAs
  <2>. QED BY <1>1, <2>1
<1>5. CountedAs(r, done \cup {i})'
  BY <1>2, <1>3, <1>4 DEF CountedAs
<1>6. done \cup {i} \in SUBSET (1..total'[r])
  OBVIOUS
<1>7. IsFiniteSet(1..total[r]) /\ Cardinality(1..total[r]) = total[r]
  <2>1. total[r] \in Nat
    BY <1>1
  <2>. QED BY <2>1, FS_Interval
<1>8. Cardinality(done \cup {i}) <= total[r]
  BY <1>6, <1>7, FS_Subset
<1>. QED BY <1>2, <1>5, <1>6, <1>8 DEF Counted

LEMMA InitIInv == Init => IInv
<1>. SUFFICES ASSUME Init PROVE IInv
  OBVIOUS
<1>1. TypeOK
  BY LimitAssumption DEF Init, TypeOK, Statuses, Pool!JPInit, Pool!JPTypeOK
<1>2. JobInv
  BY DEF Init, JobInv, Pool!JPInit, ToSet
<1>3. ASSUME NEW s \in Scans PROVE Progress(s)
  BY LimitAssumption DEF Init, Progress, InfectedIn
<1>4. ASSUME NEW s \in Scans PROVE Counted(s)
  <2>1. CountedAs(s, {})
    BY FS_EmptySet DEF Init, CountedAs
  <2>. QED BY <2>1 DEF Counted
<1>. QED BY <1>1, <1>2, <1>3, <1>4 DEF IInv

LEMMA NextIInv == IInv /\ [Next]_vars => IInv'
<1>. SUFFICES ASSUME IInv, [Next]_vars PROVE IInv'
  OBVIOUS
<1>. USE LimitAssumption, NoJobAssumption
     DEF IInv, Goto, SetStatus, poolVars, scanVars
<1>bounds. \A s \in Scans : /\ total[s] \in Nat /\ scanned[s] \in Nat
                            /\ scanned[s] <= total[s] /\ total[s] <= MaxFiles
  BY Numbers, CountBounded DEF Counted
<1>1. ASSUME NEW s \in Scans, EnumerationFails(s) PROVE IInv'
  <2>1. TypeOK'
    BY <1>1 DEF EnumerationFails, TypeOK, Statuses, Pool!JPTypeOK
  <2>2. JobInv'
    BY <1>1 DEF EnumerationFails, TypeOK, Pool!JPTypeOK, JobInv, Proper
  <2>3. ASSUME NEW r \in Scans PROVE Counted(r)'
    BY <1>1, StaysCounted DEF EnumerationFails, TypeOK
  <2>4. ASSUME NEW r \in Scans PROVE Progress(r)'
    BY <1>1 DEF EnumerationFails, TypeOK, Progress, InfectedIn
  <2>. QED BY <2>1, <2>2, <2>3, <2>4
<1>2. ASSUME NEW s \in Scans, InlineNext(s) PROVE IInv'
  <2>1. TypeOK'
    BY <1>2 DEF InlineNext, TypeOK, Statuses, Pool!JPTypeOK
  <2>2. JobInv'
    BY <1>2 DEF InlineNext, TypeOK, Pool!JPTypeOK, JobInv, Proper
  <2>3. ASSUME NEW r \in Scans PROVE Counted(r)'
    BY <1>2, StaysCounted DEF InlineNext, TypeOK
  <2>4. ASSUME NEW r \in Scans PROVE Progress(r)'
    BY <1>2, <1>bounds DEF InlineNext, TypeOK, Progress, InfectedIn
  <2>. QED BY <2>1, <2>2, <2>3, <2>4
<1>3. ASSUME NEW s \in Scans, InlineThrows(s) PROVE IInv'
  <2>1. TypeOK'
    <3>1. scanned[s] + 1 \in 1..MaxFiles
      BY <1>3, <1>bounds DEF InlineThrows, Progress
    <3>. QED BY <1>3, <3>1 DEF InlineThrows, TypeOK, Statuses, Pool!JPTypeOK
  <2>2. JobInv'
    BY <1>3 DEF InlineThrows, TypeOK, Pool!JPTypeOK, JobInv, Proper
  <2>3. ASSUME NEW r \in Scans PROVE Counted(r)'
    BY <1>3, StaysCounted DEF InlineThrows, TypeOK
  <2>4. ASSUME NEW r \in Scans PROVE Progress(r)'
    BY <1>3 DEF InlineThrows, TypeOK, Progress, InfectedIn
  <2>. QED BY <2>1, <2>2, <2>3, <2>4
<1>4. ASSUME NEW s \in Scans, PollEnds(s) PROVE IInv'
  <2>1. TypeOK'
    BY <1>4 DEF PollEnds, TypeOK, Statuses, Pool!JPTypeOK
  <2>2. JobInv'
    BY <1>4 DEF PollEnds, TypeOK, Pool!JPTypeOK, JobInv, Proper
  <2>3. ASSUME NEW r \in Scans PROVE Counted(r)'
    BY <1>4, StaysCounted DEF PollEnds, TypeOK
  <2>4. ASSUME NEW r \in Scans PROVE Progress(r)'
    BY <1>4, <1>bounds DEF PollEnds, TypeOK, Progress, InfectedIn
  <2>. QED BY <2>1, <2>2, <2>3, <2>4
<1>5. ASSUME NEW s \in Scans, TestStatus(s) PROVE IInv'
  <2>1. TypeOK'
    BY <1>5 DEF TestStatus, TypeOK, Statuses, Pool!JPTypeOK
  <2>2. JobInv'
    BY <1>5 DEF TestStatus, TypeOK, Pool!JPTypeOK, JobInv, Proper
  <2>3. ASSUME NEW r \in Scans PROVE Counted(r)'
    BY <1>5, StaysCounted DEF TestStatus, TypeOK
  <2>4. ASSUME NEW r \in Scans PROVE Progress(r)'
    BY <1>5 DEF TestStatus, TypeOK, Progress, InfectedIn
  <2>. QED BY <2>1, <2>2, <2>3, <2>4
<1>6. ASSUME NEW s \in Scans, WriteCompleted(s) PROVE IInv'
  <2>1. TypeOK'
    BY <1>6 DEF WriteCompleted, TypeOK, Statuses, Pool!JPTypeOK
  <2>2. JobInv'
    BY <1>6 DEF WriteCompleted, TypeOK, Pool!JPTypeOK, JobInv, Proper
  <2>3. ASSUME NEW r \in Scans PROVE Counted(r)'
    BY <1>6, StaysCounted DEF WriteCompleted, TypeOK
  <2>4. ASSUME NEW r \in Scans PROVE Progress(r)'
    BY <1>6 DEF WriteCompleted, TypeOK, Progress, InfectedIn
  <2>. QED BY <2>1, <2>2, <2>3, <2>4
<1>7. ASSUME NEW s \in Scans, PublishCompleted(s) PROVE IInv'
  <2>1. TypeOK'
    BY <1>7 DEF PublishCompleted, TypeOK, Statuses, Pool!JPTypeOK
  <2>2. JobInv'
    BY <1>7 DEF PublishCompleted, TypeOK, Pool!JPTypeOK, JobInv, Proper
  <2>3. ASSUME NEW r \in Scans PROVE Counted(r)'
    BY <1>7, StaysCounted DEF PublishCompleted, TypeOK
  <2>4. ASSUME NEW r \in Scans PROVE Progress(r)'
    BY <1>7 DEF PublishCompleted, TypeOK, Progress, InfectedIn
  <2>. QED BY <2>1, <2>2, <2>3, <2>4
<1>8. ASSUME NEW s \in Scans, StopScan(s) PROVE IInv'
  <2>1. TypeOK'
    BY <1>8 DEF StopScan, TypeOK, Statuses, Pool!JPTypeOK, Pool!CancelAll, Registered, ToSet
  <2>2. JobInv'
    BY <1>8 DEF StopScan, TypeOK, Pool!JPTypeOK, JobInv, Proper, Pool!CancelAll, Registered, ToSet
  <2>3. ASSUME NEW r \in Scans PROVE Counted(r)'
    BY <1>8, StaysCounted DEF StopScan, TypeOK, Pool!CancelAll, Registered, ToSet
  <2>4. ASSUME NEW r \in Scans PROVE Progress(r)'
    BY <1>8 DEF StopScan, TypeOK, Progress, InfectedIn, Pool!CancelAll, Registered, ToSet
  <2>. QED BY <2>1, <2>2, <2>3, <2>4
<1>9. ASSUME NEW s \in Scans, PauseScan(s) PROVE IInv'
  <2>1. TypeOK'
    BY <1>9 DEF PauseScan, TypeOK, Statuses, Pool!JPTypeOK
  <2>2. JobInv'
    BY <1>9 DEF PauseScan, TypeOK, Pool!JPTypeOK, JobInv, Proper
  <2>3. ASSUME NEW r \in Scans PROVE Counted(r)'
    BY <1>9, StaysCounted DEF PauseScan, TypeOK
  <2>4. ASSUME NEW r \in Scans PROVE Progress(r)'
    BY <1>9 DEF PauseScan, TypeOK, Progress, InfectedIn
  <2>. QED BY <2>1, <2>2, <2>3, <2>4
<1>10. ASSUME NEW w \in Workers, PickJob(w) PROVE IInv'
  <2>1. TypeOK'
    BY <1>10 DEF PickJob, TypeOK, Statuses, Pool!JPTypeOK, Pool!StartJob
  <2>2. JobInv'
    <3>1. /\ pending' = Tail(pending) /\ ToSet(pending') = ToSet(pending) \ {Head(pending)}
          /\ Head(pending) \in ToSet(pending) /\ Head(pending) \in Jobs
          /\ \A i, k \in DOMAIN pending' : pending'[i] = pending'[k] => i = k
      BY <1>10, StartedJob DEF PickJob, Pool!StartJob, TypeOK, Pool!JPTypeOK, JobInv
    <3>2. \A v \in Workers : busy'[v] = IF v = w THEN Head(pending) ELSE busy[v]
      BY <1>10 DEF PickJob, Pool!StartJob, TypeOK, Pool!JPTypeOK
    <3>3. UNCHANGED <<caller, total>>
      BY <1>10 DEF PickJob
    <3>4. ASSUME NEW j \in ToSet(pending') PROVE Proper(j)' /\ \A v \in Workers : busy'[v] # j
      BY <3>1, <3>2, <3>3, <3>4 DEF JobInv, Proper
    <3>5. ASSUME NEW v \in Workers, busy'[v] # NoJob PROVE Proper(busy[v])' /\ Proper(busy'[v])
      BY <3>1, <3>2, <3>3, <3>5 DEF JobInv, Proper
    <3>6. \A v, u \in Workers : busy'[v] # NoJob /\ busy'[v] = busy'[u] => v = u
      BY <3>1, <3>2 DEF JobInv
    <3>. QED BY <3>1, <3>2, <3>3, <3>4, <3>5, <3>6 DEF JobInv, Proper
  <2>3. ASSUME NEW r \in Scans PROVE Counted(r)'
    <3>1. ToSet(pending') \subseteq ToSet(pending) /\ Head(pending) \in ToSet(pending)
      BY <1>10, StartedJob DEF PickJob, Pool!StartJob, TypeOK, Pool!JPTypeOK, JobInv
    <3>2. \A v \in Workers : busy'[v] \in {busy[v], Head(pending)}
      BY <1>10 DEF PickJob, Pool!StartJob, TypeOK, Pool!JPTypeOK
    <3>. QED BY <1>10, <3>1, <3>2, StaysCounted DEF PickJob
  <2>4. ASSUME NEW r \in Scans PROVE Progress(r)'
    BY <1>10 DEF PickJob, TypeOK, Progress, InfectedIn, Pool!StartJob
  <2>. QED BY <2>1, <2>2, <2>3, <2>4
<1>11. ASSUME NEW w \in Workers, SkipJob(w) PROVE IInv'
  <2>1. TypeOK'
    BY <1>11 DEF SkipJob, TypeOK, Statuses, Pool!JPTypeOK, JobEnds, Pool!EndJob
  <2>2. JobInv'
    BY <1>11, JobEnded DEF SkipJob
  <2>3. ASSUME NEW r \in Scans PROVE Counted(r)'
    BY <1>11, StaysCounted DEF SkipJob, TypeOK, JobEnds, Pool!EndJob
  <2>4. ASSUME NEW r \in Scans PROVE Progress(r)'
    BY <1>11 DEF SkipJob, TypeOK, Progress, InfectedIn, JobEnds, Pool!EndJob
  <2>. QED BY <2>1, <2>2, <2>3, <2>4
<1>12. ASSUME NEW w \in Workers, EnterJob(w) PROVE IInv'
  <2>1. TypeOK'
    BY <1>12 DEF EnterJob, TypeOK, Statuses, Pool!JPTypeOK
  <2>2. JobInv'
    BY <1>12 DEF EnterJob, TypeOK, Pool!JPTypeOK, JobInv, Proper
  <2>3. ASSUME NEW r \in Scans PROVE Counted(r)'
    BY <1>12, StaysCounted DEF EnterJob, TypeOK
  <2>4. ASSUME NEW r \in Scans PROVE Progress(r)'
    BY <1>12 DEF EnterJob, TypeOK, Progress, InfectedIn
  <2>. QED BY <2>1, <2>2, <2>3, <2>4
<1>13. ASSUME NEW w \in Workers, JobThrows(w) PROVE IInv'
  <2>1. TypeOK'
    <3>1. stage[w] = "reading" /\ busy[w] # NoJob
      BY <1>13 DEF JobThrows, TypeOK
    <3>2. busy[w][1] \in Scans /\ busy[w][2] \in 1..MaxFiles
      BY <3>1, <1>bounds, JobAtHand
    <3>. QED BY <1>13, <3>2, JobEnded DEF JobThrows, TypeOK
  <2>2. JobInv'
    BY <1>13, JobEnded DEF JobThrows
  <2>3. ASSUME NEW r \in Scans PROVE Counted(r)'
    BY <1>13, StaysCounted DEF JobThrows, TypeOK, JobEnds, Pool!EndJob
  <2>4. ASSUME NEW r \in Scans PROVE Progress(r)'
    <3>1. stage[w] = "reading" /\ busy[w] # NoJob
      BY <1>13 DEF JobThrows, TypeOK
    <3>2. /\ busy[w][1] \in Scans /\ busy[w][2] \in 1..total[busy[w][1]]
          /\ caller[busy[w][1]] # "before"
      BY <3>1, JobAtHand
    <3>. QED BY <1>13, <3>2 DEF JobThrows, TypeOK, Progress, InfectedIn
  <2>. QED BY <2>1, <2>2, <2>3, <2>4
<1>14. ASSUME NEW s \in Scans, BeginScan(s) PROVE IInv'
  <2>1. PICK n \in 0..MaxFiles :
          /\ caller[s] = "before" /\ total' = [total EXCEPT ![s] = n]
          /\ status' = [status EXCEPT ![s] = "Running"]
          /\ \/ caller' = [caller EXCEPT ![s] = "inline"] /\ UNCHANGED pending
             \/ caller' = [caller EXCEPT ![s] = "polling"] /\ pending' = pending \o FilesOf(s, n)
          /\ UNCHANGED <<busy, stage, scanned, findings, lost>>
    BY <1>14 DEF BeginScan
  <2>2. pending \in Seq(Jobs) /\ busy \in [Workers -> Jobs \cup {NoJob}]
    BY DEF TypeOK, Pool!JPTypeOK
  <2>3. (\A j \in ToSet(pending) : j[1] # s) /\ (\A w \in Workers : busy[w] # NoJob => busy[w][1] # s)
    BY <2>1 DEF JobInv, Proper
  <2>4. /\ pending' \in Seq(Jobs)
        /\ \A i, k \in DOMAIN pending' : pending'[i] = pending'[k] => i = k
        /\ \/ UNCHANGED pending
           \/ /\ ToSet(pending') = ToSet(pending) \cup {<<s, i>> : i \in 1..n}
              /\ caller' = [caller EXCEPT ![s] = "polling"]
    <3>1. CASE UNCHANGED pending
      BY <2>2, <3>1 DEF JobInv
    <3>2. CASE caller' = [caller EXCEPT ![s] = "polling"] /\ pending' = pending \o FilesOf(s, n)
      <4>1. \A i, k \in DOMAIN pending : pending[i] = pending[k] => i = k
        BY DEF JobInv
      <4>. QED BY <2>2, <2>3, <3>2, <4>1, SubmittedJobs
    <3>. QED BY <2>1, <3>1, <3>2
  <2>5. TypeOK'
    BY <2>1, <2>2, <2>4 DEF TypeOK, Statuses, Pool!JPTypeOK
  <2>6. JobInv'
    <3>1. ASSUME NEW j \in Jobs, j[1] # s, Proper(j) PROVE Proper(j)'
      BY <2>1, <3>1 DEF Proper, TypeOK, Jobs
    <3>2. ASSUME NEW j \in ToSet(pending') PROVE Proper(j)' /\ \A w \in Workers : busy'[w] # j
      <4>1. CASE j \in ToSet(pending)
        BY <2>1, <2>2, <2>3, <3>1, <4>1 DEF JobInv, ToSet
      <4>2. CASE j \notin ToSet(pending)
        <5>1. PICK i \in 1..n : j = <<s, i>>
          BY <2>4, <4>2, <3>2
        <5>2. caller'[s] = "polling" /\ total'[s] = n
          BY <2>1, <2>4, <3>2, <4>2 DEF TypeOK
        <5>3. i \in 1..MaxFiles
          BY <5>1
        <5>4. j # NoJob /\ j[1] = s /\ j[2] = i
          BY <5>1, <5>3 DEF Jobs
        <5>. QED BY <2>1, <2>3, <5>1, <5>2, <5>4 DEF Proper
      <4>. QED BY <4>1, <4>2
    <3>3. ASSUME NEW w \in Workers, busy'[w] # NoJob PROVE Proper(busy[w])'
      <4>1. PICK j \in Jobs : j = busy[w] /\ Proper(j) /\ j[1] # s
        BY <2>1, <2>2, <2>3, <3>3 DEF JobInv
      <4>2. Proper(j)' /\ busy'[w] = j
        BY <2>1, <3>1, <4>1
      <4>. QED BY <4>2 DEF Proper
    <3>. QED BY <2>1, <2>4, <3>2, <3>3 DEF JobInv
  <2>7. ASSUME NEW r \in Scans PROVE Counted(r)'
    <3>1. CASE r = s
      <4>1. scanned[s] = 0 /\ scanned'[s] = 0
        BY <2>1 DEF Progress
      <4>2. CountedAs(s, {})'
        BY <4>1, FS_EmptySet DEF CountedAs
      <4>. QED BY <3>1, <4>2 DEF Counted
    <3>2. CASE r # s
      <4>1. PICK done \in SUBSET (1..total[r]) : CountedAs(r, done)
        BY DEF Counted
      <4>2. total'[r] = total[r] /\ caller'[r] = caller[r]
        BY <2>1, <3>2 DEF TypeOK
      <4>3. \A i \in done : <<r, i>> \notin ToSet(pending')
        BY <2>4, <3>2, <4>1 DEF CountedAs
      <4>4. CountedAs(r, done)'
        BY <2>1, <4>1, <4>2, <4>3 DEF CountedAs
      <4>. QED BY <4>2, <4>4 DEF Counted
    <3>. QED BY <3>1, <3>2
  <2>8. ASSUME NEW r \in Scans PROVE Progress(r)'
    BY <2>1, <1>bounds DEF TypeOK, Progress, InfectedIn
  <2>. QED BY <2>5, <2>6, <2>7, <2>8
<1>15. ASSUME NEW s \in Scans, InlineProcess(s) PROVE IInv'
  <2>1. PICK i \in 1..MaxFiles : i = scanned[s] + 1 /\ i \in 1..total[s] /\ caller[s] = "reading"
    BY <1>15, <1>bounds DEF InlineProcess, Progress
  <2>2. /\ caller' = [caller EXCEPT ![s] = "inline"] /\ scanned' = [scanned EXCEPT ![s] = i]
        /\ findings' = [findings EXCEPT ![s] = @ \cup {j \in {i} : <<s, j>> \in Infected}]
        /\ UNCHANGED <<pending, busy, stage, status, total, lost>>
    BY <1>15, <2>1 DEF InlineProcess, ProcessFile, TypeOK
  <2>3. TypeOK'
    BY <2>1, <2>2, <1>bounds DEF TypeOK, Statuses, Pool!JPTypeOK
  <2>4. JobInv'
    BY <2>1, <2>2 DEF TypeOK, JobInv, Proper
  <2>5. ASSUME NEW r \in Scans PROVE Counted(r)'
    <3>1. CASE r = s
      <4>1. PICK done \in SUBSET (1..total[s]) : CountedAs(s, done)
        BY DEF Counted
      <4>2. i \notin done
        BY <1>bounds, <2>1, <4>1 DEF CountedAs
      <4>3. <<s, i>> \notin ToSet(pending) /\ \A w \in Workers : busy[w] # <<s, i>>
        <5>1. ~Proper(<<s, i>>) /\ <<s, i>> # NoJob
          BY <2>1 DEF Proper, Jobs
        <5>. QED BY <5>1 DEF JobInv
      <4>4. /\ scanned'[s] = scanned[s] + 1 /\ findings[s] \subseteq findings'[s]
            /\ <<s, i>> \in Infected => i \in findings'[s]
        BY <2>1, <2>2 DEF TypeOK
      <4>5. \A w \in Workers : busy'[w] \in {busy[w], NoJob} /\ busy'[w] # <<s, i>>
        BY <2>2, <4>3
      <4>. QED BY <2>1, <2>2, <3>1, <4>1, <4>2, <4>3, <4>4, <4>5, CountsOne
    <3>2. CASE r # s
      BY <2>2, <3>2, StaysCounted DEF TypeOK
    <3>. QED BY <3>1, <3>2
  <2>6. ASSUME NEW r \in Scans PROVE Progress(r)'
    BY <2>1, <2>2, <1>bounds DEF TypeOK, Progress, InfectedIn
  <2>. QED BY <2>3, <2>4, <2>5, <2>6
<1>16. ASSUME NEW w \in Workers, RunJob(w) PROVE IInv'
  <2>1. JobEnds(w) /\ busy[w] # NoJob
    BY <1>16 DEF RunJob, TypeOK
  <2>2. PICK s \in Scans, i \in 1..MaxFiles :
          busy[w] = <<s, i>> /\ i \in 1..total[s] /\ caller[s] \notin {"before", "inline", "reading"}
    BY <2>1, <1>bounds, JobAtHand
  <2>3. /\ scanned' = [scanned EXCEPT ![s] = @ + 1]
        /\ findings' = [findings EXCEPT ![s] = @ \cup {j \in {i} : <<s, j>> \in Infected}]
        /\ UNCHANGED <<caller, status, total, lost>>
    BY <1>16, <2>2 DEF RunJob, ProcessFile
  <2>4. /\ JobInv' /\ Pool!JPTypeOK' /\ stage' \in [Workers -> {"none", "picked", "reading"}]
        /\ \A v \in Workers : stage'[v] = "none" <=> busy'[v] = NoJob
        /\ pending' = pending
        /\ \A v \in Workers : busy'[v] = IF v = w THEN NoJob ELSE busy[v]
    BY <2>1, <2>3, JobEnded
  <2>5. <<s, i>> \notin ToSet(pending) /\ \A v \in Workers : busy'[v] # <<s, i>>
    BY <2>1, <2>2, <2>4 DEF JobInv
  <2>6. Counted(s)' /\ scanned'[s] <= total[s] /\ scanned'[s] = scanned[s] + 1
    <3>1. PICK done \in SUBSET (1..total[s]) : CountedAs(s, done)
      BY <2>2 DEF Counted
    <3>2. i \notin done
      BY <2>2, <3>1 DEF CountedAs
    <3>3. /\ scanned'[s] = scanned[s] + 1 /\ findings[s] \subseteq findings'[s]
          /\ <<s, i>> \in Infected => i \in findings'[s]
      BY <2>2, <2>3 DEF TypeOK
    <3>4. \A v \in Workers : busy'[v] \in {busy[v], NoJob} /\ busy'[v] # <<s, i>>
      BY <2>4, <2>5
    <3>. QED BY <2>2, <2>3, <2>4, <2>5, <3>1, <3>2, <3>3, <3>4, CountsOne
  <2>7. TypeOK'
    BY <2>2, <2>3, <2>4, <2>6, <1>bounds DEF TypeOK
  <2>8. ASSUME NEW r \in Scans PROVE Counted(r)'
    <3>1. CASE r # s
      BY <2>2, <2>3, <2>4, <3>1, StaysCounted DEF TypeOK
    <3>. QED BY <2>6, <3>1
  <2>9. ASSUME NEW r \in Scans PROVE Progress(r)'
    <3>1. CASE r = s
      <4>1. scanned[s] # total[s]                    \* or one too many would be counted
        BY <1>bounds, <2>2, <2>6
      <4>2. findings'[s] \subseteq InfectedIn(s)'
        BY <2>2, <2>3, LimitAssumption DEF Progress, InfectedIn, TypeOK
      <4>. QED BY <2>2, <2>3, <3>1, <4>1, <4>2 DEF Progress
    <3>2. CASE r # s
      BY <2>2, <2>3, <3>2 DEF Progress, InfectedIn, TypeOK
    <3>. QED BY <3>1, <3>2
  <2>. QED BY <2>4, <2>7, <2>8, <2>9
<1>17. CASE UNCHANGED vars
  <2>1. TypeOK' /\ JobInv'
    BY <1>17 DEF vars, TypeOK, Pool!JPTypeOK, JobInv, Proper
  <2>2. ASSUME NEW r \in Scans PROVE Progress(r)' /\ Counted(r)'
    BY <1>17 DEF vars, Progress, Counted, CountedAs, InfectedIn
  <2>. QED BY <2>1, <2>2
<1>. QED
  BY <1>1, <1>2, <1>3, <1>4, <1>5, <1>6, <1>7, <1>8, <1>9, <1>10, <1>11, <1>12, <1>13, <1>14,
     <1>15, <1>16, <1>17
  DEF Next, Caller, Worker

LEMMA Invariance == Spec => []IInv
BY InitIInv, NextIInv, PTL DEF Spec

(* Types, and that a worker has a job exactly while it runs one.           *)
THEOREM TypeCorrect == Spec => []TypeOK
<1>1. IInv => TypeOK
  BY DEF IInv
<1>. QED BY <1>1, Invariance, PTL

(* A scan that startScan() reports as Completed has counted all its files  *)
(* and lists the infected ones, whatever other callers stop or pause and   *)
(* however many workers there are; and progress never exceeds 100 %.       *)
THEOREM CompletedMeansScannedHolds == Spec => []CompletedMeansScanned
<1>1. IInv => CompletedMeansScanned
  <2>. SUFFICES ASSUME IInv, NEW s \in Scans, status[s] = "Completed"
                PROVE  scanned[s] = total[s] /\ findings[s] = InfectedIn(s)
    BY SumBounded DEF CompletedMeansScanned
  <2>1. scanned[s] = total[s] /\ findings[s] \subseteq InfectedIn(s)
    BY DEF IInv, Progress
  <2>2. PICK done \in SUBSET (1..total[s]) : CountedAs(s, done)
    BY DEF IInv, Counted
  <2>3. done = 1..total[s]
    BY <2>1, <2>2, AllCounted DEF IInv
  <2>. QED BY <2>1, <2>2, <2>3 DEF CountedAs, InfectedIn
<1>. QED BY <1>1, Invariance, PTL
=============================================================================

----------------------------- MODULE ScanEngine -----------------------------
(***************************************************************************)
(* Scanner::ScanEngine on top of the scheduler (as a JobPool).  Each scan  *)
(* has a caller inside startScan(), which scans few files itself, one by   *)
(* one, and hands many to the workers and polls; stopScan() and            *)
(* pauseScan() come from other threads.  status is read and written by all *)
(* of them without a common lock.                                          *)
(*                                                                         *)
(* A job is <<scan, file>>; the files of a scan are 1..total[scan], and    *)
(* Infected says which files match a signature or a YARA rule.             *)
(***************************************************************************)
EXTENDS Naturals, Sequences, FiniteSets, SequencesExt

CONSTANTS Scans, Workers, NoJob,
          MaxFiles,     \* bound: files the enumerator finds
          SmallLimit,   \* files.size() <= 100 in the code
          Infected      \* subset of Scans \X (1..MaxFiles)

Jobs == Scans \X (1..MaxFiles)

ASSUME NoJobAssumption == NoJob \notin Jobs
ASSUME LimitAssumption == MaxFiles \in Nat /\ SmallLimit \in Nat
ASSUME InfectedAssumption == Infected \subseteq Jobs

VARIABLES
  pending, busy,        \* the scheduler
  stage,                \* worker: "picked" or "reading" its file
  caller,               \* where startScan() is, for each scan
  status,               \* ActiveScan::status
  total, scanned,       \* ScanProgress: totalFiles_, filesScanned_
  findings,             \* ActiveScan::findings, as the files named in it
  lost                  \* history: files of a scan were dropped unscanned

poolVars == <<pending, busy, stage>>
scanVars == <<total, scanned, findings>>
vars == <<poolVars, caller, status, scanVars, lost>>

Pool == INSTANCE JobPool WITH Idle <- NoJob

Statuses == {"Idle", "Running", "Paused", "Completed", "Failed", "Cancelled"}
Registered == {s \in Scans : status[s] # "Idle"}    \* keys of activeScans_

TypeOK ==
  /\ Pool!JPTypeOK
  /\ stage \in [Workers -> {"none", "picked", "reading"}]
  /\ \A w \in Workers : stage[w] = "none" <=> busy[w] = NoJob
  /\ caller \in [Scans -> {"before", "inline", "reading", "polling", "ended",
                           "completing", "publishing", "returned", "thrown"}]
  /\ status \in [Scans -> Statuses]
  /\ total \in [Scans -> 0..MaxFiles] /\ scanned \in [Scans -> 0..MaxFiles]
  /\ findings \in [Scans -> SUBSET (1..MaxFiles)]
  /\ lost \in [Scans -> BOOLEAN]

Init ==
  /\ Pool!JPInit
  /\ stage = [w \in Workers |-> "none"]
  /\ caller = [s \in Scans |-> "before"]
  /\ status = [s \in Scans |-> "Idle"]
  /\ total = [s \in Scans |-> 0] /\ scanned = [s \in Scans |-> 0]
  /\ findings = [s \in Scans |-> {}]
  /\ lost = [s \in Scans |-> FALSE]

Goto(s, where) == caller' = [caller EXCEPT ![s] = where]
SetStatus(s, st) == status' = [status EXCEPT ![s] = st]

FilesOf(s, n) == [i \in 1..n |-> <<s, i>>]

-----------------------------------------------------------------------------
(* startScan(): enumeration fails, and the scan is registered as Failed.   *)
EnumerationFails(s) ==
  /\ caller[s] = "before"
  /\ Goto(s, "returned") /\ SetStatus(s, "Failed")
  /\ UNCHANGED <<poolVars, scanVars, lost>>

(* It succeeds: reset the progress, register, publish ScanStarted, and go  *)
(* on inline or through the scheduler.                                     *)
BeginScan(s) ==
  /\ caller[s] = "before"
  /\ \E n \in 0..MaxFiles :
        /\ total' = [total EXCEPT ![s] = n]
        /\ IF n <= SmallLimit
              THEN Goto(s, "inline") /\ UNCHANGED pending
              ELSE Goto(s, "polling") /\ pending' = pending \o FilesOf(s, n)
  /\ SetStatus(s, "Running")
  /\ UNCHANGED <<busy, stage, scanned, findings, lost>>

-----------------------------------------------------------------------------
(* processFile(): findings and ThreatDetected first, then the count.       *)
ProcessFile(s, i) ==
  /\ findings' = [findings EXCEPT ![s] = @ \cup {j \in {i} : <<s, j>> \in Infected}]
  /\ scanned' = [scanned EXCEPT ![s] = @ + 1]
  /\ UNCHANGED total

(* The inline loop looks at the status before each file ...                *)
InlineNext(s) ==
  /\ caller[s] = "inline"
  /\ Goto(s, IF scanned[s] < total[s] /\ status[s] \notin {"Cancelled", "Paused"}
                THEN "reading" ELSE "ended")
  /\ UNCHANGED <<poolVars, status, scanVars, lost>>

(* ... and not while it processes one.                                     *)
InlineProcess(s) ==
  /\ caller[s] = "reading"
  /\ ProcessFile(s, scanned[s] + 1)
  /\ Goto(s, "inline")
  /\ UNCHANGED <<poolVars, status, lost>>

(* A subscriber of ThreatDetected throws: nobody catches it here, startScan*)
(* is left with the scan Running.                                          *)
InlineThrows(s) ==
  /\ caller[s] = "reading" /\ <<s, scanned[s] + 1>> \in Infected
  /\ findings' = [findings EXCEPT ![s] = @ \cup {scanned[s] + 1}]
  /\ Goto(s, "thrown")
  /\ UNCHANGED <<poolVars, status, total, scanned, lost>>

(* Slips: the loop trusts the queue's length; the loop ignores the status. *)
PollEndsOnEmptyQueue(s) ==
  /\ caller[s] = "polling"
  /\ pending = <<>> \/ status[s] # "Running"
  /\ Goto(s, "ended")
  /\ UNCHANGED <<poolVars, status, scanVars, lost>>

PollEndsOnCountOnly(s) ==
  /\ caller[s] = "polling" /\ scanned[s] >= total[s]
  /\ Goto(s, "ended")
  /\ UNCHANGED <<poolVars, status, scanVars, lost>>

(* The polling loop ends on completion or when the status is not Running.  *)
PollEnds(s) ==
  /\ caller[s] = "polling"
  /\ scanned[s] >= total[s] \/ status[s] # "Running"
  /\ Goto(s, "ended")
  /\ UNCHANGED <<poolVars, status, scanVars, lost>>

(* Both paths: if the status is Running, write Completed - two accesses.   *)
TestStatus(s) ==
  /\ caller[s] = "ended"
  /\ Goto(s, IF status[s] = "Running" THEN "completing" ELSE "publishing")
  /\ UNCHANGED <<poolVars, status, scanVars, lost>>

WriteCompleted(s) ==
  /\ caller[s] = "completing"
  /\ SetStatus(s, "Completed") /\ Goto(s, "publishing")
  /\ UNCHANGED <<poolVars, scanVars, lost>>

(* ScanCompleted goes out whatever the status is.                          *)
PublishCompleted(s) ==
  /\ caller[s] = "publishing"
  /\ Goto(s, "returned")
  /\ UNCHANGED <<poolVars, status, scanVars, lost>>

-----------------------------------------------------------------------------
(* A worker pops a job; its handler reads the status only then.            *)
PickJob(w) ==
  /\ Pool!StartJob(w)
  /\ stage' = [stage EXCEPT ![w] = "picked"]
  /\ UNCHANGED <<caller, status, scanVars, lost>>

JobEnds(w) == Pool!EndJob(w) /\ stage' = [stage EXCEPT ![w] = "none"]

SkipJob(w) ==
  /\ stage[w] = "picked" /\ status[busy[w][1]] \in {"Cancelled", "Paused"}
  /\ JobEnds(w)
  /\ UNCHANGED <<caller, status, scanVars, lost>>

EnterJob(w) ==
  /\ stage[w] = "picked" /\ status[busy[w][1]] \notin {"Cancelled", "Paused"}
  /\ stage' = [stage EXCEPT ![w] = "reading"]
  /\ UNCHANGED <<pending, busy, caller, status, scanVars, lost>>

RepeatJob(w) ==         \* slip: the job is put back after it was run
  /\ stage[w] = "reading"
  /\ ProcessFile(busy[w][1], busy[w][2])
  /\ busy' = [busy EXCEPT ![w] = NoJob] /\ pending' = Append(pending, busy[w])
  /\ stage' = [stage EXCEPT ![w] = "none"]
  /\ UNCHANGED <<caller, status, lost>>

RunJob(w) ==
  /\ stage[w] = "reading"
  /\ ProcessFile(busy[w][1], busy[w][2])
  /\ JobEnds(w)
  /\ UNCHANGED <<caller, status, lost>>

(* The exception ends in workerLoop(); incrementScanned() is skipped.      *)
JobThrows(w) ==
  LET s == busy[w][1]  i == busy[w][2] IN
  /\ stage[w] = "reading" /\ <<s, i>> \in Infected
  /\ findings' = [findings EXCEPT ![s] = @ \cup {i}]
  /\ lost' = [lost EXCEPT ![s] = TRUE]
  /\ JobEnds(w)
  /\ UNCHANGED <<caller, status, total, scanned>>

-----------------------------------------------------------------------------
(* stopScan(): whatever the status was, Cancelled; and cancelPending()     *)
(* drops the queued files of every scan.                                   *)
StopScan(s) ==
  /\ s \in Registered
  /\ SetStatus(s, "Cancelled")
  /\ Pool!CancelAll
  /\ lost' = [r \in Scans |-> lost[r] \/ (r # s /\ \E j \in ToSet(pending) : j[1] = r)]
  /\ UNCHANGED <<stage, caller, scanVars>>

(* pauseScan(); nothing ever makes a paused scan Running again.            *)
PauseScan(s) ==
  /\ s \in Registered /\ status[s] = "Running"
  /\ SetStatus(s, "Paused")
  /\ UNCHANGED <<poolVars, caller, scanVars, lost>>

Caller(s) == \/ EnumerationFails(s) \/ BeginScan(s) \/ InlineNext(s)
             \/ InlineProcess(s) \/ InlineThrows(s) \/ PollEnds(s)
             \/ TestStatus(s) \/ WriteCompleted(s) \/ PublishCompleted(s)
Worker(w) == PickJob(w) \/ SkipJob(w) \/ EnterJob(w) \/ RunJob(w) \/ JobThrows(w)

Next == \/ \E s \in Scans : Caller(s) \/ StopScan(s) \/ PauseScan(s)
        \/ \E w \in Workers : Worker(w)

Spec == Init /\ [][Next]_vars

(* A caller inside startScan() and the workers keep running; nobody has to *)
(* start, stop or pause a scan.                                            *)
InsideStartScan(s) == \/ InlineNext(s) \/ InlineProcess(s) \/ PollEnds(s)
                      \/ TestStatus(s) \/ WriteCompleted(s) \/ PublishCompleted(s)
Fairness == /\ \A s \in Scans : WF_vars(InsideStartScan(s))
            /\ \A w \in Workers : WF_vars(Worker(w))

FairSpec == Spec /\ Fairness

-----------------------------------------------------------------------------
(* A scan reported as Completed has seen all of its files and lists every  *)
(* infected one: neither the polling loop nor a pause, a stop of another   *)
(* scan or a thrown exception lets it end early with that status.  Until   *)
(* then progress never exceeds 100 %: what is counted, still queued and    *)
(* being read never adds up to more than the files enumerated.             *)
InfectedIn(s) == {i \in 1..total[s] : <<s, i>> \in Infected}
JobsOf(s) == {w \in Workers : busy[w] # NoJob /\ busy[w][1] = s}
CompletedMeansScanned ==
  \A s \in Scans :
    /\ status[s] = "Completed" => scanned[s] = total[s] /\ findings[s] = InfectedIn(s)
    /\ scanned[s] + Cardinality({j \in ToSet(pending) : j[1] = s})
       + Cardinality(JobsOf(s)) <= total[s]

(* A scan whose files were not dropped by somebody else's stop or by an    *)
(* exception ends, paused and cancelled scans included.                    *)
UndisturbedScanReturns ==
  \A s \in Scans : caller[s] \in {"inline", "polling"}
                     ~> (caller[s] \in {"returned", "thrown"} \/ lost[s])

(* The comment in startScan's loop: "Wait for completion (simple polling)" *)
(* - the wait ends.                                                        *)
PollingEnds ==
  \A s \in Scans : caller[s] = "polling" ~> caller[s] # "polling"
=============================================================================

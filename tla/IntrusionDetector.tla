------------------------- MODULE IntrusionDetector -------------------------
(***************************************************************************)
(* Network::IntrusionDetector: attempts are remembered by source for port  *)
(* scans and by target for SYN floods and failed logins, pruned by age,    *)
(* and counted; rules are matched packet by packet; alerts go to a bounded *)
(* list.  detectSYNFlood() and detectBruteForce() are the same but for the *)
(* map: a target stands for an entry of either.  Every operation is one    *)
(* section of mutex_.                                                      *)
(***************************************************************************)
EXTENDS Positions

CONSTANTS Sources, Ports, Targets,
          ScanWindow, CleanupWindow, ScanThreshold, \* 60 and 300 seconds, 10 ports
          FloodWindows, FloodCounts, \* what callers pass
          IDSRules, RulesMatching, \* RulesMatching[p]: rules that packet p matches
          KMaxAlerts,       \* kMaxAlerts
          MaxIDSRules, MaxSeconds, MaxCalls \* bounds

IntrusionAssumption ==
  /\ ScanWindow \in Nat /\ CleanupWindow \in Nat /\ ScanWindow <= CleanupWindow
  /\ FloodWindows \subseteq Int /\ FloodCounts \subseteq Int /\ KMaxAlerts \in Nat \ {0}
  /\ Ports \subseteq Seq(Nat) /\ MaxSeconds \in Nat

VARIABLES
  idsRules,         \* rules_: ids; the same one may be added again
  portScanTracker,  \* source -> [time, port], the oldest first
  floodTracker,     \* synFloodTracker_, bruteForceTracker_: target -> times
  idsAlerts,        \* alerts_: their numbers
  seconds,          \* steady_clock
  attempted,        \* history: all attempts by source
  flooded,          \* history: how often at a target, by time
  asked,            \* history: by target, the windows of the calls
  raised,           \* history: alerts raised since they were cleared
  calls             \* bounded: packets and attempts reported

intrusionVars == <<idsRules, portScanTracker, floodTracker, idsAlerts, seconds,
                   attempted, flooded, asked, raised, calls>>
histories == <<attempted, flooded, asked>>

Init == /\ idsRules = <<>> /\ portScanTracker = [s \in {} |-> <<>>]
        /\ floodTracker = [d \in {} |-> <<>>] /\ idsAlerts = <<>> /\ seconds = 0
        /\ attempted = [s \in Sources |-> {}] /\ raised = 0 /\ calls = 0
        /\ flooded = [d \in Targets |-> [i \in 0..MaxSeconds |-> 0]]
        /\ asked = [d \in Targets |-> {}]
-----------------------------------------------------------------------------
Alert(n) ==
  LET all == idsAlerts \o [i \in 1..n |-> raised + i] IN
  /\ idsAlerts' = SubSeq(all, (IF Len(all) > KMaxAlerts THEN Len(all) - KMaxAlerts ELSE 0) + 1, Len(all))
  /\ raised' = raised + n /\ calls < MaxCalls /\ calls' = calls + 1

AddRule(r) ==
  /\ Len(idsRules) < MaxIDSRules
  /\ idsRules' = Append(idsRules, r)
  /\ UNCHANGED <<portScanTracker, floodTracker, idsAlerts, seconds, histories, raised, calls>>

RemoveRule(r) ==
  /\ idsRules' = Kept(idsRules, {i \in DOMAIN idsRules : idsRules[i] # r})
  /\ UNCHANGED <<portScanTracker, floodTracker, idsAlerts, seconds, histories, raised, calls>>

Since(attempts, window) ==
  Kept(attempts, {i \in DOMAIN attempts : attempts[i].time >= seconds - window})

(* pruneOldEntries(): of all sources; those without entries go.            *)
Pruned ==
  LET kept == [s \in DOMAIN portScanTracker |-> Since(portScanTracker[s], CleanupWindow)]
  IN [s \in {q \in DOMAIN kept : kept[q] # <<>>} |-> kept[s]]

(* evaluate(): an alert for every rule that matches.                       *)
Evaluate(p) ==
  /\ portScanTracker' = Pruned
  /\ Alert(Cardinality({i \in DOMAIN idsRules : idsRules[i] \in RulesMatching[p]}))
  /\ UNCHANGED <<idsRules, floodTracker, seconds, histories>>

(* detectPortScan() with one port or several.                              *)
DetectPortScan(s, ports) ==
  LET before   == IF s \in DOMAIN Pruned THEN Pruned[s] ELSE <<>>
      entered  == [i \in DOMAIN ports |-> [time |-> seconds, port |-> ports[i]]]
      attempts == Since(before \o entered, ScanWindow)
  IN /\ portScanTracker' = Put(Pruned, s, attempts)
     /\ Alert(IF Cardinality({a.port : a \in Range(attempts)}) > ScanThreshold THEN 1 ELSE 0)
     /\ attempted' = [attempted EXCEPT ![s] = @ \cup Range(entered)]
     /\ UNCHANGED <<idsRules, floodTracker, seconds, flooded, asked>>

KeepLast(times, window) == Kept(times, {i \in DOMAIN times : times[i] > seconds - window}) \* slip: the edge goes
(* All that the window of this call leaves out is forgotten for good, also *)
(* for callers with a longer one.                                          *)
Within(times, window) == Kept(times, {i \in DOMAIN times : times[i] >= seconds - window})

(* detectSYNFlood(), detectBruteForce(): without entries there is no alert *)
(* although the threshold may be 0 then.                                   *)
DetectFlood(d, count, window) ==
  LET before == IF d \in DOMAIN floodTracker THEN floodTracker[d] ELSE <<>>
      times  == Within(Append(before, seconds), window)
  IN /\ floodTracker' = IF times = <<>> THEN Restrict(floodTracker, DOMAIN floodTracker \ {d})
                        ELSE Put(floodTracker, d, times)
     /\ Alert(IF times # <<>> /\ Len(times) >= count THEN 1 ELSE 0)
     /\ flooded' = [flooded EXCEPT ![d][seconds] = @ + 1]
     /\ asked' = [asked EXCEPT ![d] = @ \cup {window}]
     /\ UNCHANGED <<idsRules, portScanTracker, seconds, attempted>>

ClearAlerts ==
  /\ idsAlerts' = <<>> /\ raised' = 0
  /\ UNCHANGED <<idsRules, portScanTracker, floodTracker, seconds, histories, calls>>

Tick ==
  /\ seconds < MaxSeconds /\ seconds' = seconds + 1
  /\ UNCHANGED <<idsRules, portScanTracker, floodTracker, idsAlerts, histories, raised, calls>>

Next ==
  \/ \E r \in IDSRules : RemoveRule(r) \/ AddRule(r)
  \/ \E p \in DOMAIN RulesMatching : Evaluate(p)
  \/ \E s \in Sources, ports \in Ports : DetectPortScan(s, ports)
  \/ \E d \in Targets, count \in FloodCounts, window \in FloodWindows :
       DetectFlood(d, count, window)
  \/ ClearAlerts \/ Tick

Spec == Init /\ [][Next]_intrusionVars
-----------------------------------------------------------------------------
IntrusionTypeOK ==
  /\ idsRules \in Seq(IDSRules) /\ seconds \in 0..MaxSeconds /\ raised \in Nat
  /\ DOMAIN portScanTracker \subseteq Sources /\ DOMAIN floodTracker \subseteq Targets
  /\ \A d \in DOMAIN floodTracker : floodTracker[d] \in Seq(0..MaxSeconds) /\ floodTracker[d] # <<>>

Remembered(d) == IF d \in DOMAIN floodTracker THEN floodTracker[d] ELSE <<>>

(* A port scan is judged by all attempts of its source that are not older  *)
(* than the window, whoever else's were pruned when.  A flood is judged by *)
(* no more attempts than there were, and by all in the window as long as   *)
(* no call for that target had a shorter one.  The list holds the latest   *)
(* alerts, none left out and none twice.                                   *)
WindowsExact ==
  /\ \A s \in Sources :
       LET known == IF s \in DOMAIN portScanTracker THEN Range(portScanTracker[s]) ELSE {}
       IN {a \in known : seconds - a.time <= ScanWindow}
            = {a \in attempted[s] : seconds - a.time <= ScanWindow}
  /\ \A d \in Targets, t \in 0..seconds :
       LET times == Cardinality({i \in DOMAIN Remembered(d) : Remembered(d)[i] = t})
       IN /\ times <= flooded[d][t]
          /\ (\A w \in asked[d] : seconds - t <= w) => times = flooded[d][t]
  /\ idsAlerts = [i \in 1..Len(idsAlerts) |-> raised - Len(idsAlerts) + i]
  /\ Len(idsAlerts) = IF raised < KMaxAlerts THEN raised ELSE KMaxAlerts
=============================================================================

---------------------------- MODULE AlertManager ----------------------------
(***************************************************************************)
(* EDR::AlertManager: alerts, a bounded list of which the oldest go, and   *)
(* an index by key that suppresses repetitions within a window of time.    *)
(* Every operation is one section of mutex_, except for the assignment of  *)
(* the window.  Severity and texts are left out.                           *)
(***************************************************************************)
EXTENDS Positions

CONSTANTS AlertKeys,        \* source and description
          DefaultWindow, DefaultCapacity, \* 60 seconds, 10000 alerts
          Windows, Capacities, \* what a caller may set
          MaxAlertId, MaxClock, MaxRepeats \* bounds

AlertAssumption == /\ DefaultWindow \in Windows /\ Windows \subseteq Nat
                   /\ DefaultCapacity \in Capacities /\ Capacities \subseteq Nat
                   /\ MaxAlertId \in Nat /\ MaxClock \in Nat \ {0} /\ MaxRepeats \in Nat

VARIABLES
  alerts,           \* alerts_: [id, key, time, status], the oldest first
  dedupIndex,       \* dedupIndex_: key -> time
  dedupWindow, maxCapacity,
  nextAlertId,      \* nextId_
  deduplicated,     \* deduplicatedCount_
  clock             \* steady_clock, in the unit of the windows

alertVars == <<alerts, dedupIndex, dedupWindow, maxCapacity, nextAlertId, deduplicated, clock>>

Init == /\ alerts = <<>> /\ dedupIndex = [k \in {} |-> 0] /\ nextAlertId = 1
        /\ dedupWindow = DefaultWindow /\ maxCapacity = DefaultCapacity
        /\ deduplicated = 0 /\ clock = 1
-----------------------------------------------------------------------------
(* The clock counts nanoseconds: two alerts never have the same time.      *)
Fresh == alerts # <<>> => Last(alerts).time < clock

IsDuplicate(k) == k \in DOMAIN dedupIndex /\ clock - dedupIndex[k] < dedupWindow

EvictAndForget(gone, index) ==                 \* slip: newer alerts are forgotten
  Restrict(index, DOMAIN index \ {a.key : a \in gone})
(* The index forgets the alerts that go, unless it holds a newer one.      *)
Evict(gone, index) ==
  Restrict(index, {k \in DOMAIN index : \A a \in gone : a.key = k => index[k] # a.time})

Suppress(k) ==
  /\ IsDuplicate(k) /\ deduplicated < MaxRepeats
  /\ deduplicated' = deduplicated + 1
  /\ UNCHANGED <<alerts, dedupIndex, dedupWindow, maxCapacity, nextAlertId, clock>>

(* generateAlert(): with a capacity of 0 the new alert itself goes.        *)
GenerateAlert(k) ==
  /\ ~IsDuplicate(k) /\ Fresh /\ nextAlertId <= MaxAlertId
  /\ LET all   == Append(alerts, [id |-> nextAlertId, key |-> k, time |-> clock, status |-> "New"])
         index == Put(dedupIndex, k, clock)
     IN IF Len(all) > maxCapacity
          THEN alerts' = Tail(all) /\ dedupIndex' = Evict({Head(all)}, index)
          ELSE alerts' = all /\ dedupIndex' = index
  /\ nextAlertId' = nextAlertId + 1
  /\ UNCHANGED <<dedupWindow, maxCapacity, deduplicated, clock>>

(* acknowledgeAlert() and resolveAlert(): in any order, and again.         *)
SetStatus(i, status) ==
  /\ alerts' = [alerts EXCEPT ![i].status = status]
  /\ UNCHANGED <<dedupIndex, dedupWindow, maxCapacity, nextAlertId, deduplicated, clock>>

SetDeduplicationWindow(w) ==
  /\ dedupWindow' = w
  /\ UNCHANGED <<alerts, dedupIndex, maxCapacity, nextAlertId, deduplicated, clock>>

SetMaxCapacity(n) ==
  LET gone == IF Len(alerts) > n THEN Len(alerts) - n ELSE 0 IN
  /\ maxCapacity' = n
  /\ alerts' = SubSeq(alerts, gone + 1, Len(alerts))
  /\ dedupIndex' = Evict(ToSet(SubSeq(alerts, 1, gone)), dedupIndex)
  /\ UNCHANGED <<dedupWindow, nextAlertId, deduplicated, clock>>

Clear ==
  /\ alerts' = <<>> /\ dedupIndex' = [k \in {} |-> 0] /\ deduplicated' = 0
  /\ UNCHANGED <<dedupWindow, maxCapacity, nextAlertId, clock>>

Tick ==
  /\ clock < MaxClock /\ clock' = clock + 1
  /\ UNCHANGED <<alerts, dedupIndex, dedupWindow, maxCapacity, nextAlertId, deduplicated>>

Next ==
  \/ \E k \in AlertKeys : GenerateAlert(k) \/ Suppress(k)
  \/ \E i \in DOMAIN alerts, status \in {"Acknowledged", "Resolved"} : SetStatus(i, status)
  \/ \E w \in Windows : SetDeduplicationWindow(w)
  \/ \E n \in Capacities : SetMaxCapacity(n)
  \/ Clear \/ Tick

Spec == Init /\ [][Next]_alertVars
-----------------------------------------------------------------------------
AlertTypeOK ==
  /\ alerts \in Seq([id : 1..MaxAlertId, key : AlertKeys, time : 1..MaxClock,
                     status : {"New", "Acknowledged", "Resolved"}])
  /\ DOMAIN dedupIndex \subseteq AlertKeys /\ \A k \in DOMAIN dedupIndex : dedupIndex[k] \in 1..MaxClock
  /\ dedupWindow \in Windows /\ maxCapacity \in Capacities
  /\ nextAlertId \in 1..MaxAlertId + 1 /\ deduplicated \in 0..MaxRepeats /\ clock \in 1..MaxClock

(* A report is suppressed exactly when an alert of the same key that is    *)
(* younger than the window can still be looked up, whatever was evicted by *)
(* new alerts or a smaller capacity meanwhile and however often the window *)
(* was changed.  The list keeps to its capacity, and the newest alerts.    *)
RepeatsHaveAnAlert ==
  /\ \A k \in AlertKeys :
       IsDuplicate(k) <=> \E i \in DOMAIN alerts :
                            alerts[i].key = k /\ clock - alerts[i].time < dedupWindow
  /\ Len(alerts) <= maxCapacity
  /\ \A i \in 1..Len(alerts) - 1 : alerts[i + 1].id = alerts[i].id + 1
=============================================================================

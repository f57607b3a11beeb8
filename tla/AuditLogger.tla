---------------------------- MODULE AuditLogger ----------------------------
(***************************************************************************)
(* Identity::AuditLogger: entries that are chained by hashes, and a        *)
(* retention that removes the oldest.  The class has no lock: one thread   *)
(* at a time is assumed.  An entry's hash covers its unique id, so that    *)
(* the id stands for the hash, and 0 for the empty one.  The system clock  *)
(* may be set back.                                                        *)
(***************************************************************************)
EXTENDS Positions

CONSTANTS MaxEvents,        \* bound: events ever logged
          MaxTime,          \* bound: values of the clock
          Policies          \* [enabled, maxAge, maxEntries]

AuditAssumption ==
  /\ MaxEvents \in Nat /\ MaxTime \in Nat
  /\ Policies \subseteq [enabled : BOOLEAN, maxAge : Int, maxEntries : Nat]

VARIABLES
  entries,          \* entries_: id, previous, time
  nextId,
  policy,           \* retentionPolicy_
  now,              \* std::chrono::system_clock
  first,            \* history: the id logged when entries_ was empty last
  setBack           \* history: whether the clock was ever set back

auditVars == <<entries, nextId, policy, now, first, setBack>>

IdsOf(s) == {s[i].id : i \in DOMAIN s}

ChainToLatest(s) == nextId - 1         \* slip: a remembered hash, never reset
(* What a new entry is chained to.                                         *)
Latest(s) == IF s = <<>> THEN 0 ELSE s[Len(s)].id

(* enforceRetention(): first by age, wherever in the log, then from the    *)
(* front by number.                                                        *)
Retained(s) ==
  IF ~policy.enabled THEN s
  ELSE LET young  == Kept(s, {i \in DOMAIN s : now - s[i].time <= policy.maxAge})
           excess == Len(young) - policy.maxEntries
       IN IF excess > 0 THEN SubSeq(young, excess + 1, Len(young)) ELSE young

Init == /\ entries = <<>> /\ nextId = 1 /\ first = 1
        /\ now = 0 /\ setBack = FALSE /\ policy \in {p \in Policies : ~p.enabled}
-----------------------------------------------------------------------------
(* logEvent(): the retention of all kinds runs when there are too many.    *)
LogEvent ==
  /\ nextId <= MaxEvents
  /\ LET logged == Append(entries, [id |-> nextId, previous |-> Latest(entries), time |-> now])
     IN entries' = IF Len(logged) > policy.maxEntries THEN Retained(logged) ELSE logged
  /\ nextId' = nextId + 1
  /\ first' = IF entries = <<>> THEN nextId ELSE first
  /\ UNCHANGED <<policy, now, setBack>>

EnforceRetention == /\ entries' = Retained(entries)
                    /\ UNCHANGED <<nextId, policy, now, first, setBack>>

SetRetentionPolicy(p) == policy' = p /\ UNCHANGED <<entries, nextId, now, first, setBack>>

ClockChanges == /\ now' \in 0..MaxTime /\ setBack' = (setBack \/ now' < now)
                /\ UNCHANGED <<entries, nextId, policy, first>>

Next == \/ LogEvent \/ EnforceRetention \/ ClockChanges
        \/ \E p \in Policies : SetRetentionPolicy(p)

Spec == Init /\ [][Next]_auditVars
-----------------------------------------------------------------------------
AuditTypeOK ==
  /\ entries \in Seq([id : 1..MaxEvents, previous : 0..MaxEvents, time : 0..MaxTime])
  /\ nextId \in 1..MaxEvents + 1 /\ first \in 1..MaxEvents + 1
  /\ policy \in Policies /\ now \in 0..MaxTime

(* verifyChainIntegrity().                                                 *)
ChainVerifies == \A i \in DOMAIN entries :
  entries[i].previous = IF i = 1 THEN 0 ELSE entries[i - 1].id

Complete == entries = <<>> \/ IdsOf(entries) = first..(nextId - 1)

(* Through clock changes and retentions the log is in the order of its     *)
(* events.  verifyChainIntegrity() holds as long as nothing is missing     *)
(* that was logged since the log was last empty, and it notices whatever   *)
(* is: a retention that removes some entries and keeps others ends the     *)
(* integrity until the log is empty again.  Only when the clock was set    *)
(* back may it go unnoticed: entries at the end may be the ones too old.   *)
ChainTellsHoles ==
  /\ \A i, j \in DOMAIN entries : i < j => entries[i].id < entries[j].id
  /\ Complete => ChainVerifies
  /\ ChainVerifies /\ ~setBack => Complete
=============================================================================

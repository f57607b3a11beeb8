------------------------- MODULE TelemetryTransport -------------------------
(***************************************************************************)
(* Telemetry::TelemetryTransport: events and metrics wait in two queues,   *)
(* are made into batches within limits that may change, and the batches    *)
(* are flushed in whatever order they are asked for.  Every operation is   *)
(* one section of mutex_.  Sending is simulated: no batch ever fails, and  *)
(* retryBatch() never finds one that did.                                  *)
(***************************************************************************)
EXTENDS Positions

CONSTANTS Sizes,            \* what estimateSize() makes of an event
          Limits,           \* TransportConfig: [items, bytes]
          MaxItems,         \* bound: events and metrics ever accepted
          MaxBatches        \* bound: batches ever made; without room they are
                            \* empty, and there is no end of them

TransportAssumption ==
  /\ Sizes \subseteq Nat /\ Limits \subseteq [items : Nat, bytes : Nat]
  /\ MaxItems \in Nat

VARIABLES
  eventQueue, metricQueue,  \* items: their number, and the size of an event
  batches,          \* batches_ by number: events, metrics, totalSize, and as
                    \* history the limits they were made under
  enabled,
  limits,           \* config_
  sent,             \* stats_: batches, events, bytes
  nextItem, nextBatch,
  flushed, cleared  \* history: items that were sent, or dropped by clearQueue()

transportVars == <<eventQueue, metricQueue, batches, enabled, limits, sent,
                   nextItem, nextBatch, flushed, cleared>>

Bytes(s)   == SumFunction([i \in DOMAIN s |-> s[i].size])
Least(a, b) == IF a < b THEN a ELSE b

Init == /\ eventQueue = <<>> /\ metricQueue = <<>> /\ batches = [b \in {} |-> <<>>]
        /\ enabled = TRUE /\ limits \in Limits /\ sent = [batches |-> 0, events |-> 0, bytes |-> 0]
        /\ nextItem = 1 /\ nextBatch = 1 /\ flushed = {} /\ cleared = {}
-----------------------------------------------------------------------------
Enqueue == enabled /\ nextItem <= MaxItems /\ nextItem' = nextItem + 1

EnqueueEvent(size) ==
  /\ Enqueue
  /\ eventQueue' = Append(eventQueue, [number |-> nextItem, size |-> size])
  /\ UNCHANGED <<metricQueue, batches, enabled, limits, sent, nextBatch, flushed, cleared>>

EnqueueMetric ==
  /\ Enqueue
  /\ metricQueue' = Append(metricQueue, [number |-> nextItem])
  /\ UNCHANGED <<eventQueue, batches, enabled, limits, sent, nextBatch, flushed, cleared>>

FitsWithNext(k) ==                     \* slip: the size is tested one event late
  Bytes(SubSeq(eventQueue, 1, k - 1)) <= limits.bytes
(* The first k events are within maxBatchBytes, or there is only one.      *)
Fits(k) == k <= 1 \/ Bytes(SubSeq(eventQueue, 1, k)) <= limits.bytes

(* As many events as fit, and metrics as far as there is room by number.   *)
CreateBatch ==
  /\ nextBatch <= MaxBatches /\ (eventQueue # <<>> \/ metricQueue # <<>>)
  /\ LET room == Least(Len(eventQueue), limits.items)
         k    == Max({n \in 0..room : \A i \in 0..n : Fits(i)})
         m    == Least(Len(metricQueue), limits.items - k)
         events == SubSeq(eventQueue, 1, k)
         batch  == [events |-> events, metrics |-> SubSeq(metricQueue, 1, m),
                    totalSize |-> Bytes(events), limits |-> limits]
     IN /\ batches' = [b \in DOMAIN batches \cup {nextBatch} |->
                         IF b = nextBatch THEN batch ELSE batches[b]]
        /\ eventQueue'  = SubSeq(eventQueue, k + 1, Len(eventQueue))
        /\ metricQueue' = SubSeq(metricQueue, m + 1, Len(metricQueue))
  /\ nextBatch' = nextBatch + 1
  /\ UNCHANGED <<enabled, limits, sent, nextItem, flushed, cleared>>

(* flushBatch(): also while the transport is disabled.                     *)
FlushBatch(b) ==
  /\ sent' = [batches |-> sent.batches + 1, events |-> sent.events + Len(batches[b].events),
              bytes |-> sent.bytes + batches[b].totalSize]
  /\ flushed' = flushed \cup Range(batches[b].events) \cup Range(batches[b].metrics)
  /\ batches' = [c \in DOMAIN batches \ {b} |-> batches[c]]
  /\ UNCHANGED <<eventQueue, metricQueue, enabled, limits, nextItem, nextBatch, cleared>>

ClearQueue ==
  /\ eventQueue' = <<>> /\ metricQueue' = <<>>
  /\ cleared' = cleared \cup Range(eventQueue) \cup Range(metricQueue)
  /\ UNCHANGED <<batches, enabled, limits, sent, nextItem, nextBatch, flushed>>

SetEnabled(on) ==
  /\ enabled' = on
  /\ UNCHANGED <<eventQueue, metricQueue, batches, limits, sent, nextItem, nextBatch,
                 flushed, cleared>>

SetConfig(l) ==
  /\ limits' = l
  /\ UNCHANGED <<eventQueue, metricQueue, batches, enabled, sent, nextItem, nextBatch,
                 flushed, cleared>>

Next == \/ \E size \in Sizes : EnqueueEvent(size)
        \/ EnqueueMetric \/ CreateBatch \/ ClearQueue
        \/ \E b \in DOMAIN batches : FlushBatch(b)
        \/ \E on \in BOOLEAN : SetEnabled(on)
        \/ \E l \in Limits : SetConfig(l)

Spec == Init /\ [][Next]_transportVars
-----------------------------------------------------------------------------
TransportTypeOK ==
  /\ eventQueue \in Seq([number : 1..MaxItems, size : Sizes])
  /\ metricQueue \in Seq([number : 1..MaxItems])
  /\ DOMAIN batches \subseteq 1..(nextBatch - 1)
  /\ enabled \in BOOLEAN /\ limits \in Limits /\ nextItem \in 1..(MaxItems + 1)
  /\ sent \in [batches : Nat, events : Nat, bytes : Nat]

Ascending(s) == \A i, j \in DOMAIN s : i < j => s[i].number < s[j].number

Ended == flushed \cup cleared
Held  == Range(eventQueue) \cup Range(metricQueue)
           \cup UNION {Range(batches[b].events) \cup Range(batches[b].metrics) : b \in DOMAIN batches}
SentEvents == {x \in flushed : "size" \in DOMAIN x}

(* However items come, batches are made under changing limits and flushed  *)
(* out of order, and queues are cleared: no accepted item is lost or is in *)
(* two places; events and metrics leave their queues in the order they     *)
(* came; a batch keeps the limits it was made under, that of bytes unless  *)
(* it has one event only; and the statistics count every batch, and its    *)
(* events without its metrics, once.                                       *)
BatchesKeepItems ==
  /\ {x.number : x \in Held \cup Ended} = 1..(nextItem - 1)
  /\ Len(eventQueue) + Len(metricQueue) + Cardinality(flushed) + Cardinality(cleared)
       + SumFunction([b \in DOMAIN batches |-> Len(batches[b].events) + Len(batches[b].metrics)])
     = nextItem - 1
  /\ \A b \in DOMAIN batches : LET x == batches[b] IN
       /\ Len(x.events) + Len(x.metrics) <= x.limits.items
       /\ Len(x.events) <= 1 \/ x.totalSize <= x.limits.bytes
       /\ Ascending(x.events \o eventQueue) /\ Ascending(x.metrics \o metricQueue)
       /\ \A c \in DOMAIN batches : b < c =>
            /\ Ascending(x.events \o batches[c].events)
            /\ Ascending(x.metrics \o batches[c].metrics)
  /\ sent.batches + Cardinality(DOMAIN batches) = nextBatch - 1
  /\ sent.events = Cardinality(SentEvents)
  /\ sent.bytes = SumFunction([x \in SentEvents |-> x.size])
=============================================================================

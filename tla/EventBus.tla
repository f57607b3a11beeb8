------------------------------ MODULE EventBus ------------------------------
(***************************************************************************)
(* Core::EventBus: subscribe, unsubscribe, clear and publish, called by    *)
(* any thread and by handlers.  publish() copies the matching              *)
(* subscriptions under the shared lock and calls their handlers after it,  *)
(* in the publishing thread (enqueueAsync() calls them too), so that the   *)
(* table changes under a dispatch in progress.  A handler may publish      *)
(* itself: a thread has a stack of dispatches.  Ids of subscriptions come  *)
(* from a counter and never return.                                        *)
(***************************************************************************)
EXTENDS Positions

CONSTANTS Threads,
          Events,       \* [type, priority]
          Subs,         \* subscription ids
          Filter,       \* of each, what it asks for: [types, min]; a
                        \* subscription to the base Event takes every type
          NoSub,
          MaxDispatches \* bound: calls of publish() in progress at once

BusAssumption == NoSub \notin Subs

VARIABLES
  subscribers,      \* ids in subscribers_
  unused,           \* ids nextId() has not given out
  stack             \* by thread its publish() calls, the innermost last:
                    \*   event, due (matchingSubscribers still to call),
                    \*   handling (whose handler runs), stopped,
                    \*   called, and as history
                    \*   present: subscribed when it began,
                    \*   stayed:  subscribed ever since

busVars == <<subscribers, unused, stack>>

Matches(s, e) == e.type \in Filter[s].types /\ e.priority >= Filter[s].min
Matching(e)   == {s \in subscribers : Matches(s, e)}

Dispatching(t) == stack[t] # <<>>
Top(t)         == Last(stack[t])
Handling(t)    == Dispatching(t) /\ Top(t).handling # NoSub

SetTop(t, f) == stack' = [stack EXCEPT ![t] = Append(Front(@), f)]
Pop(t)       == stack' = [stack EXCEPT ![t] = Front(@)]

DueLive(f) ==                     \* slip: goes on over the table as it is now
  {s \in subscribers : Matches(s, f.event)} \ ToSet(f.called)

(* What is left of matchingSubscribers.                                    *)
Due(f) == f.due

Init == subscribers = {} /\ unused = Subs /\ stack = [t \in Threads |-> <<>>]
-----------------------------------------------------------------------------
Subscribe(s) ==
  /\ s \in unused
  /\ unused' = unused \ {s} /\ subscribers' = subscribers \cup {s}
  /\ UNCHANGED stack

(* The removed are no longer among those that stayed.                      *)
Forget(gone) ==
  /\ subscribers' = subscribers \ gone
  /\ stack' = [t \in Threads |-> [i \in DOMAIN stack[t] |->
                 [stack[t][i] EXCEPT !.stayed = @ \ gone]]]
  /\ UNCHANGED unused

Unsubscribe(s) == s \in subscribers /\ Forget({s})
Clear          == subscribers # {} /\ Forget(subscribers)

(* publish(): by a thread at work elsewhere, or by a handler.              *)
Publish(t, e) ==
  /\ Dispatching(t) => Handling(t)
  /\ MapThenSumSet(LAMBDA x : Len(stack[x]), Threads) < MaxDispatches
  /\ stack' = [stack EXCEPT ![t] = Append(@,
       [event |-> e, due |-> Matching(e), handling |-> NoSub, stopped |-> FALSE,
        called |-> <<>>, present |-> Matching(e), stayed |-> Matching(e)])]
  /\ UNCHANGED <<subscribers, unused>>

(* The next handler in the sorted copy; std::sort leaves the order of      *)
(* equal thresholds open.                                                  *)
CallHandler(t) ==
  /\ Dispatching(t) /\ ~Handling(t) /\ ~Top(t).stopped
  /\ LET f == Top(t) IN \E s \in Due(f) :
       /\ \A x \in Due(f) : Filter[x].min <= Filter[s].min
       /\ SetTop(t, [f EXCEPT !.due = f.due \ {s}, !.handling = s, !.called = Append(f.called, s)])
  /\ UNCHANGED <<subscribers, unused>>

StopPropagation(t) ==
  /\ Handling(t) /\ SetTop(t, [Top(t) EXCEPT !.stopped = TRUE])
  /\ UNCHANGED <<subscribers, unused>>

HandlerReturns(t) ==
  /\ Handling(t) /\ SetTop(t, [Top(t) EXCEPT !.handling = NoSub])
  /\ UNCHANGED <<subscribers, unused>>

(* An exception leaves publish(), and the handler it was called from may   *)
(* catch it or not.                                                        *)
HandlerThrows(t) == Handling(t) /\ Pop(t) /\ UNCHANGED <<subscribers, unused>>

PublishReturns(t) ==
  /\ Dispatching(t) /\ ~Handling(t)
  /\ Top(t).stopped \/ Due(Top(t)) = {}
  /\ Pop(t)
  /\ UNCHANGED <<subscribers, unused>>

Next == \/ \E s \in Subs : Subscribe(s) \/ Unsubscribe(s)
        \/ Clear
        \/ \E t \in Threads :
             \/ \E e \in Events : Publish(t, e)
             \/ CallHandler(t) \/ StopPropagation(t) \/ HandlerReturns(t)
             \/ HandlerThrows(t) \/ PublishReturns(t)

Spec == Init /\ [][Next]_busVars
-----------------------------------------------------------------------------
BusTypeOK ==
  /\ subscribers \subseteq Subs /\ unused \subseteq Subs \ subscribers
  /\ \A t \in Threads : \A i \in DOMAIN stack[t] : LET f == stack[t][i] IN
       /\ f.event \in Events /\ f.handling \in Subs \cup {NoSub} /\ f.stopped \in BOOLEAN
       /\ f.due \subseteq Subs /\ f.called \in Seq(Subs)
       /\ f.stayed \subseteq f.present /\ f.present \subseteq Subs

(* What publish() owes, whatever other threads and the handlers themselves *)
(* subscribe, unsubscribe or publish meanwhile: every matching subscriber  *)
(* that stays subscribed is called, unless the event is stopped; no        *)
(* handler is called twice or out of the order of the thresholds; and one  *)
(* that is called after its unsubscribe() returned was subscribed when the *)
(* publication began, as none is that subscribed later.                    *)
EventsDelivered == \A t \in Threads : \A i \in DOMAIN stack[t] :
  LET f == stack[t][i] IN
  /\ IsInjective(f.called) /\ ToSet(f.called) \subseteq f.present
  /\ \A j, k \in DOMAIN f.called : j < k => Filter[f.called[j]].min >= Filter[f.called[k]].min
  /\ (f.handling = NoSub /\ f.due = {} /\ ~f.stopped) => f.stayed \subseteq ToSet(f.called)
=============================================================================

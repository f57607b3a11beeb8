--------------------------- MODULE WebhookManager ---------------------------
(***************************************************************************)
(* Api::WebhookManager: an event is sent to every subscription that asks   *)
(* for it, and what fails is sent again, by processRetryQueue() or by hand *)
(* (retryDelivery()).  The sender runs inside the call, with mutex_ held:  *)
(* every operation is one section.  Ids are random and taken as unique.    *)
(***************************************************************************)
EXTENDS Positions

CONSTANTS Hooks,            \* subscriptions
          MaxRetries,       \* of each, its policy's maxRetries
          Topics, Asks,     \* kinds of event, and those a hook's patterns match
          MaxDeliveries,    \* bound: deliveries ever made
          MaxByHand         \* bound: retryDelivery() of one delivery

WebhookAssumption == /\ IsFiniteSet(Hooks)
                     /\ MaxRetries \in [Hooks -> Int] /\ Asks \in [Hooks -> SUBSET Topics]
                     /\ MaxByHand \in Nat

VARIABLES
  subscribed,       \* subscriptions_
  ended,            \* hooks that were unsubscribed: ids do not return
  deliveries        \* deliveries_: hook, status, attempts; as history how often
                    \* the receiver answered with success, and the calls by hand

webhookVars == <<subscribed, ended, deliveries>>

(* Retrying is tested against the attempts so far in deliverWebhook() and  *)
(* retryDelivery(), by < and >= : one rule.                                *)
After(hook, attempts, ok) ==
  IF ok THEN "Delivered" ELSE IF attempts < MaxRetries[hook] THEN "Retrying" ELSE "Failed"

Sent(d, ok) == [d EXCEPT !.attempts = @ + 1, !.status = After(d.hook, d.attempts + 1, ok),
                         !.successes = @ + (IF ok THEN 1 ELSE 0)]

SentByHand(d, ok) == [Sent(d, ok) EXCEPT !.byHand = @ + 1]

New(hook) == [hook |-> hook, status |-> "Pending", attempts |-> 0, successes |-> 0, byHand |-> 0]

Open(d) == d.status \in {"Failed", "Retrying"}

Init == subscribed = {} /\ ended = {} /\ deliveries = <<>>
-----------------------------------------------------------------------------
Subscribe(h)   == /\ h \notin subscribed \cup ended
                  /\ subscribed' = subscribed \cup {h} /\ UNCHANGED <<ended, deliveries>>
Unsubscribe(h) == /\ h \in subscribed
                  /\ subscribed' = subscribed \ {h} /\ ended' = ended \cup {h}
                  /\ UNCHANGED deliveries

(* triggerEvent(): one delivery for each hook that asks for the topic, as  *)
(* each receiver answers.                                                  *)
TriggerEvent(topic) ==
  LET hooks == SetToSeq({h \in subscribed : topic \in Asks[h]}) IN
  /\ Len(deliveries) + Len(hooks) <= MaxDeliveries
  /\ \E ok \in [DOMAIN hooks -> BOOLEAN] :
       deliveries' = deliveries \o [i \in DOMAIN hooks |-> Sent(New(hooks[i]), ok[i])]
  /\ UNCHANGED <<subscribed, ended>>

RetryAny(i) ==                         \* slip: the status is not looked at
  /\ deliveries[i].hook \in subscribed /\ deliveries[i].byHand < MaxByHand
  /\ \E ok \in BOOLEAN : deliveries' = [deliveries EXCEPT ![i] = SentByHand(@, ok)]
  /\ UNCHANGED <<subscribed, ended>>

(* retryDelivery(): also beyond maxRetries.                                *)
RetryDelivery(i) ==
  /\ Open(deliveries[i]) /\ deliveries[i].hook \in subscribed
  /\ deliveries[i].byHand < MaxByHand
  /\ \E ok \in BOOLEAN : deliveries' = [deliveries EXCEPT ![i] = SentByHand(@, ok)]
  /\ UNCHANGED <<subscribed, ended>>

(* What a pass over the retry queue makes of one delivery.                 *)
Retried(d, ok) ==
  IF d.status # "Retrying" THEN d
  ELSE IF d.hook \notin subscribed \/ d.attempts >= MaxRetries[d.hook]
    THEN [d EXCEPT !.status = "Failed"]
  ELSE Sent(d, ok)

ProcessRetryQueue ==
  /\ \E ok \in [DOMAIN deliveries -> BOOLEAN] :
       deliveries' = [i \in DOMAIN deliveries |-> Retried(deliveries[i], ok[i])]
  /\ UNCHANGED <<subscribed, ended>>

Next == \/ \E h \in Hooks : Subscribe(h) \/ Unsubscribe(h)
        \/ \E t \in Topics : TriggerEvent(t)
        \/ \E i \in DOMAIN deliveries : RetryDelivery(i)
        \/ ProcessRetryQueue

Spec == Init /\ [][Next]_webhookVars
-----------------------------------------------------------------------------
WebhookTypeOK ==
  /\ subscribed \subseteq Hooks /\ ended \subseteq Hooks \ subscribed
  /\ deliveries \in Seq([hook : Hooks, status : {"Delivered", "Retrying", "Failed"},
                         attempts : Nat, successes : Nat, byHand : 0..MaxByHand])

(* However retries by the queue, retries by hand and unsubscriptions mix:  *)
(* a receiver that has answered with success is not sent the delivery      *)
(* again; what is left to retry has attempts left; and a delivery is sent  *)
(* no more often than its policy says, but once at least, not counting the *)
(* calls by hand.                                                          *)
RetriesBounded == \A i \in DOMAIN deliveries : LET d == deliveries[i] IN
  /\ d.successes = IF d.status = "Delivered" THEN 1 ELSE 0
  /\ d.status = "Retrying" => d.attempts < MaxRetries[d.hook]
  /\ d.attempts - d.byHand <= IF MaxRetries[d.hook] > 1 THEN MaxRetries[d.hook] ELSE 1
=============================================================================

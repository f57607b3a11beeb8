------------------------------ MODULE Firewall ------------------------------
(***************************************************************************)
(* Firewall::RuleEngine, PacketFilter and FirewallManager: an ordered list *)
(* of rules, the decision about a packet and its statistics.  A packet is  *)
(* decided on in one section of the engine's mutex and counted in one of   *)
(* the filter's, so that anything may happen between the two.  Protocol,   *)
(* destination and application are compared like the direction or the      *)
(* source and left out.                                                    *)
(***************************************************************************)
EXTENDS Positions

CONSTANTS Filtering,        \* threads that filter packets
          Packets,          \* [inbound, source, port]
          Shapes,           \* rules of the callers, without id and enabled
          Blockable,        \* addresses for blockIP() and allowIP()
          AddressBits,      \* width of an address: 32
          AnySource,        \* a rule without a source
          GivenIds,         \* ids chosen by callers, numbers among them
          MaxRules, MaxRuleId, MaxPackets \* bounds

Verdicts == {"Allow", "Block", "Log"}

FirewallAssumption ==
  /\ AddressBits \in Nat \ {0} /\ MaxRules \in Nat /\ MaxPackets \in Nat /\ MaxRuleId \in Nat
  /\ \A s \in Shapes : s.priority \in Int /\ s.action \in Verdicts

VARIABLES
  rules,            \* RuleEngine::rules_, in order
  defaultAction,    \* RuleEngine::defaultAction_
  nextRuleId,       \* FirewallManager::nextRuleId_
  stats,            \* PacketFilter::stats_, total and by action
  deciding,         \* a packet between decision and statistics: its action
  decided           \* history: decisions since the statistics were reset,
                    \* those not yet counted then among them

firewallVars == <<rules, defaultAction, nextRuleId, stats, deciding, decided>>

NoStats  == [v \in Verdicts \cup {"Total"} |-> 0]

Init == /\ rules = <<>> /\ defaultAction = "Block" /\ nextRuleId = 1
        /\ stats = NoStats /\ deciding = [t \in Filtering |-> "None"] /\ decided = 0
-----------------------------------------------------------------------------
(* A prefix of 0, or out of range, counts as the whole address.            *)
MatchCIDR(address, net, prefix) ==
  LET rest == 2 ^ (AddressBits - (IF prefix \in 1..AddressBits THEN prefix ELSE AddressBits))
  IN address \div rest = net \div rest

(* A range comes before a single port; neither means any.                  *)
MatchPort(rule, port) ==
  IF rule.range # <<0, 0>> THEN port \in rule.range[1]..rule.range[2] ELSE rule.port \in {0, port}

MatchesRule(rule, p) ==
  /\ rule.inbound = p.inbound
  /\ rule.source = AnySource \/ MatchCIDR(p.source, rule.source, rule.prefix)
  /\ MatchPort(rule, p.port)

(* The first enabled rule of the list that matches decides.                *)
Deciding(p) == SelectInSeq(rules, LAMBDA r : r.enabled /\ MatchesRule(r, p))
EvaluatePacket(p) == IF Deciding(p) = 0 THEN defaultAction ELSE rules[Deciding(p)].action

Sorted(s) == \A i, j \in DOMAIN s : i < j => s[i].priority <= s[j].priority

AppendOnly(s) == {s}                           \* slip: not sorted
(* std::sort leaves the order of equal priorities open.                    *)
SortRules(s)  == {[i \in DOMAIN s |-> s[f[i]]] :
                    f \in {g \in [DOMAIN s -> DOMAIN s] :
                             IsInjective(g) /\ Sorted([i \in DOMAIN s |-> s[g[i]]])}}

Unused(id) == \A i \in DOMAIN rules : rules[i].id # id

Rule(id, shape) ==
  [id |-> id, enabled |-> TRUE, priority |-> shape.priority, action |-> shape.action,
   inbound |-> shape.inbound, source |-> shape.source, prefix |-> shape.prefix,
   range |-> shape.range, port |-> shape.port]

(* RuleEngine::addRule(): refused if the id is taken.                      *)
Enter(id, shape) ==
  \/ Unused(id) /\ Len(rules) < MaxRules
       /\ rules' \in SortRules(Append(rules, Rule(id, shape)))
  \/ ~Unused(id) /\ UNCHANGED rules

AddRule(id, shape) ==
  /\ Enter(id, shape)
  /\ UNCHANGED <<defaultAction, nextRuleId, stats, deciding, decided>>

(* Without an id, and for blockIP() and allowIP(), a number is used up.    *)
AddNumbered(shape) ==
  /\ nextRuleId <= MaxRuleId /\ nextRuleId' = nextRuleId + 1
  /\ Enter(nextRuleId, shape)
  /\ UNCHANGED <<defaultAction, stats, deciding, decided>>

ForAddress(ip, action) ==
  [priority |-> 0, action |-> action, inbound |-> TRUE, source |-> ip, prefix |-> 0,
   range |-> <<0, 0>>, port |-> 0]
BlockIP(ip) == AddNumbered(ForAddress(ip, "Block"))
AllowIP(ip) == AddNumbered(ForAddress(ip, "Allow"))

RemoveRule(i) ==
  /\ rules' = RemoveAt(rules, i)
  /\ UNCHANGED <<defaultAction, nextRuleId, stats, deciding, decided>>

(* enableRule() and disableRule()                                          *)
SetEnabled(i, on) ==
  /\ rules' = [rules EXCEPT ![i].enabled = on]
  /\ UNCHANGED <<defaultAction, nextRuleId, stats, deciding, decided>>

SetDefaultAction(action) ==
  /\ defaultAction' = action
  /\ UNCHANGED <<rules, nextRuleId, stats, deciding, decided>>

Decide(t, p) ==
  /\ deciding[t] = "None" /\ decided < MaxPackets
  /\ deciding' = [deciding EXCEPT ![t] = EvaluatePacket(p)]
  /\ decided' = decided + 1
  /\ UNCHANGED <<rules, defaultAction, nextRuleId, stats>>

Count(t) ==
  /\ deciding[t] # "None"
  /\ stats' = [stats EXCEPT !["Total"] = @ + 1, ![deciding[t]] = @ + 1]
  /\ deciding' = [deciding EXCEPT ![t] = "None"]
  /\ UNCHANGED <<rules, defaultAction, nextRuleId, decided>>

InFlight == {t \in Filtering : deciding[t] # "None"}

ResetStats ==
  /\ stats' = NoStats /\ decided' = Cardinality(InFlight)
  /\ UNCHANGED <<rules, defaultAction, nextRuleId, deciding>>

Next ==
  \/ \E shape \in Shapes : AddNumbered(shape) \/ \E id \in GivenIds : AddRule(id, shape)
  \/ \E ip \in Blockable : BlockIP(ip) \/ AllowIP(ip)
  \/ \E i \in DOMAIN rules : RemoveRule(i) \/ \E on \in BOOLEAN : SetEnabled(i, on)
  \/ \E action \in Verdicts : SetDefaultAction(action)
  \/ \E t \in Filtering : Count(t) \/ \E p \in Packets : Decide(t, p)
  \/ ResetStats

Spec == Init /\ [][Next]_firewallVars
-----------------------------------------------------------------------------
FirewallTypeOK ==
  /\ \A i \in DOMAIN rules : rules[i].id \in GivenIds \cup 1..MaxRuleId
                             /\ rules[i].action \in Verdicts /\ rules[i].enabled \in BOOLEAN
  /\ defaultAction \in Verdicts /\ nextRuleId \in 1..MaxRuleId + 1
  /\ DOMAIN stats = Verdicts \cup {"Total"}
  /\ deciding \in [Filtering -> Verdicts \cup {"None"}] /\ decided \in Nat

(* However rules are added under given or numbered ids, removed, enabled   *)
(* and disabled, a packet gets the action of a matching enabled rule that  *)
(* no other such rule has precedence over, and the default exactly when    *)
(* there is none; a rule is entered under an id once.  The statistics of   *)
(* the actions add up to the packets that were decided on, with those in   *)
(* flight when they were reset.                                            *)
DecidedByPriority ==
  /\ \A i, j \in DOMAIN rules : rules[i].id = rules[j].id => i = j
  /\ \A p \in Packets :
       LET matching == {r \in ToSet(rules) : r.enabled /\ MatchesRule(r, p)}
       IN IF matching = {} THEN EvaluatePacket(p) = defaultAction
          ELSE \E r \in matching : /\ r.action = EvaluatePacket(p)
                                   /\ \A q \in matching : r.priority <= q.priority
  /\ stats["Total"] = stats["Allow"] + stats["Block"] + stats["Log"]
  /\ stats["Total"] + Cardinality(InFlight) = decided
=============================================================================

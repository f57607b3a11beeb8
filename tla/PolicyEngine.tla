---------------------------- MODULE PolicyEngine ----------------------------
(***************************************************************************)
(* Fleet::PolicyEngine: versioned security policies, their distribution to *)
(* groups, and what endpoints report about compliance.  Every operation is *)
(* one section of mutex_.                                                  *)
(***************************************************************************)
EXTENDS Integers, Sequences, SequencesExt, Functions

CONSTANTS PolicyIds, Contents, Endpoints,
          GroupSets,        \* the targetGroups that callers name
          MaxHistory        \* bound: versions recorded of one policy

VARIABLES
  policies,         \* policies_: version, content and targetGroups
  policyHistory,    \* policyHistory_: snapshots, kept after a deletion
  complianceState,  \* complianceState_: what an endpoint reported, if it did
  sinceCreate       \* history: updates since the policy was last created

policyVars == <<policies, policyHistory, complianceState, sinceCreate>>

Existing == DOMAIN policies
Put(p, record) == [x \in Existing \cup {p} |-> IF x = p THEN record ELSE policies[x]]

Init == /\ policies = [p \in {} |-> 0]
        /\ policyHistory = [p \in PolicyIds |-> <<>>]
        /\ complianceState = [e \in Endpoints |-> [p \in {} |-> TRUE]]
        /\ sinceCreate = [p \in PolicyIds |-> 0]

(* createPolicy(): also over a policy of the same id, whose history the    *)
(* new one continues with version 1.                                       *)
CreatePolicy(p, content, targets) ==
  /\ Len(policyHistory[p]) < MaxHistory
  /\ LET record == [version |-> 1, content |-> content, targets |-> targets]
     IN /\ policies' = Put(p, record)
        /\ policyHistory' = [policyHistory EXCEPT ![p] = Append(@, record)]
  /\ sinceCreate' = [sinceCreate EXCEPT ![p] = 0]
  /\ UNCHANGED complianceState

UpdateByHistory(p, content, targets) ==  \* slip: numbered by the history's length
  /\ p \in Existing /\ Len(policyHistory[p]) < MaxHistory
  /\ LET record == [version |-> Len(policyHistory[p]) + 1, content |-> content,
                    targets |-> targets]
     IN /\ policies' = Put(p, record)
        /\ policyHistory' = [policyHistory EXCEPT ![p] = Append(@, record)]
  /\ sinceCreate' = [sinceCreate EXCEPT ![p] = @ + 1]
  /\ UNCHANGED complianceState

UpdatePolicy(p, content, targets) ==
  /\ p \in Existing /\ Len(policyHistory[p]) < MaxHistory
  /\ LET record == [version |-> policies[p].version + 1, content |-> content,
                    targets |-> targets]
     IN /\ policies' = Put(p, record)
        /\ policyHistory' = [policyHistory EXCEPT ![p] = Append(@, record)]
  /\ sinceCreate' = [sinceCreate EXCEPT ![p] = @ + 1]
  /\ UNCHANGED complianceState

DeletePolicy(p) ==
  /\ p \in Existing
  /\ policies' = Restrict(policies, Existing \ {p})
  /\ UNCHANGED <<policyHistory, complianceState, sinceCreate>>

(* distributePolicy(): a change of the policy that makes no version.       *)
DistributePolicy(p, targets) ==
  /\ p \in Existing
  /\ policies' = [policies EXCEPT ![p].targets = targets]
  /\ UNCHANGED <<policyHistory, complianceState, sinceCreate>>

(* setEndpointCompliance(): an endpoint's last report on a policy, whether *)
(* there is such a policy or not; no update or deletion takes it back.     *)
SetEndpointCompliance(e, p, compliant) ==
  /\ complianceState' = [complianceState EXCEPT ![e] =
       [x \in DOMAIN @ \cup {p} |-> IF x = p THEN compliant ELSE @[x]]]
  /\ UNCHANGED <<policies, policyHistory, sinceCreate>>

Next ==
  \E p \in PolicyIds :
    \/ \E c \in Contents, t \in GroupSets : CreatePolicy(p, c, t) \/ UpdatePolicy(p, c, t)
    \/ DeletePolicy(p)
    \/ \E t \in GroupSets : DistributePolicy(p, t)
    \/ \E e \in Endpoints, b \in BOOLEAN : SetEndpointCompliance(e, p, b)

Spec == Init /\ [][Next]_policyVars
-----------------------------------------------------------------------------
PolicyTypeOK ==
  LET Record == [version : Nat \ {0}, content : Contents, targets : GroupSets]
  IN /\ Existing \subseteq PolicyIds /\ \A p \in Existing : policies[p] \in Record
     /\ policyHistory \in [PolicyIds -> Seq(Record)]
     /\ \A e \in Endpoints : DOMAIN complianceState[e] \subseteq PolicyIds

(* The history tells every policy: its last entry is the policy but for    *)
(* its distribution, and the entries since it was last created are its     *)
(* versions 1, 2, ... without a gap, whatever was deleted and created      *)
(* under its id before.                                                    *)
HistoryTellsPolicy ==
  \A p \in Existing :
    LET h == policyHistory[p]
        v == policies[p].version
    IN /\ h # <<>> /\ Last(h).content = policies[p].content
       /\ v = sinceCreate[p] + 1
       /\ \A i \in 1..v : h[Len(h) - v + i].version = i
=============================================================================

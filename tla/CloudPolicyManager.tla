------------------------- MODULE CloudPolicyManager -------------------------
(***************************************************************************)
(* Cloud::CloudPolicyManager: a policy that is distributed, acknowledged   *)
(* by endpoints and revised.  Policies share no state and ids are not used *)
(* again: one policy is modelled, and after its removal the next one.      *)
(* Every operation is one section of mutex_.                               *)
(***************************************************************************)
EXTENDS Integers, Sequences

CONSTANTS CloudEndpoints,
          FirstVersions,    \* what a caller may number the first version
          NoPolicy,         \* no policy is distributed
          MaxPolicyVersions \* bound: versions of a policy

CloudPolicyAssumption == FirstVersions \subseteq Int /\ NoPolicy \notin Int

VARIABLES
  distributed,      \* policies_: the version of the policy, or NoPolicy
  policyVersions,   \* policyVersions_: [version, active]
  acknowledgedBy,   \* without repetitions, as acknowledgePolicy() keeps it
  misled            \* history: did the last activation name a version that
                    \* does not exist?

cloudPolicyVars == <<distributed, policyVersions, acknowledgedBy, misled>>

Init == distributed = NoPolicy /\ policyVersions = <<>> /\ acknowledgedBy = {} /\ misled = FALSE
-----------------------------------------------------------------------------
DistributePolicy(v) ==
  /\ distributed = NoPolicy
  /\ distributed' = v
  /\ policyVersions' = <<[version |-> v, active |-> TRUE]>>
  /\ UNCHANGED <<acknowledgedBy, misled>>

(* Of whichever version is active, and for all that follow.                *)
AcknowledgePolicy(e) ==
  /\ distributed # NoPolicy
  /\ acknowledgedBy' = acknowledgedBy \cup {e}
  /\ UNCHANGED <<distributed, policyVersions, misled>>

CreatePolicyVersion ==
  /\ distributed # NoPolicy /\ Len(policyVersions) < MaxPolicyVersions
  /\ policyVersions' = Append(policyVersions,
       [version |-> policyVersions[Len(policyVersions)].version + 1, active |-> FALSE])
  /\ UNCHANGED <<distributed, acknowledgedBy, misled>>

Known(v) == \E i \in DOMAIN policyVersions : policyVersions[i].version = v

AlsoMarked(v) == [i \in DOMAIN policyVersions |->     \* slip: the old mark stays
  [policyVersions[i] EXCEPT !.active = (@ \/ policyVersions[i].version = v)]]
(* The marks are set anew even if no version is v.                         *)
Marked(v) == [i \in DOMAIN policyVersions |->
  [policyVersions[i] EXCEPT !.active = (policyVersions[i].version = v)]]

ActivatePolicyVersion(v) ==
  /\ distributed # NoPolicy
  /\ policyVersions' = Marked(v)
  /\ distributed' = IF Known(v) THEN v ELSE distributed
  /\ misled' = ~Known(v)
  /\ UNCHANGED acknowledgedBy

RemovePolicy ==
  /\ distributed # NoPolicy
  /\ distributed' = NoPolicy /\ policyVersions' = <<>> /\ acknowledgedBy' = {} /\ misled' = FALSE

(* A caller may ask for any version, one beyond the last among them.       *)
Next == \/ \E v \in FirstVersions : DistributePolicy(v)
        \/ \E e \in CloudEndpoints : AcknowledgePolicy(e)
        \/ CreatePolicyVersion
        \/ \E f \in FirstVersions, k \in 0..MaxPolicyVersions : ActivatePolicyVersion(f + k)
        \/ RemovePolicy

Spec == Init /\ [][Next]_cloudPolicyVars
-----------------------------------------------------------------------------
CloudPolicyTypeOK ==
  /\ distributed \in Int \cup {NoPolicy}
  /\ policyVersions \in Seq([version : Int, active : BOOLEAN])
  /\ acknowledgedBy \subseteq CloudEndpoints /\ misled \in BOOLEAN

(* The versions of a policy are numbered one after the other, and the one  *)
(* that is marked as active is the one the policy says it has.  There is   *)
(* none (getActivePolicyVersion() answers 0) exactly after an activation   *)
(* of a version that does not exist, which is refused only after the mark  *)
(* was taken from the active one.                                          *)
ActiveIsDistributed ==
  /\ \A i \in DOMAIN policyVersions :
       /\ i > 1 => policyVersions[i].version = policyVersions[i - 1].version + 1
       /\ policyVersions[i].active <=> policyVersions[i].version = distributed /\ ~misled
  /\ distributed # NoPolicy => Known(distributed)
=============================================================================

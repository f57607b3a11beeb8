---------------------------- MODULE FleetProofs ----------------------------
(***************************************************************************)
(* Theorems about Fleet, for every set of endpoints, policies, contents    *)
(* and groups, and every bound.                                            *)
(***************************************************************************)
EXTENDS Fleet, SequenceTheorems, FiniteSetTheorems, WellFoundedInduction, TLAPS

-----------------------------------------------------------------------------
(* The registry.                                                           *)

EndpointRecords(n) == [group : 1..(n - 1) \cup {NoGroup}, age : 0..MaxAge,
                       status : {"Online", "Offline", "Degraded"}]

RegistryTypes ==
  /\ DOMAIN endpoints \subseteq Endpoints /\ reregistered \subseteq Endpoints
  /\ nextGroup \in Nat \ {0} /\ heartbeatTimeout \in Timeouts
  /\ DOMAIN groups \subseteq 1..(nextGroup - 1)
  /\ \A g \in DOMAIN groups : groups[g] \subseteq Endpoints
  /\ \A e \in DOMAIN endpoints : endpoints[e] \in EndpointRecords(nextGroup)

(* An endpoint's group lists it.                                           *)
Listed == \A e \in DOMAIN endpoints : endpoints[e].group # NoGroup =>
            endpoints[e].group \in DOMAIN groups /\ e \in groups[endpoints[e].group]

(* A group lists its endpoints only, and those that registered again.      *)
ListsTrue == \A g \in DOMAIN groups : \A e \in groups[g] \ reregistered :
               e \in DOMAIN endpoints /\ endpoints[e].group = g

RegistryInv == RegistryTypes /\ Listed /\ ListsTrue

LEMMA RegistryInit == ASSUME Init PROVE RegistryInv
<1>1. DOMAIN endpoints = {} /\ DOMAIN groups = {}
  BY DEF Init, Registry!Init
<1>2. nextGroup = 1 /\ reregistered = {} /\ heartbeatTimeout \in Timeouts
  BY DEF Init, Registry!Init
<1> QED
  BY <1>1, <1>2 DEF RegistryInv, RegistryTypes, Listed, ListsTrue

LEMMA RegistryStep == ASSUME RegistryInv, Registry!Next PROVE RegistryInv'
<1> USE DEF Registry!Registered, Registry!GroupOf
<1>0. NoGroup \notin Nat /\ MaxAge \in Nat
  BY FleetConstants DEF Registry!FleetAssumption
<1>1. RegistryTypes /\ Listed /\ ListsTrue
  BY DEF RegistryInv
<1>2. ASSUME NEW e \in Endpoints, Registry!RegisterEndpoint(e) PROVE RegistryInv'
  <2>1. RegistryTypes'
    BY <1>0, <1>1, <1>2 DEF RegistryTypes, EndpointRecords, Registry!RegisterEndpoint
  <2>2. Listed'
    BY <1>1, <1>2 DEF RegistryTypes, Listed, Registry!RegisterEndpoint
  <2>3. ListsTrue'
    BY <1>1, <1>2 DEF RegistryTypes, Listed, ListsTrue, Registry!RegisterEndpoint
  <2> QED BY <2>1, <2>2, <2>3 DEF RegistryInv
<1>3. ASSUME NEW e \in Endpoints, Registry!DeregisterEndpoint(e) PROVE RegistryInv'
  <2> DEFINE out == IF endpoints[e].group \in DOMAIN groups
                      THEN [groups EXCEPT ![endpoints[e].group] = @ \ {e}] ELSE groups
  <2>0. /\ e \in DOMAIN endpoints /\ groups' = out
        /\ endpoints' = [x \in DOMAIN endpoints \ {e} |-> endpoints[x]]
        /\ UNCHANGED <<nextGroup, heartbeatTimeout, reregistered>>
    BY <1>1, <1>3 DEF Registry!DeregisterEndpoint, Registry!Without, Registry!Restrict
  <2>1. RegistryTypes'
    BY <1>1, <2>0 DEF RegistryTypes, EndpointRecords
  <2>2. Listed'
    BY <1>1, <2>0 DEF RegistryTypes, Listed
  <2>3. ListsTrue'
    BY <1>1, <2>0 DEF RegistryTypes, Listed, ListsTrue
  <2> QED BY <2>1, <2>2, <2>3 DEF RegistryInv
<1>4. ASSUME NEW e \in Endpoints, NEW age \in 0..MaxAge, NEW high \in BOOLEAN,
             Registry!ProcessHeartbeat(e, age, high)
      PROVE  RegistryInv'
  <2>1. RegistryTypes'
    BY <1>1, <1>4 DEF RegistryTypes, EndpointRecords, Registry!ProcessHeartbeat
  <2>2. /\ DOMAIN endpoints' = DOMAIN endpoints
        /\ \A x \in DOMAIN endpoints : endpoints'[x].group = endpoints[x].group
    BY <1>1, <1>4 DEF RegistryTypes, EndpointRecords, Registry!ProcessHeartbeat
  <2>3. Listed' /\ ListsTrue'
    BY <1>1, <1>4, <2>2 DEF Listed, ListsTrue, Registry!ProcessHeartbeat
  <2> QED BY <2>1, <2>3 DEF RegistryInv
<1>5. ASSUME Registry!CreateGroup PROVE RegistryInv'
  <2>1. RegistryTypes'
    BY <1>1, <1>5 DEF RegistryTypes, EndpointRecords, Registry!CreateGroup
  <2>2. Listed'
    BY <1>1, <1>5 DEF RegistryTypes, Listed, Registry!CreateGroup
  <2>3. ListsTrue'
    BY <1>1, <1>5 DEF RegistryTypes, ListsTrue, Registry!CreateGroup
  <2> QED BY <2>1, <2>2, <2>3 DEF RegistryInv
<1>6. ASSUME NEW g \in DOMAIN groups, Registry!DeleteGroup(g) PROVE RegistryInv'
  <2>0. /\ groups' = [h \in DOMAIN groups \ {g} |-> groups[h]]
        /\ endpoints' = [e \in DOMAIN endpoints |-> IF e \in groups[g]
                          THEN [endpoints[e] EXCEPT !.group = NoGroup] ELSE endpoints[e]]
        /\ UNCHANGED <<nextGroup, heartbeatTimeout, reregistered>>
    BY <1>1, <1>6 DEF Registry!DeleteGroup, Registry!Restrict
  <2>1. RegistryTypes'
    BY <1>1, <2>0 DEF RegistryTypes, EndpointRecords
  <2>2. \A e \in DOMAIN endpoints : endpoints'[e].group =
          IF e \in groups[g] THEN NoGroup ELSE endpoints[e].group
    BY <1>1, <2>0 DEF RegistryTypes, EndpointRecords
  <2>3. Listed'
    BY <1>1, <2>0, <2>2 DEF Listed
  <2>4. ListsTrue'
    BY <1>1, <2>0, <2>2 DEF ListsTrue
  <2> QED BY <2>1, <2>3, <2>4 DEF RegistryInv
<1>7. ASSUME NEW e \in Endpoints, NEW g \in DOMAIN groups, Registry!AddToGroup(e, g)
      PROVE  RegistryInv'
  <2> DEFINE out == IF endpoints[e].group \in DOMAIN groups
                      THEN [groups EXCEPT ![endpoints[e].group] = @ \ {e}] ELSE groups
  <2>0. /\ e \in DOMAIN endpoints /\ groups' = [out EXCEPT ![g] = @ \cup {e}]
        /\ endpoints' = [endpoints EXCEPT ![e].group = g]
        /\ UNCHANGED <<nextGroup, heartbeatTimeout, reregistered>>
    BY <1>1, <1>7 DEF Registry!AddToGroup, Registry!Without
  <2>1. RegistryTypes'
    BY <1>1, <2>0 DEF RegistryTypes, EndpointRecords
  <2>2. /\ DOMAIN endpoints' = DOMAIN endpoints
        /\ \A x \in DOMAIN endpoints : endpoints'[x].group =
              IF x = e THEN g ELSE endpoints[x].group
    BY <1>1, <2>0 DEF RegistryTypes, EndpointRecords
  <2>3. Listed'
    BY <1>1, <2>0, <2>2 DEF Listed
  <2>4. ListsTrue'
    BY <1>1, <2>0, <2>2 DEF Listed, ListsTrue
  <2> QED BY <2>1, <2>3, <2>4 DEF RegistryInv
<1>8. ASSUME NEW e \in Endpoints, NEW g \in DOMAIN groups, Registry!RemoveFromGroup(e, g)
      PROVE  RegistryInv'
  <2>0. /\ e \in DOMAIN endpoints /\ endpoints[e].group = g
        /\ groups' = [groups EXCEPT ![g] = @ \ {e}]
        /\ endpoints' = [endpoints EXCEPT ![e].group = NoGroup]
        /\ UNCHANGED <<nextGroup, heartbeatTimeout, reregistered>>
    BY <1>1, <1>8 DEF Registry!RemoveFromGroup, Registry!Without
  <2>1. RegistryTypes'
    BY <1>1, <2>0 DEF RegistryTypes, EndpointRecords
  <2>2. /\ DOMAIN endpoints' = DOMAIN endpoints
        /\ \A x \in DOMAIN endpoints : endpoints'[x].group =
              IF x = e THEN NoGroup ELSE endpoints[x].group
    BY <1>1, <2>0 DEF RegistryTypes, EndpointRecords
  <2>3. Listed' /\ ListsTrue'
    BY <1>1, <2>0, <2>2 DEF Listed, ListsTrue
  <2> QED BY <2>1, <2>3 DEF RegistryInv
<1>9. ASSUME Registry!CheckHeartbeatTimeouts \/ Registry!TimePasses PROVE RegistryInv'
  <2>1. RegistryTypes'
    <3>1. CASE Registry!CheckHeartbeatTimeouts
      BY <1>0, <1>1, <3>1 DEF RegistryTypes, EndpointRecords, Registry!CheckHeartbeatTimeouts
    <3>2. CASE Registry!TimePasses
      BY <1>0, <1>1, <3>2 DEF RegistryTypes, EndpointRecords, Registry!TimePasses
    <3> QED BY <1>9, <3>1, <3>2
  <2>2. /\ DOMAIN endpoints' = DOMAIN endpoints /\ UNCHANGED <<groups, reregistered>>
        /\ \A x \in DOMAIN endpoints : endpoints'[x].group = endpoints[x].group
    BY <1>1, <1>9 DEF RegistryTypes, EndpointRecords, Registry!CheckHeartbeatTimeouts,
       Registry!TimePasses
  <2>3. Listed' /\ ListsTrue'
    BY <1>1, <2>2 DEF Listed, ListsTrue
  <2> QED BY <2>1, <2>3 DEF RegistryInv
<1>10. ASSUME NEW t \in Timeouts, Registry!SetHeartbeatTimeout(t) PROVE RegistryInv'
  BY <1>1, <1>10 DEF RegistryInv, RegistryTypes, Listed, ListsTrue, Registry!SetHeartbeatTimeout
<1> QED
  BY <1>2, <1>3, <1>4, <1>5, <1>6, <1>7, <1>8, <1>9, <1>10 DEF Registry!Next

(* An endpoint's group and the groups' lists agree, for any number of      *)
(* endpoints and groups (FleetManager::addToGroup, deleteGroup, ...).      *)
THEOREM MembershipAgreesHolds == Spec => []MembershipAgrees
<1>1. Init => RegistryInv
  BY RegistryInit
<1>2. RegistryInv /\ [Next]_fleet => RegistryInv'
  <2> SUFFICES ASSUME RegistryInv, [Next]_fleet PROVE RegistryInv'
    OBVIOUS
  <2>1. CASE Registry!Next
    BY <2>1, RegistryStep
  <2>2. CASE UNCHANGED registryVars
    BY <2>2 DEF registryVars, RegistryInv, RegistryTypes, Listed, ListsTrue
  <2> QED
    BY <2>1, <2>2 DEF Next, fleet
<1>3. RegistryInv => MembershipAgrees
  BY FleetConstants DEF RegistryInv, RegistryTypes, Listed, ListsTrue, EndpointRecords,
     MembershipAgrees, Registry!MembershipAgrees, Registry!Registered, Registry!GroupOf
<1> QED
  BY <1>1, <1>2, <1>3, PTL DEF Spec

-----------------------------------------------------------------------------
(* The commands.                                                           *)

CommandRecords == [endpoint : Endpoints, success : BOOLEAN,
                   status : Remote!Ended \cup {"Queued"}]

CommandTypes == commands \in Seq(CommandRecords)

LEMMA CommandStep == ASSUME CommandTypes, Remote!Next PROVE CommandTypes'
<1>0. Len(commands) \in Nat /\ commands \in [1..Len(commands) -> CommandRecords]
  BY DEF CommandTypes
<1> USE DEF CommandTypes, CommandRecords, Remote!Ended
<1>1. ASSUME NEW e \in Endpoints, Remote!ExecuteCommand(e) PROVE CommandTypes'
  BY <1>1 DEF Remote!ExecuteCommand
<1>2. ASSUME NEW e \in Endpoints, Remote!GetCommandQueue(e) PROVE CommandTypes'
  BY <1>2 DEF Remote!GetCommandQueue
<1>3. ASSUME NEW e \in Endpoints, NEW c \in fetched[e], NEW success \in BOOLEAN,
             Remote!CompleteCommand(e, c, success)
      PROVE  CommandTypes'
  <2>1. commands' \in [1..Len(commands) -> CommandRecords]
    BY <1>0, <1>3 DEF Remote!CompleteCommand
  <2> QED BY <1>0, <2>1
<1>4. ASSUME NEW c \in DOMAIN commands, Remote!CancelCommand(c) PROVE CommandTypes'
  <2>1. commands' \in [1..Len(commands) -> CommandRecords]
    BY <1>0, <1>4 DEF Remote!CancelCommand
  <2> QED BY <1>0, <2>1
<1> QED
  BY <1>1, <1>2, <1>3, <1>4 DEF Remote!Next

EndedStay == \A c \in DOMAIN commands : commands[c].status \in Remote!Ended =>
               /\ commands'[c] = commands[c]
               /\ \A e \in Endpoints : c \notin Remote!PendingFor(e)'

LEMMA EndedStayStep == ASSUME CommandTypes, Remote!Next PROVE EndedStay
<1> SUFFICES ASSUME NEW c \in DOMAIN commands, commands[c].status \in Remote!Ended
             PROVE  commands'[c] = commands[c]
  BY DEF EndedStay, Remote!PendingFor, Remote!Ended
<1> USE DEF CommandTypes, CommandRecords, Remote!Ended
<1>1. ASSUME NEW e \in Endpoints, Remote!ExecuteCommand(e) PROVE commands'[c] = commands[c]
  BY <1>1 DEF Remote!ExecuteCommand
<1>2. ASSUME NEW e \in Endpoints, Remote!GetCommandQueue(e) PROVE commands'[c] = commands[c]
  BY <1>2 DEF Remote!GetCommandQueue
<1>3. ASSUME NEW e \in Endpoints, NEW d \in fetched[e], NEW success \in BOOLEAN,
             Remote!CompleteCommand(e, d, success)
      PROVE  commands'[c] = commands[c]
  BY <1>3 DEF Remote!CompleteCommand
<1>4. ASSUME NEW d \in DOMAIN commands, Remote!CancelCommand(d) PROVE commands'[c] = commands[c]
  BY <1>4 DEF Remote!CancelCommand
<1> QED
  BY <1>1, <1>2, <1>3, <1>4 DEF Remote!Next

(* What has ended stays as it ended, whatever agents report late, for any  *)
(* number of endpoints and commands (RemoteManager::completeCommand).      *)
THEOREM CommandsEndOnceHolds == Spec => CommandsEndOnce
<1>1. Init => CommandTypes
  BY DEF Init, Remote!Init, CommandTypes
<1>2. CommandTypes /\ [Next]_fleet => CommandTypes'
  BY CommandStep DEF Next, fleet, remoteVars, CommandTypes, CommandRecords
<1>3. CommandTypes /\ [Next]_fleet => [EndedStay]_<<commands, commandQueue, fetched>>
  BY EndedStayStep DEF Next, fleet, remoteVars
<1> QED
  BY <1>1, <1>2, <1>3, PTL DEF Spec, CommandsEndOnce, Remote!CommandsEndOnce, EndedStay,
     Remote!remoteVars

-----------------------------------------------------------------------------
(* The policies.                                                           *)

PolicyRecords == [version : Nat \ {0}, content : Contents, targets : GroupSets]

PolicyTypes ==
  /\ DOMAIN policies \subseteq PolicyIds
  /\ \A p \in DOMAIN policies : policies[p] \in PolicyRecords
  /\ policyHistory \in [PolicyIds -> Seq(PolicyRecords)]
  /\ sinceCreate \in [PolicyIds -> Nat]

(* HistoryTellsPolicy for one policy, and that its versions are all there. *)
Told(p) ==
  LET h == policyHistory[p] v == policies[p].version
  IN /\ v \in 1..Len(h) /\ v = sinceCreate[p] + 1
     /\ h[Len(h)].content = policies[p].content
     /\ \A i \in 1..v : h[Len(h) - v + i].version = i

PolicyInv == PolicyTypes /\ \A p \in DOMAIN policies : Told(p)

(* Nothing about p changes but perhaps its targets.                        *)
Kept(p) == /\ p \in DOMAIN policies /\ p \in DOMAIN policies'
           /\ policies'[p].version = policies[p].version
           /\ policies'[p].content = policies[p].content
           /\ policyHistory'[p] = policyHistory[p] /\ sinceCreate'[p] = sinceCreate[p]

LEMMA KeptTold == ASSUME NEW p, Told(p), Kept(p) PROVE Told(p)'
BY DEF Told, Kept

(* A recorded version: the next one, or 1 after a creation.                *)
LEMMA RecordTold ==
  ASSUME NEW h \in Seq(PolicyRecords), NEW r \in PolicyRecords, r.version - 1 <= Len(h),
         \A i \in 1..(r.version - 1) : h[Len(h) - (r.version - 1) + i].version = i
  PROVE  LET g == Append(h, r) IN
         /\ g \in Seq(PolicyRecords) /\ r.version \in 1..Len(g) /\ g[Len(g)] = r
         /\ \A i \in 1..r.version : g[Len(g) - r.version + i].version = i
<1> DEFINE g == Append(h, r)
           v == r.version
<1>1. v \in Nat \ {0} /\ Len(h) \in Nat /\ v - 1 <= Len(h)
  BY DEF PolicyRecords
<1>2. /\ g \in Seq(PolicyRecords) /\ Len(g) = Len(h) + 1 /\ g[Len(h) + 1] = r
      /\ \A j \in 1..Len(h) : g[j] = h[j]
  OBVIOUS
<1>4. \A i \in 1..(v - 1) : h[Len(h) - (v - 1) + i].version = i
  OBVIOUS
<1>5. r.version = v
  OBVIOUS
<1> HIDE DEF g, v
<1>3. ASSUME NEW i \in 1..v PROVE g[Len(g) - v + i].version = i
  <2>1. CASE i = v
    <3>1. Len(g) - v + i = Len(h) + 1
      BY <1>1, <1>2, <2>1
    <3> QED BY <1>2, <1>5, <2>1, <3>1
  <2>2. CASE i # v
    <3>1. i \in 1..(v - 1) /\ Len(h) - (v - 1) + i \in 1..Len(h)
      BY <1>1, <2>2
    <3>2. Len(g) - v + i = Len(h) - (v - 1) + i
      BY <1>1, <1>2
    <3> QED BY <1>2, <1>4, <3>1, <3>2
  <2> QED BY <2>1, <2>2
<1> QED
  BY <1>1, <1>2, <1>3 DEF g, v

LEMMA PolicyStep == ASSUME PolicyInv, Policy!Next PROVE PolicyInv'
<1> USE DEF Policy!Existing
<1>0. PolicyTypes /\ \A p \in DOMAIN policies : Told(p)
  BY DEF PolicyInv
<1>1. ASSUME NEW p \in PolicyIds, NEW r \in PolicyRecords,
             policies' = Policy!Put(p, r),
             policyHistory' = [policyHistory EXCEPT ![p] = Append(@, r)],
             sinceCreate' = [sinceCreate EXCEPT ![p] = r.version - 1],
             r.version - 1 <= Len(policyHistory[p]),
             LET h == policyHistory[p] IN
             \A i \in 1..(r.version - 1) : h[Len(h) - (r.version - 1) + i].version = i
      PROVE  PolicyInv'
  <2>1. policyHistory[p] \in Seq(PolicyRecords) /\ r.version \in Nat \ {0}
    BY <1>0 DEF PolicyTypes, PolicyRecords
  <2> DEFINE g == Append(policyHistory[p], r)
  <2>2. /\ g \in Seq(PolicyRecords) /\ r.version \in 1..Len(g) /\ g[Len(g)] = r
        /\ \A i \in 1..r.version : g[Len(g) - r.version + i].version = i
    BY <1>1, <2>1, RecordTold
  <2>3. policyHistory'[p] = g /\ policies'[p] = r /\ sinceCreate'[p] = r.version - 1
    BY <1>0, <1>1 DEF PolicyTypes, Policy!Put
  <2>4. Told(p)'
    BY <2>1, <2>2, <2>3 DEF Told
  <2>5. ASSUME NEW q \in DOMAIN policies', q # p PROVE Told(q)'
    <3>1. Kept(q)
      BY <1>0, <1>1, <2>5 DEF PolicyTypes, Policy!Put, Kept
    <3> QED BY <1>0, <3>1, KeptTold DEF Kept
  <2>6. PolicyTypes'
    <3>1. /\ DOMAIN policies' = DOMAIN policies \cup {p}
          /\ \A q \in DOMAIN policies' : policies'[q] = IF q = p THEN r ELSE policies[q]
      BY <1>1 DEF Policy!Put
    <3>2. policyHistory' \in [PolicyIds -> Seq(PolicyRecords)]
      BY <1>0, <1>1, <2>2 DEF PolicyTypes
    <3>3. sinceCreate' \in [PolicyIds -> Nat]
      BY <1>0, <1>1, <2>1 DEF PolicyTypes
    <3> QED BY <1>0, <3>1, <3>2, <3>3 DEF PolicyTypes
  <2> QED BY <2>4, <2>5, <2>6 DEF PolicyInv
<1>2. ASSUME NEW p \in PolicyIds, NEW content \in Contents, NEW targets \in GroupSets,
             Policy!CreatePolicy(p, content, targets)
      PROVE  PolicyInv'
  <2> DEFINE r == [version |-> 1, content |-> content, targets |-> targets]
  <2>1. r \in PolicyRecords /\ r.version = 1
    BY DEF PolicyRecords
  <2>2. /\ policies' = Policy!Put(p, r)
        /\ policyHistory' = [policyHistory EXCEPT ![p] = Append(@, r)]
        /\ sinceCreate' = [sinceCreate EXCEPT ![p] = 0]
    BY <1>2 DEF Policy!CreatePolicy
  <2>3. Len(policyHistory[p]) \in Nat
    BY <1>0 DEF PolicyTypes
  <2> HIDE DEF r
  <2>4. /\ sinceCreate' = [sinceCreate EXCEPT ![p] = r.version - 1]
        /\ r.version - 1 <= Len(policyHistory[p])
        /\ \A i \in 1..(r.version - 1) : FALSE
    BY <2>1, <2>2, <2>3
  <2> QED BY <1>1, <2>1, <2>2, <2>4
<1>3. ASSUME NEW p \in PolicyIds, NEW content \in Contents, NEW targets \in GroupSets,
             Policy!UpdatePolicy(p, content, targets)
      PROVE  PolicyInv'
  <2> DEFINE r == [version |-> policies[p].version + 1, content |-> content,
                   targets |-> targets]
  <2>1. p \in DOMAIN policies /\ Told(p) /\ policies[p].version \in Nat \ {0}
    BY <1>0, <1>3 DEF Policy!UpdatePolicy, PolicyTypes, PolicyRecords
  <2>2. r \in PolicyRecords /\ r.version - 1 = policies[p].version
    BY <2>1 DEF PolicyRecords
  <2>3. /\ policies' = Policy!Put(p, r)
        /\ policyHistory' = [policyHistory EXCEPT ![p] = Append(@, r)]
        /\ sinceCreate' = [sinceCreate EXCEPT ![p] = @ + 1]
    BY <1>3 DEF Policy!UpdatePolicy
  <2> HIDE DEF r
  <2>4. sinceCreate' = [sinceCreate EXCEPT ![p] = r.version - 1]
    BY <1>0, <2>1, <2>2, <2>3 DEF Told, PolicyTypes
  <2>5. Len(policyHistory[p]) \in Nat
    BY <1>0 DEF PolicyTypes
  <2>6. /\ r.version - 1 <= Len(policyHistory[p])
        /\ LET h == policyHistory[p] IN
           \A i \in 1..(r.version - 1) : h[Len(h) - (r.version - 1) + i].version = i
    BY <2>1, <2>2, <2>5 DEF Told
  <2> QED BY <1>1, <2>2, <2>3, <2>4, <2>6
<1>4. ASSUME NEW p \in PolicyIds, Policy!DeletePolicy(p) PROVE PolicyInv'
  <2>1. /\ policies' = [q \in DOMAIN policies \ {p} |-> policies[q]]
        /\ UNCHANGED <<policyHistory, sinceCreate>>
    BY <1>4 DEF Policy!DeletePolicy, Policy!Restrict
  <2>2. \A q \in DOMAIN policies' : Kept(q)
    BY <2>1 DEF Kept
  <2> QED BY <1>0, <2>1, <2>2, KeptTold DEF PolicyInv, PolicyTypes
<1>5. ASSUME NEW p \in PolicyIds, NEW targets \in GroupSets,
             Policy!DistributePolicy(p, targets)
      PROVE  PolicyInv'
  <2>1. /\ policies' = [policies EXCEPT ![p].targets = targets]
        /\ UNCHANGED <<policyHistory, sinceCreate>>
    BY <1>5 DEF Policy!DistributePolicy
  <2>2. \A q \in DOMAIN policies' : Kept(q) /\ policies'[q] \in PolicyRecords
    BY <1>0, <2>1 DEF Kept, PolicyTypes, PolicyRecords
  <2> QED BY <1>0, <2>1, <2>2, KeptTold DEF PolicyInv, PolicyTypes
<1>6. ASSUME NEW e \in Endpoints, NEW p \in PolicyIds, NEW b \in BOOLEAN,
             Policy!SetEndpointCompliance(e, p, b)
      PROVE  PolicyInv'
  BY <1>0, <1>6 DEF Policy!SetEndpointCompliance, PolicyInv, PolicyTypes, Told
<1> QED
  BY <1>2, <1>3, <1>4, <1>5, <1>6 DEF Policy!Next

(* The history tells every policy, for any number of policies, updates,    *)
(* deletions and creations anew (PolicyEngine::createPolicy,               *)
(* updatePolicy).                                                          *)
THEOREM HistoryTellsPolicyHolds == Spec => []HistoryTellsPolicy
<1>1. Init => PolicyInv
  BY DEF Init, Policy!Init, PolicyInv, PolicyTypes
<1>2. PolicyInv /\ [Next]_fleet => PolicyInv'
  <2> SUFFICES ASSUME PolicyInv, [Next]_fleet PROVE PolicyInv'
    OBVIOUS
  <2>1. CASE Policy!Next
    BY <2>1, PolicyStep
  <2>2. CASE UNCHANGED policyVars
    BY <2>2 DEF policyVars, PolicyInv, PolicyTypes, Told
  <2> QED
    BY <2>1, <2>2 DEF Next, fleet
<1>3. PolicyInv => HistoryTellsPolicy
  <2> SUFFICES ASSUME PolicyInv, NEW p \in DOMAIN policies, Told(p)
               PROVE  LET h == policyHistory[p] v == policies[p].version
                      IN /\ h # <<>> /\ Policy!Last(h).content = policies[p].content
                         /\ v = sinceCreate[p] + 1
                         /\ \A i \in 1..v : h[Len(h) - v + i].version = i
    BY DEF PolicyInv, HistoryTellsPolicy, Policy!HistoryTellsPolicy, Policy!Existing
  <2>1. policyHistory[p] \in Seq(PolicyRecords)
    BY DEF PolicyInv, PolicyTypes
  <2> QED
    BY <2>1 DEF Told, Policy!Last
<1> QED
  BY <1>1, <1>2, <1>3, PTL DEF Spec

-----------------------------------------------------------------------------
(* The stages of a rollout.                                                *)

(* Numbers have a least one.                                               *)
LEMMA LeastOfNumbers == ASSUME NEW I \in SUBSET Nat, I # {} PROVE \E m \in I : \A i \in I : m <= i
<1> DEFINE R == {ij \in Nat \X Nat : ij[1] < ij[2]}
<1>1. PICK m \in I : \A i \in I : <<i, m>> \notin R
  <2>1. IsWellFoundedOn(R, Nat)
    BY NatLessThanWellFounded DEF OpToRel
  <2> QED
    BY <2>1, WFMin
<1>2. ASSUME NEW i \in I PROVE m <= i
  <2>1. i \in Nat /\ m \in Nat
    OBVIOUS
  <2>2. ~(i < m)
    BY <1>1, <2>1
  <2> QED
    BY <2>1, <2>2
<1> QED
  BY <1>2

(* A set of numbers that has all below one of its own is an interval.      *)
LEMMA FirstNumbers ==
  ASSUME NEW c \in Nat, NEW S \in SUBSET (1..c), \A s \in S, r \in 1..c : r < s => r \in S
  PROVE  Cardinality(S) \in 0..c /\ S = 1..Cardinality(S)
<1> DEFINE D == {i \in Nat : i + 1 \notin S}
<1>1. c \in D
  OBVIOUS
<1>2. PICK d \in D : \A i \in D : d <= i
  <2>1. D \in SUBSET Nat /\ D # {}
    BY <1>1
  <2> HIDE DEF D
  <2> QED
    BY <2>1, LeastOfNumbers
<1>3. d \in Nat /\ d <= c /\ d + 1 \notin S
  BY <1>1, <1>2
<1>4. ASSUME NEW i \in 1..d PROVE i \in S
  <2>1. i - 1 \in Nat /\ i - 1 < d /\ (i - 1) + 1 = i
    BY <1>3
  <2>2. i - 1 \notin D
    BY <1>2, <1>3, <2>1
  <2> QED
    BY <2>1, <2>2
<1>5. ASSUME NEW s \in S PROVE s <= d
  <2>1. s \in 1..c /\ (d + 1 < s => d + 1 \in 1..c) /\ s # d + 1
    BY <1>3
  <2> QED
    BY <1>3, <2>1
<1>6. S = 1..d
  <2>1. \A s \in S : s \in 1..d
    BY <1>3, <1>5
  <2> QED
    BY <1>4, <2>1
<1>7. Cardinality(1..d) = d
  <2>1. 1 \in Int /\ d \in Int
    BY <1>3
  <2> QED
    BY <1>3, <2>1, FS_Interval
<1> QED
  BY <1>3, <1>6, <1>7

(* Two parts of a sequence, one behind the other.                          *)
LEMMA PartsMeet ==
  ASSUME NEW R, NEW t \in Seq(R), NEW m \in Nat, NEW n \in Nat, m <= n, n <= Len(t)
  PROVE  SubSeq(t, 1, m) \o SubSeq(t, m + 1, n) = SubSeq(t, 1, n)
<1>1. /\ SubSeq(t, 1, m) \in Seq(R) /\ Len(SubSeq(t, 1, m)) = m
      /\ \A i \in 1..m : SubSeq(t, 1, m)[i] = t[i]
  <2>1. \A i \in 1..m : t[i] \in R
    OBVIOUS
  <2> QED
    BY <2>1, SubSeqProperties
<1>2. /\ SubSeq(t, 1, n) \in Seq(R) /\ Len(SubSeq(t, 1, n)) = n
      /\ \A i \in 1..n : SubSeq(t, 1, n)[i] = t[i]
  <2>1. \A i \in 1..n : t[i] \in R
    OBVIOUS
  <2> QED
    BY <2>1, SubSeqProperties
<1>3. /\ SubSeq(t, m + 1, n) \in Seq(R) /\ Len(SubSeq(t, m + 1, n)) = n - m
      /\ \A i \in 1..(n - m) : SubSeq(t, m + 1, n)[i] = t[m + i]
  <2>1. /\ \A i \in (m + 1)..n : t[i] \in R
        /\ m + 1 \in Int /\ n \in Int
        /\ (IF m + 1 <= n THEN n - (m + 1) + 1 ELSE 0) = n - m
        /\ \A i \in 1..(n - m) : i \in 1..(n - (m + 1) + 1) /\ (m + 1) + i - 1 = m + i
    OBVIOUS
  <2>2. /\ SubSeq(t, m + 1, n) \in Seq(R)
        /\ Len(SubSeq(t, m + 1, n)) = IF m + 1 <= n THEN n - (m + 1) + 1 ELSE 0
        /\ \A i \in 1..(n - (m + 1) + 1) : SubSeq(t, m + 1, n)[i] = t[(m + 1) + i - 1]
    BY <2>1, SubSeqProperties
  <2> QED
    BY <2>1, <2>2
<1> DEFINE A == SubSeq(t, 1, m)
           B == SubSeq(t, m + 1, n)
           C == SubSeq(t, 1, n)
<1> HIDE DEF A, B, C
<1>4. /\ A \o B \in Seq(R) /\ Len(A \o B) = n
      /\ \A i \in 1..n : (A \o B)[i] = IF i <= m THEN A[i] ELSE B[i - m]
  <2>1. /\ A \o B \in Seq(R) /\ Len(A \o B) = Len(A) + Len(B)
        /\ \A i \in 1..(Len(A) + Len(B)) : (A \o B)[i] = IF i <= Len(A) THEN A[i] ELSE B[i - Len(A)]
    BY <1>1, <1>3, ConcatProperties DEF A, B
  <2>2. Len(A) = m /\ Len(B) = n - m /\ m + (n - m) = n
    BY <1>1, <1>3 DEF A, B
  <2> QED
    BY <2>1, <2>2
<1>5. ASSUME NEW i \in 1..n PROVE (A \o B)[i] = C[i]
  <2>1. i <= m => A[i] = t[i]
    BY <1>1 DEF A
  <2>2. ~(i <= m) => B[i - m] = t[i]
    BY <1>3 DEF B
  <2>3. C[i] = t[i]
    BY <1>2 DEF C
  <2> QED
    BY <1>4, <2>1, <2>2, <2>3
<1>6. A \o B = C
  <2>1. C \in Seq(R) /\ Len(C) = n
    BY <1>2 DEF C
  <2> QED
    BY <1>4, <1>5, <2>1, SeqEqual
<1> QED
  BY <1>6 DEF A, B, C

(* What FlattenSeq() gives, if one knows it for the first i, for each i.   *)
SoFar(w, stages, m) == w = [i \in 1..m |-> IF i = 1 THEN stages[i] ELSE w[i - 1] \o stages[i]]

LEMMA FlattenedSoFar ==
  ASSUME NEW stages, NEW m \in Nat, Len(stages) = m, m # 0, NEW w, SoFar(w, stages, m)
  PROVE  Rollouts!FlattenSeq(stages) = w[m]
<1> DEFINE g == CHOOSE f : SoFar(f, stages, m)
<1>1. SoFar(g, stages, m)
  OBVIOUS
<1>2. Rollouts!FlattenSeq(stages) = g[m]
  BY DEF Rollouts!FlattenSeq, SoFar
<1> HIDE DEF g
<1>3. \A i \in 1..m : /\ g[i] = IF i = 1 THEN stages[i] ELSE g[i - 1] \o stages[i]
                      /\ w[i] = IF i = 1 THEN stages[i] ELSE w[i - 1] \o stages[i]
  <2>1. \A i \in 1..m : g[i] = IF i = 1 THEN stages[i] ELSE g[i - 1] \o stages[i]
    BY <1>1 DEF SoFar
  <2>2. \A i \in 1..m : w[i] = IF i = 1 THEN stages[i] ELSE w[i - 1] \o stages[i]
    BY DEF SoFar
  <2> QED
    BY <2>1, <2>2
<1> DEFINE D == {i \in 1..m : g[i] # w[i]}
<1>4. D = {}
  <2> SUFFICES ASSUME D # {} PROVE FALSE
    OBVIOUS
  <2>1. D \in SUBSET Nat
    OBVIOUS
  <2>2. PICK i \in D : \A j \in D : i <= j
    BY <2>1, LeastOfNumbers
  <2>3. i \in 1..m /\ g[i] # w[i]
    BY <2>2
  <2>4. i # 1
    BY <1>3, <2>3
  <2>5. i - 1 \in 1..m /\ i - 1 \notin D
    BY <2>2, <2>3, <2>4
  <2>6. g[i - 1] = w[i - 1]
    BY <2>5
  <2>7. g[i] = g[i - 1] \o stages[i] /\ w[i] = w[i - 1] \o stages[i]
    BY <1>3, <2>3, <2>4
  <2> QED
    BY <2>3, <2>6, <2>7
<1>5. m \in 1..m
  OBVIOUS
<1>6. g[m] = w[m]
  BY <1>4, <1>5
<1> QED
  BY <1>2, <1>6

LEMMA StagesOfTargets ==
  ASSUME NEW R, NEW t \in Seq(R), NEW k \in Int
  PROVE  LET stages == Rollouts!StagesOf(t, k) IN
         /\ Rollouts!FlattenSeq(stages) = t
         /\ \A s \in DOMAIN stages : stages[s] # <<>>
         /\ Len(stages) <= (IF k <= 0 THEN 1 ELSE k)
<1> DEFINE n   == Len(t)
           c   == IF k <= 0 THEN 1 ELSE k
           per == IF n \div c = 0 THEN 1 ELSE n \div c
           S   == {s \in 1..c : (s - 1) * per < n}
           m   == Cardinality(S)
           end(s) == IF s = c THEN n ELSE Rollouts!LeastOf(s * per, n)
           stages == Rollouts!StagesOf(t, k)
<1>1. c \in Nat \ {0} /\ n \in Nat
  OBVIOUS
<1>2. per \in Nat \ {0}
  <2>1. n \div c \in Nat
    <3> HIDE DEF n, c
    <3> QED
      BY <1>1
  <2> HIDE DEF n, c
  <2> QED
    BY <2>1
<1> HIDE DEF n, c, per
<1>3. \A s \in Int : /\ s * per \in Int /\ (s - 1) * per \in Int
                     /\ s * per = (s - 1) * per + per
  BY <1>2
<1>4. \A r, s \in Int : r < s => (r - 1) * per <= (s - 1) * per
  BY <1>2
<1>5. m \in 0..c /\ S = 1..m
  <2>1. S \in SUBSET (1..c) /\ \A s \in S, r \in 1..c : r < s => r \in S
    <3> SUFFICES ASSUME NEW s \in S, NEW r \in 1..c, r < s PROVE (r - 1) * per < n
      OBVIOUS
    <3>1. /\ s \in Int /\ r \in Int /\ (s - 1) * per < n /\ (s - 1) * per \in Int
          /\ (r - 1) * per \in Int
      BY <1>1, <1>3
    <3>2. (r - 1) * per <= (s - 1) * per
      BY <1>4, <3>1
    <3> QED
      BY <1>1, <3>1, <3>2
  <2>2. c \in Nat
    BY <1>1
  <2> HIDE DEF S
  <2> QED
    BY <2>1, <2>2, FirstNumbers
<1>6. \A s \in 1..m : s \in 1..c /\ (s - 1) * per < n
  <2>1. \A s \in S : s \in 1..c /\ (s - 1) * per < n
    OBVIOUS
  <2> QED
    BY <1>5, <2>1
<1>7. stages = [s \in 1..m |-> SubSeq(t, (s - 1) * per + 1, end(s))]
  <2>1. m = Rollouts!Cardinality(S)
    <3> HIDE DEF S
    <3> QED
      BY DEF Rollouts!Cardinality, Cardinality
  <2>2. stages = [s \in 1..Rollouts!Cardinality(S) |-> SubSeq(t, (s - 1) * per + 1, end(s))]
    BY DEF Rollouts!StagesOf, n, c, per
  <2> HIDE DEF stages, m, end
  <2> QED
    BY <2>1, <2>2
<1> HIDE DEF stages, S
<1> HIDE DEF m
<1>8. DOMAIN stages = 1..m /\ Len(stages) = m
  <2>1. m \in Nat
    BY <1>1, <1>5
  <2> HIDE DEF end
  <2> QED
    BY <1>7, <2>1
<1>9. \A s \in 1..m : /\ end(s) \in Nat /\ end(s) <= n
                      /\ (s - 1) * per \in Nat /\ (s - 1) * per < end(s)
  <2>1. ASSUME NEW s \in 1..m PROVE (s - 1) * per \in Nat
    BY <1>2, <2>1
  <2>2. ASSUME NEW s \in 1..m
        PROVE  end(s) \in Nat /\ end(s) <= n /\ (s - 1) * per < end(s)
    <3>1. s \in Int /\ s * per = (s - 1) * per + per /\ (s - 1) * per \in Nat /\ (s - 1) * per < n
      BY <1>3, <1>6, <2>1
    <3> QED
      BY <1>1, <1>2, <3>1 DEF Rollouts!LeastOf
  <2> QED
    BY <2>1, <2>2
<1>10. \A s \in 1..m : s + 1 \in 1..m => end(s) = s * per
  <2> SUFFICES ASSUME NEW s \in 1..m, s + 1 \in 1..m PROVE end(s) = s * per
    OBVIOUS
  <2>1. s # c /\ ((s + 1) - 1) * per < n /\ (s + 1) - 1 = s
    BY <1>1, <1>5, <1>6
  <2>2. s * per \in Int /\ s * per < n
    BY <1>3, <2>1
  <2> QED
    BY <1>1, <2>1, <2>2 DEF Rollouts!LeastOf
<1>11. m # 0 => end(m) = n
  <2> SUFFICES ASSUME m # 0, m # c PROVE end(m) = n
    OBVIOUS
  <2>1. m \in Int /\ m + 1 \in 1..c /\ m + 1 \notin 1..m
    BY <1>1, <1>5
  <2>2. ~(((m + 1) - 1) * per < n) /\ (m + 1) - 1 = m
    BY <1>5, <2>1 DEF S
  <2>3. m * per \in Int /\ ~(m * per < n)
    BY <1>3, <2>1, <2>2
  <2> QED
    BY <1>1, <2>3 DEF Rollouts!LeastOf
<1>12. ASSUME NEW s \in DOMAIN stages PROVE stages[s] # <<>>
  <2>1. stages[s] = SubSeq(t, (s - 1) * per + 1, end(s)) /\ s \in 1..m
    BY <1>7, <1>8
  <2>2. /\ (s - 1) * per + 1 \in Int /\ end(s) \in Int
        /\ (s - 1) * per + 1 <= end(s) /\ end(s) - ((s - 1) * per + 1) + 1 >= 1
        /\ \A i \in ((s - 1) * per + 1)..end(s) : i \in 1..n
    BY <1>1, <1>9, <2>1
  <2> DEFINE a == (s - 1) * per + 1
             b == end(s)
  <2>3. \A i \in 1..n : t[i] \in R
    BY DEF n
  <2> HIDE DEF a, b, end
  <2>4. Len(SubSeq(t, a, b)) = b - a + 1
    <3>1. a \in Int /\ b \in Int /\ a <= b /\ \A i \in a..b : t[i] \in R
      BY <2>2, <2>3 DEF a, b
    <3> QED
      BY <3>1, SubSeqProperties
  <2>5. Len(SubSeq(t, a, b)) # 0
    BY <2>2, <2>4 DEF a, b
  <2>6. Len(stages[s]) # 0
    BY <2>1, <2>5 DEF a, b
  <2> QED
    BY <2>6
<1>13. CASE m = 0
  <2>1. n = 0
    <3>1. 1 \in 1..c /\ 1 \notin S
      BY <1>1, <1>5, <1>13
    <3>2. ~((1 - 1) * per < n) /\ (1 - 1) * per = 0
      BY <1>2, <3>1 DEF S
    <3> QED
      BY <1>1, <3>2
  <2>2. stages = <<>> /\ t = <<>>
    BY <1>7, <1>13, <2>1 DEF n
  <2>3. Rollouts!FlattenSeq(stages) = t
    BY <2>2 DEF Rollouts!FlattenSeq
  <2>4. Len(stages) <= c
    BY <1>1, <1>8, <1>13
  <2> QED
    BY <1>12, <2>3, <2>4 DEF c, stages
<1>14. CASE m # 0
  <2> DEFINE w == [i \in 1..m |-> SubSeq(t, 1, end(i))]
  <2>1. ASSUME NEW i \in 1..m
        PROVE  w[i] = IF i = 1 THEN stages[i] ELSE w[i - 1] \o stages[i]
    <3>1. stages[i] = SubSeq(t, (i - 1) * per + 1, end(i)) /\ w[i] = SubSeq(t, 1, end(i))
      BY <1>7
    <3>2. CASE i = 1
      <4>1. (i - 1) * per + 1 = 1
        BY <1>2, <3>2
      <4> QED
        BY <3>1, <3>2, <4>1
    <3>3. CASE i # 1
      <4>1. i - 1 \in 1..m /\ (i - 1) + 1 = i
        BY <1>5, <2>1, <3>3
      <4>2. w[i - 1] = SubSeq(t, 1, end(i - 1)) /\ end(i - 1) = (i - 1) * per
        <5>1. end(i - 1) = (i - 1) * per
          BY <1>10, <4>1
        <5> HIDE DEF end
        <5> QED
          BY <4>1, <5>1
      <4>3. /\ (i - 1) * per \in Nat /\ end(i) \in Nat
            /\ (i - 1) * per <= end(i) /\ end(i) <= Len(t)
        BY <1>9 DEF n
      <4>4. SubSeq(t, 1, (i - 1) * per) \o SubSeq(t, (i - 1) * per + 1, end(i)) = SubSeq(t, 1, end(i))
        <5> HIDE DEF end
        <5> QED
          BY <4>3, PartsMeet
      <4> HIDE DEF w, end
      <4> QED
        BY <3>1, <3>3, <4>2, <4>4
    <3> QED
      BY <3>2, <3>3
  <2>2. SoFar(w, stages, m)
    <3>1. DOMAIN w = 1..m /\ w = [i \in 1..m |-> w[i]]
      BY Zenon
    <3> HIDE DEF w
    <3> QED
      BY <2>1, <3>1 DEF SoFar
  <2>3. w[m] = t
    <3>1. w[m] = SubSeq(t, 1, end(m)) /\ end(m) = n
      BY <1>1, <1>5, <1>11, <1>14
    <3>2. SubSeq(t, 1, n) = t
      BY DEF n
    <3> HIDE DEF w, end
    <3> QED
      BY <3>1, <3>2
  <2> HIDE DEF w, end
  <2>4. Rollouts!FlattenSeq(stages) = w[m]
    <3>1. m \in Nat
      BY <1>1, <1>5
    <3> QED
      BY <1>8, <1>14, <2>2, <3>1, FlattenedSoFar
  <2>5. Len(stages) <= c
    BY <1>1, <1>5, <1>8
  <2> QED
    BY <1>12, <2>3, <2>4, <2>5 DEF c, stages
<1> HIDE DEF end
<1> QED
  BY <1>13, <1>14

-----------------------------------------------------------------------------
(* The rollouts.                                                           *)

(* What buildStages() makes; the proofs need how many stages there are.    *)
Staged == {Rollouts!StagesOf(t, k) : t \in TargetLists, k \in StageCounts}

Records == [version : Versions, targets : TargetLists, threshold : Thresholds,
            stages : Staged, outcome : Seq(Nat \X Nat), done : SUBSET Nat,
            current : Nat, status : Rollouts!Statuses,
            rollbackVersion : Versions \cup {NoVersion}]

Failing(d, s) == Rollouts!Exceeds(d.threshold, d.outcome[s])

(* StatusTellsStages for one deployment; a failed one counts its stages    *)
(* with the current one, and there is an outcome for each stage.           *)
Telling(d) ==
  /\ DOMAIN d.outcome = DOMAIN d.stages
  /\ d.targets # <<>> => 1 \in DOMAIN d.stages
  /\ d.status = "Planned" => d.done = {}
  /\ d.status \in {"InProgress", "Paused"} =>
       /\ d.current \in DOMAIN d.stages \/ d.targets = <<>>
       /\ d.current >= 1 /\ d.done = 1..(d.current - 1)
       /\ \A s \in d.done : ~Failing(d, s)
  /\ d.status = "Completed" => d.done = DOMAIN d.stages /\ \A s \in d.done : ~Failing(d, s)
  /\ d.status = "Failed" =>
       d.done = 1..d.current /\ \A s \in d.done : Failing(d, s) <=> s = d.current

(* A version that is known stays known, and each deployment remembers the  *)
(* first target's.                                                         *)
Remembering(i) ==
  /\ before[i] \in [Endpoints -> Versions \cup {NoVersion}]
  /\ \A e \in Endpoints : before[i][e] \in Versions => endpointVersions[e] \in Versions
  /\ deployments[i].targets # <<>> =>
       deployments[i].rollbackVersion = before[i][Head(deployments[i].targets)]

RolloutInv ==
  /\ deployments \in Seq(Records) /\ \A i \in DOMAIN deployments : Telling(deployments[i])
  /\ endpointVersions \in [Endpoints -> Versions \cup {NoVersion}]
  /\ before \in Seq([Endpoints -> Versions \cup {NoVersion}])
  /\ Len(before) = Len(deployments)
  /\ \A i \in DOMAIN deployments : Remembering(i)

LEMMA StagesMade ==
  ASSUME NEW t \in TargetLists, NEW k \in StageCounts
  PROVE  LET st == Rollouts!StagesOf(t, k) IN
         \E m \in Nat : DOMAIN st = 1..m /\ Len(st) = m /\ (t # <<>> => m >= 1)
<1> DEFINE n   == Len(t)
           c   == IF k <= 0 THEN 1 ELSE k
           per == IF n \div c = 0 THEN 1 ELSE n \div c
           S   == {s \in 1..c : (s - 1) * per < n}
           m   == Rollouts!Cardinality(S)
           st  == Rollouts!StagesOf(t, k)
<1>1. t \in Seq(Endpoints) /\ k \in Int
  BY FleetConstants DEF Rollouts!ConstantsAssumption
<1>2. c \in Nat \ {0} /\ n \in Nat
  BY <1>1
<1>3. n \div c \in Int
  <2> HIDE DEF n, c
  <2> QED
    BY <1>2
<1>4. per \in Int
  <2> HIDE DEF n, c
  <2> QED
    BY <1>3
<1>5. IsFiniteSet(S)
  <2> HIDE DEF per, n, c
  <2>1. IsFiniteSet(1..c) /\ S \subseteq 1..c
    BY <1>2, FS_Interval
  <2> QED
    BY <2>1, FS_Subset
<1>6. m = Cardinality(S) /\ m \in Nat
  <2> HIDE DEF S
  <2> QED
    BY <1>5, FS_CardinalityType DEF Rollouts!Cardinality, Cardinality
<1>7. ASSUME t # <<>> PROVE m >= 1
  <2>1. n # 0
    BY <1>1, <1>7
  <2>2. 1 \in S
    <3> HIDE DEF per, n, c
    <3>1. 1 \in 1..c /\ (1 - 1) * per = 0 /\ 0 < n
      BY <1>2, <1>4, <2>1
    <3> QED
      BY <3>1
  <2>3. m # 0
    <3> HIDE DEF S
    <3> QED
      BY <1>5, <1>6, <2>2, FS_EmptySet
  <2> QED
    BY <1>6, <2>3
<1> DEFINE piece(s) == SubSeq(t, (s - 1) * per + 1,
                              IF s = c THEN n ELSE Rollouts!LeastOf(s * per, n))
<1>8. st = [s \in 1..m |-> piece(s)]
  BY DEF Rollouts!StagesOf
<1>9. DOMAIN st = 1..m /\ Len(st) = m
  <2> HIDE DEF piece, m
  <2>1. DOMAIN [s \in 1..m |-> piece(s)] = 1..m /\ Len([s \in 1..m |-> piece(s)]) = m
    BY <1>6
  <2> HIDE DEF st
  <2> QED
    BY <1>8, <2>1
<1> QED
  BY <1>6, <1>7, <1>9

KnownStays == \A e \in Endpoints : endpointVersions[e] \in Versions => endpointVersions'[e] \in Versions

(* One rollout changes, but for its targets and the version to go back to. *)
LEMMA RolloutChanges ==
  ASSUME RolloutInv, KnownStays, endpointVersions' \in [Endpoints -> Versions \cup {NoVersion}],
         before' = before, NEW i \in DOMAIN deployments, NEW d \in Records, Telling(d),
         d.targets = deployments[i].targets, d.rollbackVersion = deployments[i].rollbackVersion,
         deployments' = [deployments EXCEPT ![i] = d]
  PROVE  RolloutInv'
<1>1. /\ deployments' \in Seq(Records) /\ Len(deployments') = Len(deployments)
      /\ DOMAIN deployments' = DOMAIN deployments
      /\ \A k \in DOMAIN deployments : deployments'[k] = IF k = i THEN d ELSE deployments[k]
  BY DEF RolloutInv
<1>2. \A k \in DOMAIN deployments :
        /\ Telling(deployments'[k])
        /\ deployments'[k].targets = deployments[k].targets
        /\ deployments'[k].rollbackVersion = deployments[k].rollbackVersion
  BY <1>1 DEF RolloutInv
<1>3. ASSUME NEW k \in DOMAIN deployments PROVE Remembering(k)'
  BY <1>2, <1>3 DEF RolloutInv, Remembering, KnownStays
<1> QED
  BY <1>1, <1>2, <1>3 DEF RolloutInv

LEMMA RolloutsRest ==
  ASSUME RolloutInv, KnownStays, endpointVersions' \in [Endpoints -> Versions \cup {NoVersion}],
         before' = before, deployments' = deployments
  PROVE  RolloutInv'
<1>1. ASSUME NEW k \in DOMAIN deployments PROVE Remembering(k)'
  BY <1>1 DEF RolloutInv, Remembering, KnownStays
<1> QED
  BY <1>1 DEF RolloutInv

LEMMA CreateRollout ==
  ASSUME RolloutInv, NEW v \in Versions, NEW t \in TargetLists, NEW k \in StageCounts,
         NEW p \in Thresholds, Rollouts!Create(v, t, k, p)
  PROVE  RolloutInv'
<1> DEFINE st == Rollouts!StagesOf(t, k)
           r  == IF t = <<>> THEN NoVersion ELSE endpointVersions[Head(t)]
           d  == [version |-> v, targets |-> t, threshold |-> p, stages |-> st,
                  outcome |-> [s \in DOMAIN st |-> <<0, 0>>], done |-> {}, current |-> 0,
                  status |-> "Planned", rollbackVersion |-> r]
<1>1. PICK m \in Nat : DOMAIN st = 1..m /\ Len(st) = m /\ (t # <<>> => m >= 1)
  BY StagesMade
<1>2. t \in Seq(Endpoints) /\ (t # <<>> => Head(t) \in Endpoints)
  BY FleetConstants DEF Rollouts!ConstantsAssumption
<1>3. r \in Versions \cup {NoVersion}
  BY <1>2 DEF RolloutInv
<1>4. [s \in DOMAIN st |-> <<0, 0>>] \in Seq(Nat \X Nat) /\ DOMAIN [s \in DOMAIN st |-> <<0, 0>>] = 1..m
  <2> HIDE DEF st
  <2> QED
    BY <1>1
<1>5. st \in Staged /\ "Planned" \in Rollouts!Statuses
  BY DEF Staged, Rollouts!Statuses
<1>6. d \in Records /\ d.stages = st /\ d.targets = t /\ d.rollbackVersion = r
  <2> HIDE DEF st, r
  <2> QED
    BY <1>3, <1>4, <1>5 DEF Records
<1>7. Telling(d)
  <2> HIDE DEF st, r
  <2> QED
    BY <1>1, <1>4 DEF Telling
<1>8. /\ deployments' = Append(deployments, d) /\ before' = Append(before, endpointVersions)
      /\ endpointVersions' = endpointVersions
  BY DEF Rollouts!Create, Rollouts!NoOutcome
<1> HIDE DEF d
<1>9. /\ deployments' \in Seq(Records) /\ DOMAIN deployments' = 1..Len(deployments) + 1
      /\ deployments'[Len(deployments) + 1] = d /\ Len(deployments') = Len(deployments) + 1
      /\ \A i \in DOMAIN deployments : i # Len(deployments) + 1 /\ deployments'[i] = deployments[i]
      /\ DOMAIN deployments' = DOMAIN deployments \cup {Len(deployments) + 1}
  BY <1>6, <1>8 DEF RolloutInv
<1>10. /\ before' \in Seq([Endpoints -> Versions \cup {NoVersion}]) /\ Len(before') = Len(deployments')
       /\ before'[Len(deployments) + 1] = endpointVersions
       /\ \A i \in DOMAIN deployments : before'[i] = before[i]
  BY <1>8, <1>9 DEF RolloutInv
<1>11. ASSUME NEW i \in DOMAIN deployments PROVE Remembering(i)'
  BY <1>8, <1>9, <1>10, <1>11 DEF RolloutInv, Remembering
<1>12. ASSUME NEW i, i = Len(deployments) + 1 PROVE Remembering(i)'
  <2>1. t # <<>> => r = endpointVersions[Head(t)]
    OBVIOUS
  <2> HIDE DEF r
  <2> QED
    BY <1>6, <1>8, <1>9, <1>10, <1>12, <2>1 DEF RolloutInv, Remembering
<1>13. \A i \in DOMAIN deployments' : Telling(deployments'[i]) /\ Remembering(i)'
  BY <1>7, <1>9, <1>11, <1>12 DEF RolloutInv
<1> QED
  BY <1>8, <1>9, <1>10, <1>13 DEF RolloutInv


LEMMA StatusChanges ==
  ASSUME RolloutInv, NEW i \in DOMAIN deployments,
         \/ Rollouts!StartRollout(i) \/ Rollouts!PauseRollout(i) \/ Rollouts!ResumeRollout(i)
  PROVE  RolloutInv'
<1> DEFINE d == deployments[i]
           started == [d EXCEPT !.status = "InProgress", !.current = 1]
           with(s) == [d EXCEPT !.status = s]
<1>1. d \in Records /\ Telling(d)
  BY DEF RolloutInv
<1>2. KnownStays /\ endpointVersions' \in [Endpoints -> Versions \cup {NoVersion}] /\ before' = before
  BY DEF RolloutInv, KnownStays, Rollouts!StartRollout, Rollouts!PauseRollout, Rollouts!ResumeRollout
<1>3. CASE Rollouts!StartRollout(i)
  <2>1. deployments' = [deployments EXCEPT ![i] = started] /\ d.status = "Planned"
    BY <1>3 DEF Rollouts!StartRollout
  <2>2. /\ started \in Records /\ Telling(started) /\ started.targets = d.targets
        /\ started.rollbackVersion = d.rollbackVersion
    <3> HIDE DEF d
    <3>1. /\ started \in Records /\ started.targets = d.targets /\ started.current = 1
          /\ started.rollbackVersion = d.rollbackVersion /\ started.status = "InProgress"
          /\ started.stages = d.stages /\ started.outcome = d.outcome /\ started.done = d.done
      BY <1>1 DEF Records, Rollouts!Statuses
    <3> HIDE DEF started
    <3> QED
      BY <1>1, <2>1, <3>1 DEF Telling
  <2> QED
    BY <1>2, <2>1, <2>2, RolloutChanges
<1>4. ASSUME NEW s \in {"InProgress", "Paused"}, d.status \in {"InProgress", "Paused"},
             deployments' = [deployments EXCEPT ![i] = with(s)]
      PROVE  RolloutInv'
  <2>1. /\ with(s) \in Records /\ Telling(with(s)) /\ with(s).targets = d.targets
        /\ with(s).rollbackVersion = d.rollbackVersion
    <3> HIDE DEF d
    <3>1. /\ with(s) \in Records /\ with(s).targets = d.targets /\ with(s).current = d.current
          /\ with(s).rollbackVersion = d.rollbackVersion /\ with(s).status = s
          /\ with(s).stages = d.stages /\ with(s).outcome = d.outcome /\ with(s).done = d.done
          /\ with(s).threshold = d.threshold
      BY <1>1, <1>4 DEF Records, Rollouts!Statuses
    <3> HIDE DEF with
    <3> QED
      BY <1>1, <1>4, <3>1 DEF Telling, Failing
  <2> QED
    BY <1>2, <1>4, <2>1, RolloutChanges
<1>5. CASE Rollouts!PauseRollout(i)
  BY <1>4, <1>5 DEF Rollouts!PauseRollout, Rollouts!SetStatus
<1>6. CASE Rollouts!ResumeRollout(i)
  BY <1>4, <1>6 DEF Rollouts!ResumeRollout, Rollouts!SetStatus
<1> QED
  BY <1>3, <1>5, <1>6

LEMMA RollingBack ==
  ASSUME RolloutInv, NEW i \in DOMAIN deployments, Rollouts!Rollback(i)
  PROVE  RolloutInv'
<1> DEFINE d == deployments[i]
           e == [d EXCEPT !.status = "RolledBack"]
<1>1. d \in Records /\ Telling(d)
  BY DEF RolloutInv
<1>2. deployments' = [deployments EXCEPT ![i] = e] /\ before' = before
  BY DEF Rollouts!Rollback, Rollouts!SetStatus
<1>3. /\ e \in Records /\ Telling(e) /\ e.targets = d.targets /\ e.rollbackVersion = d.rollbackVersion
  <2> HIDE DEF d
  <2>1. /\ e \in Records /\ e.targets = d.targets /\ e.rollbackVersion = d.rollbackVersion
        /\ e.status = "RolledBack" /\ e.stages = d.stages /\ e.outcome = d.outcome
    BY <1>1 DEF Records, Rollouts!Statuses
  <2> HIDE DEF e
  <2> QED
    BY <1>1, <2>1 DEF Telling
<1>4. PICK S : /\ S # {} => d.rollbackVersion # NoVersion
               /\ endpointVersions' = [x \in Endpoints |->
                                        IF x \in S THEN d.rollbackVersion ELSE endpointVersions[x]]
  BY DEF Rollouts!Rollback
<1>5. d.rollbackVersion \in Versions \cup {NoVersion}
  BY <1>1 DEF Records
<1>6. KnownStays /\ endpointVersions' \in [Endpoints -> Versions \cup {NoVersion}]
  <2> HIDE DEF d
  <2> QED
    BY <1>4, <1>5 DEF RolloutInv, KnownStays
<1> HIDE DEF e
<1> QED
  BY <1>2, <1>3, <1>6, RolloutChanges

LEMMA Advancing ==
  ASSUME RolloutInv, NEW i \in DOMAIN deployments, NEW o \in Outcomes, Rollouts!AdvanceStage(i, o)
  PROVE  RolloutInv'
<1> DEFINE d     == deployments[i]
           c     == d.current
           ended == Rollouts!Ended(d, o)
           e     == [d EXCEPT !.outcome = [d.outcome EXCEPT ![c] = o], !.done = d.done \cup {c},
                              !.status = ended,
                              !.current = IF ended = "InProgress" THEN c + 1 ELSE c]
<1>1. d \in Records /\ Telling(d) /\ d.status = "InProgress" /\ c \in DOMAIN d.stages
  BY DEF RolloutInv, Rollouts!AdvanceStage, Rollouts!IsStaged
<1>2. deployments' = [deployments EXCEPT ![i] = e] /\ before' = before
  BY DEF Rollouts!AdvanceStage
<1>3. PICK m \in Nat : DOMAIN d.stages = 1..m /\ Len(d.stages) = m
  <2>1. PICK t \in TargetLists, k \in StageCounts : d.stages = Rollouts!StagesOf(t, k)
    BY <1>1 DEF Records, Staged
  <2> HIDE DEF d
  <2> QED
    BY <2>1, StagesMade
<1>4. o \in Nat \X Nat
  BY FleetConstants DEF Rollouts!ConstantsAssumption
<1>5. /\ c \in 1..m /\ d.outcome \in Seq(Nat \X Nat) /\ DOMAIN d.outcome = 1..m
      /\ d.done = 1..(c - 1) /\ \A s \in d.done : ~Failing(d, s)
  BY <1>1, <1>3 DEF Records, Telling
<1>6. ended = IF Rollouts!Exceeds(d.threshold, o) THEN "Failed"
              ELSE IF c >= m THEN "Completed" ELSE "InProgress"
  BY <1>3 DEF Rollouts!Ended
<1> DEFINE out == [d.outcome EXCEPT ![c] = o]
<1>7. /\ out \in Seq(Nat \X Nat) /\ DOMAIN out = 1..m
      /\ \A s \in 1..m : out[s] = IF s = c THEN o ELSE d.outcome[s]
  <2> HIDE DEF d, c
  <2> QED
    BY <1>4, <1>5
<1>8. d.done \cup {c} = 1..c
  <2> HIDE DEF d, c
  <2> QED
    BY <1>5
<1>9. /\ e \in Records /\ e.targets = d.targets /\ e.rollbackVersion = d.rollbackVersion
      /\ e.threshold = d.threshold /\ e.stages = d.stages /\ e.outcome = out /\ e.done = 1..c
      /\ e.status = ended /\ e.current = IF ended = "InProgress" THEN c + 1 ELSE c
  <2>1. ended \in Rollouts!Statuses
    BY <1>6 DEF Rollouts!Statuses
  <2>2. c \in Nat /\ 1..c \in SUBSET Nat
    <3> HIDE DEF c
    <3> QED
      BY <1>5
  <2> DEFINE next == IF ended = "InProgress" THEN c + 1 ELSE c
  <2>3. e = [d EXCEPT !.outcome = out, !.done = 1..c, !.status = ended, !.current = next]
    BY <1>8
  <2>4. next \in Nat
    <3> HIDE DEF c, ended
    <3> QED
      BY <2>2
  <2> HIDE DEF d, c, ended, out, next, e
  <2>5. /\ e \in Records /\ e.targets = d.targets /\ e.rollbackVersion = d.rollbackVersion
        /\ e.threshold = d.threshold /\ e.stages = d.stages /\ e.outcome = out /\ e.done = 1..c
        /\ e.status = ended /\ e.current = next
    BY <1>1, <1>7, <2>1, <2>2, <2>3, <2>4 DEF Records
  <2> QED
    BY <2>5 DEF next
<1>10. \A s \in 1..c : Failing(e, s) <=> s = c /\ Rollouts!Exceeds(d.threshold, o)
  <2> HIDE DEF d, c, e, out
  <2>1. \A s \in 1..c : e.outcome[s] = IF s = c THEN o ELSE d.outcome[s]
    BY <1>5, <1>7, <1>9
  <2>2. \A s \in 1..c : s # c => s \in d.done
    BY <1>5
  <2> QED
    BY <1>5, <1>9, <2>1, <2>2 DEF Failing
<1>11. Telling(e)
  <2> HIDE DEF d, c, e, out, ended
  <2>1. DOMAIN e.outcome = DOMAIN e.stages /\ 1 \in DOMAIN e.stages
    BY <1>3, <1>5, <1>7, <1>9
  <2>2. CASE ended = "InProgress"
    <3>1. ~Rollouts!Exceeds(d.threshold, o) /\ e.current = c + 1 /\ c + 1 \in 1..m
      BY <1>5, <1>6, <1>9, <2>2
    <3>2. e.current \in DOMAIN e.stages /\ e.current >= 1 /\ e.done = 1..(e.current - 1)
      BY <1>3, <1>5, <1>9, <3>1
    <3> QED
      BY <1>9, <1>10, <2>1, <2>2, <3>1, <3>2 DEF Telling
  <2>3. CASE ended = "Completed"
    <3>1. ~Rollouts!Exceeds(d.threshold, o) /\ c = m
      BY <1>5, <1>6, <2>3
    <3> QED
      BY <1>3, <1>9, <1>10, <2>1, <2>3, <3>1 DEF Telling
  <2>4. CASE ended = "Failed"
    <3>1. Rollouts!Exceeds(d.threshold, o) /\ e.current = c
      BY <1>6, <1>9, <2>4
    <3> QED
      BY <1>9, <1>10, <2>1, <2>4, <3>1 DEF Telling
  <2> QED
    BY <1>6, <2>2, <2>3, <2>4
<1>12. PICK S : endpointVersions' = [x \in Endpoints |->
                                        IF x \in S THEN d.version ELSE endpointVersions[x]]
  BY DEF Rollouts!AdvanceStage
<1>13. KnownStays /\ endpointVersions' \in [Endpoints -> Versions \cup {NoVersion}]
  <2>1. d.version \in Versions
    BY <1>1 DEF Records
  <2> HIDE DEF d
  <2> QED
    BY <1>12, <2>1 DEF RolloutInv, KnownStays
<1> HIDE DEF e
<1> QED
  BY <1>2, <1>9, <1>11, <1>13, RolloutChanges

LEMMA RolloutStep == ASSUME RolloutInv, Rollouts!Next PROVE RolloutInv'
<1>1. ASSUME NEW x \in Endpoints, NEW v \in Versions, Rollouts!SetEndpointVersion(x, v)
      PROVE  RolloutInv'
  <2>1. KnownStays /\ endpointVersions' \in [Endpoints -> Versions \cup {NoVersion}]
    BY <1>1 DEF Rollouts!SetEndpointVersion, RolloutInv, KnownStays
  <2> QED
    BY <1>1, <2>1, RolloutsRest DEF Rollouts!SetEndpointVersion
<1> QED
  BY <1>1, CreateRollout, StatusChanges, RollingBack, Advancing DEF Rollouts!Next, Rollouts!Ids


(* Only rollback() makes a rollout RolledBack, and it writes every target. *)
LEMMA RestoredBy ==
  ASSUME RolloutInv, [Next]_fleet, NEW i \in Rollouts!Ids,
         deployments[i].status # "RolledBack", deployments'[i].status = "RolledBack",
         NEW v \in Versions, \A x \in Rollouts!Targets(i) : before[i][x] = v,
         NEW e \in Rollouts!Targets(i)
  PROVE  endpointVersions'[e] = before[i][e]
<1> DEFINE d == deployments[i]
<1>1. /\ i \in DOMAIN deployments /\ d \in Records /\ d.targets \in Seq(Endpoints)
      /\ \A k \in DOMAIN deployments : deployments[k] \in Records
      /\ Remembering(i)
  <2>1. i \in DOMAIN deployments /\ d \in Records /\ Remembering(i)
    BY DEF RolloutInv, Rollouts!Ids
  <2>2. \A k \in DOMAIN deployments : deployments[k] \in Records
    BY DEF RolloutInv
  <2>3. d.targets \in TargetLists
    BY <2>1 DEF Records
  <2> QED
    BY <2>1, <2>2, <2>3, FleetConstants DEF Rollouts!ConstantsAssumption
<1>2. Rollouts!Next
  BY DEF Next, fleet, rolloutVars
<1>3. \A w \in Versions, t \in TargetLists, k \in StageCounts, p \in Thresholds :
        ~Rollouts!Create(w, t, k, p)
  BY <1>1 DEF RolloutInv, Rollouts!Create
<1>4. ASSUME NEW k \in Rollouts!Ids,
             \/ Rollouts!StartRollout(k) \/ Rollouts!PauseRollout(k) \/ Rollouts!ResumeRollout(k)
             \/ \E o \in Outcomes : Rollouts!AdvanceStage(k, o)
      PROVE  FALSE
  <2>1. k \in DOMAIN deployments /\ deployments[k] \in Records
    BY <1>1 DEF Rollouts!Ids
  <2>2. CASE Rollouts!StartRollout(k) \/ Rollouts!PauseRollout(k) \/ Rollouts!ResumeRollout(k)
    BY <1>1, <2>1, <2>2 DEF Rollouts!StartRollout, Rollouts!PauseRollout, Rollouts!ResumeRollout,
       Rollouts!SetStatus, RolloutInv, Records
  <2>3. ASSUME NEW o \in Outcomes, Rollouts!AdvanceStage(k, o) PROVE FALSE
    <3>1. Rollouts!Ended(deployments[k], o) # "RolledBack"
      BY DEF Rollouts!Ended
    <3>2. deployments'[i].status = IF i = k THEN Rollouts!Ended(deployments[k], o) ELSE d.status
      BY <1>1, <2>1, <2>3 DEF Rollouts!AdvanceStage, RolloutInv, Records
    <3> QED
      BY <3>1, <3>2
  <2> QED
    BY <1>4, <2>2, <2>3
<1>5. \A x \in Endpoints, w \in Versions : ~Rollouts!SetEndpointVersion(x, w)
  BY DEF Rollouts!SetEndpointVersion
<1>6. PICK k \in Rollouts!Ids : Rollouts!Rollback(k)
  BY <1>2, <1>3, <1>4, <1>5 DEF Rollouts!Next
<1>7. k = i
  <2>1. k \in DOMAIN deployments /\ deployments[k] \in Records
    BY <1>1 DEF Rollouts!Ids
  <2> QED
    BY <1>1, <1>6, <2>1 DEF Rollouts!Rollback, Rollouts!SetStatus, RolloutInv, Records
<1>8. e \in Endpoints /\ d.targets # <<>> /\ Head(d.targets) \in Rollouts!Targets(i)
  BY <1>1 DEF Rollouts!Targets, Rollouts!ToSet
<1>9. d.rollbackVersion = v /\ v # NoVersion /\ endpointVersions[e] # NoVersion
  <2>1. d.rollbackVersion = v
    BY <1>1, <1>8 DEF Remembering
  <2>2. NoVersion \notin Versions
    BY FleetConstants DEF Rollouts!ConstantsAssumption
  <2>3. endpointVersions[e] \in Versions
    BY <1>1, <1>8 DEF Remembering
  <2> QED
    BY <2>1, <2>2, <2>3
<1>10. endpointVersions'[e] = v
  BY <1>6, <1>7, <1>8, <1>9 DEF Rollouts!Rollback
<1> QED
  BY <1>10

LEMMA RolloutInvHolds == Spec => []RolloutInv
<1>1. Init => RolloutInv
  <2> SUFFICES ASSUME Init PROVE RolloutInv
    OBVIOUS
  <2>1. deployments = <<>> /\ before = <<>> /\ endpointVersions = [e \in Endpoints |-> NoVersion]
    BY DEF Init, Rollouts!Init
  <2>2. DOMAIN deployments = {} /\ deployments \in Seq(Records) /\ Len(before) = Len(deployments)
        /\ before \in Seq([Endpoints -> Versions \cup {NoVersion}])
    BY <2>1
  <2> QED
    BY <2>1, <2>2 DEF RolloutInv
<1>2. RolloutInv /\ [Next]_fleet => RolloutInv'
  <2> SUFFICES ASSUME RolloutInv, [Next]_fleet PROVE RolloutInv'
    OBVIOUS
  <2>1. CASE UNCHANGED rolloutVars
    <3>1. KnownStays /\ endpointVersions' \in [Endpoints -> Versions \cup {NoVersion}]
      BY <2>1 DEF rolloutVars, RolloutInv, KnownStays
    <3> QED
      BY <2>1, <3>1, RolloutsRest DEF rolloutVars
  <2> QED
    BY <2>1, RolloutStep DEF Next, fleet
<1> QED
  BY <1>1, <1>2, PTL DEF Spec

(* buildStages() puts every target in one stage, in order, and makes no    *)
(* empty stage and no more than asked for; and a rollout's status tells    *)
(* which of its stages are done and which failed, however rollouts are     *)
(* paused, resumed and rolled back, for any lists of targets and any       *)
(* outcomes (DeploymentManager::buildStages, advanceStage).                *)
THEOREM RolloutStatusHolds == Spec => []StatusTellsStages
<1>1. RolloutInv => Rollouts!StatusTellsStages
  BY DEF RolloutInv, Telling, Failing, Rollouts!StatusTellsStages, Rollouts!Ids, Rollouts!IsStaged
<1>2. Rollouts!StagesPartition
  <2>1. ASSUME NEW n \in 0..MaxTargets, NEW k \in -1..(MaxTargets + 1)
        PROVE  LET targets == [t \in 1..n |-> t]
                   stages  == Rollouts!StagesOf(targets, k)
               IN /\ Rollouts!FlattenSeq(stages) = targets
                  /\ \A s \in DOMAIN stages : stages[s] # <<>>
                  /\ Len(stages) <= (IF k <= 0 THEN 1 ELSE k)
    <3>1. n \in Nat /\ k \in Int /\ [t \in 1..n |-> t] \in Seq(Nat)
      BY <2>1
    <3> QED
      BY <3>1, StagesOfTargets
  <2> QED
    BY <2>1 DEF Rollouts!StagesPartition
<1>3. RolloutInv => StatusTellsStages
  BY <1>1, <1>2 DEF StatusTellsStages
<1> QED
  BY <1>3, RolloutInvHolds, PTL

(* A rollback restores the version that all targets had when the           *)
(* deployment was created, whatever reports and other rollouts have made   *)
(* of them since (DeploymentManager::rollback).                            *)
THEOREM RollbackRestoresHolds == Spec => RollbackRestores
<1>1. RolloutInv /\ [Next]_fleet =>
        [\A i \in Rollouts!Ids :
           LET S == Rollouts!Targets(i) IN
           /\ deployments[i].status # "RolledBack" /\ deployments'[i].status = "RolledBack"
           /\ \E v \in Versions : \A e \in S : before[i][e] = v
           => \A e \in S : endpointVersions'[e] = before[i][e]]_(Rollouts!vars)
  BY RestoredBy
<1> QED
  BY <1>1, RolloutInvHolds, PTL DEF Spec, RollbackRestores, Rollouts!RollbackRestores
=============================================================================

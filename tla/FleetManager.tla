---------------------------- MODULE FleetManager ----------------------------
(***************************************************************************)
(* Fleet::FleetManager: the registry of endpoints with their heartbeats,   *)
(* and their groups.  Membership is kept twice, as an endpoint's groupId   *)
(* and in a group's list of endpoints.  Every operation is one section of  *)
(* mutex_.  The ids of groups come from a counter and never return.        *)
(***************************************************************************)
EXTENDS Integers, Functions

CONSTANTS Endpoints,      \* ids under which agents register
          NoGroup,        \* the empty groupId
          Timeouts,       \* values of heartbeatTimeout_
          MaxGroups,      \* bound: groups ever created
          MaxAge          \* bound: seconds that are told apart

FleetAssumption == NoGroup \notin Nat /\ MaxAge \in Nat

VARIABLES
  endpoints,        \* endpoints_: groupId, status, and age of lastHeartbeat
  groups,           \* groups_: the endpointIds of each group
  nextGroup,        \* nextId_
  heartbeatTimeout, \* heartbeatTimeout_
  reregistered      \* history: endpoints that registered again as members

fleetVars == <<endpoints, groups, nextGroup, heartbeatTimeout, reregistered>>

Registered == DOMAIN endpoints
GroupOf(e) == endpoints[e].group
Without(e, g) == IF g \in DOMAIN groups THEN [groups EXCEPT ![g] = @ \ {e}] ELSE groups

Init ==
  /\ endpoints = [e \in {} |-> NoGroup]
  /\ groups = [g \in {} |-> {}]
  /\ nextGroup = 1 /\ heartbeatTimeout \in Timeouts
  /\ reregistered = {}
-----------------------------------------------------------------------------
(* registerEndpoint(): overwrites an entry of the same id, group included; *)
(* the list of the group it was in keeps the id.                           *)
RegisterEndpoint(e) ==
  /\ endpoints' = [x \in Registered \cup {e} |->
       IF x = e THEN [group |-> NoGroup, status |-> "Online", age |-> 0] ELSE endpoints[x]]
  /\ reregistered' = IF e \in Registered /\ GroupOf(e) # NoGroup
                       THEN reregistered \cup {e} ELSE reregistered
  /\ UNCHANGED <<groups, nextGroup, heartbeatTimeout>>

DeregisterEndpoint(e) ==
  /\ e \in Registered
  /\ groups' = Without(e, GroupOf(e))
  /\ endpoints' = Restrict(endpoints, Registered \ {e})
  /\ UNCHANGED <<nextGroup, heartbeatTimeout, reregistered>>

(* processHeartbeat(): the timestamp is the sender's, however late it      *)
(* comes; high usage overrides any status.                                 *)
ProcessHeartbeat(e, age, high) ==
  /\ e \in Registered
  /\ endpoints' = [endpoints EXCEPT ![e].age = age, ![e].status =
       IF high THEN "Degraded" ELSE IF @ \in {"Offline", "Degraded"} THEN "Online" ELSE @]
  /\ UNCHANGED <<groups, nextGroup, heartbeatTimeout, reregistered>>

CreateGroup ==
  /\ nextGroup <= MaxGroups
  /\ groups' = [g \in DOMAIN groups \cup {nextGroup} |->
                  IF g = nextGroup THEN {} ELSE groups[g]]
  /\ nextGroup' = nextGroup + 1
  /\ UNCHANGED <<endpoints, heartbeatTimeout, reregistered>>

(* deleteGroup(): all that its list names lose their group, whichever.     *)
DeleteGroup(g) ==
  /\ g \in DOMAIN groups
  /\ endpoints' = [e \in Registered |->
       IF e \in groups[g] THEN [endpoints[e] EXCEPT !.group = NoGroup] ELSE endpoints[e]]
  /\ groups' = Restrict(groups, DOMAIN groups \ {g})
  /\ UNCHANGED <<nextGroup, heartbeatTimeout, reregistered>>

AddAnyway(e, g) ==                    \* slip: stays in its previous group's list
  /\ e \in Registered /\ g \in DOMAIN groups
  /\ groups' = [groups EXCEPT ![g] = @ \cup {e}]
  /\ endpoints' = [endpoints EXCEPT ![e].group = g]
  /\ UNCHANGED <<nextGroup, heartbeatTimeout, reregistered>>

AddToGroup(e, g) ==
  /\ e \in Registered /\ g \in DOMAIN groups
  /\ groups' = [Without(e, GroupOf(e)) EXCEPT ![g] = @ \cup {e}]
  /\ endpoints' = [endpoints EXCEPT ![e].group = g]
  /\ UNCHANGED <<nextGroup, heartbeatTimeout, reregistered>>

RemoveFromGroup(e, g) ==
  /\ e \in Registered /\ g \in DOMAIN groups /\ GroupOf(e) = g
  /\ endpoints' = [endpoints EXCEPT ![e].group = NoGroup]
  /\ groups' = Without(e, g)
  /\ UNCHANGED <<nextGroup, heartbeatTimeout, reregistered>>

(* checkHeartbeatTimeouts(): Maintenance, which it would skip, is a status *)
(* that no operation gives.                                                *)
CheckHeartbeatTimeouts ==
  /\ endpoints' = [e \in Registered |->
       IF endpoints[e].age > heartbeatTimeout
         THEN [endpoints[e] EXCEPT !.status = "Offline"] ELSE endpoints[e]]
  /\ UNCHANGED <<groups, nextGroup, heartbeatTimeout, reregistered>>

SetHeartbeatTimeout(t) ==
  /\ heartbeatTimeout' = t
  /\ UNCHANGED <<endpoints, groups, nextGroup, reregistered>>

TimePasses ==
  /\ endpoints' = [e \in Registered |-> [endpoints[e] EXCEPT !.age =
                     IF @ < MaxAge THEN @ + 1 ELSE @]]
  /\ UNCHANGED <<groups, nextGroup, heartbeatTimeout, reregistered>>

Next ==
  \/ \E e \in Endpoints :
       \/ RegisterEndpoint(e) \/ DeregisterEndpoint(e)
       \/ \E age \in 0..MaxAge, high \in BOOLEAN : ProcessHeartbeat(e, age, high)
       \/ \E g \in DOMAIN groups : AddToGroup(e, g) \/ RemoveFromGroup(e, g)
  \/ CreateGroup
  \/ \E g \in DOMAIN groups : DeleteGroup(g)
  \/ CheckHeartbeatTimeouts \/ TimePasses
  \/ \E t \in Timeouts : SetHeartbeatTimeout(t)

Spec == Init /\ [][Next]_fleetVars
-----------------------------------------------------------------------------
FleetTypeOK ==
  /\ Registered \subseteq Endpoints /\ reregistered \subseteq Endpoints
  /\ nextGroup \in Nat \ {0} /\ heartbeatTimeout \in Timeouts
  /\ DOMAIN groups \subseteq 1..(nextGroup - 1)
  /\ \A g \in DOMAIN groups : groups[g] \subseteq Endpoints
  /\ \A e \in Registered :
       endpoints[e] \in [group : 1..(nextGroup - 1) \cup {NoGroup}, age : 0..MaxAge,
                         status : {"Online", "Offline", "Degraded"}]

(* The two records of membership agree: an endpoint's group exists and     *)
(* lists it; and a group lists nobody else but endpoints that registered   *)
(* again while they were members, which its list still names.              *)
MembershipAgrees ==
  /\ \A e \in Registered : GroupOf(e) # NoGroup =>
       GroupOf(e) \in DOMAIN groups /\ e \in groups[GroupOf(e)]
  /\ \A g \in DOMAIN groups : \A e \in groups[g] \ reregistered :
       e \in Registered /\ GroupOf(e) = g
=============================================================================

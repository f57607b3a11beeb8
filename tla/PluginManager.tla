--------------------------- MODULE PluginManager ---------------------------
(***************************************************************************)
(* Plugin::PluginManager: the registry of plugins by id, the manifests     *)
(* they are described by and the hooks these contribute.  It loads no      *)
(* code.  Every operation is one section of mutex_; one that is refused    *)
(* changes nothing and is a stuttering step.                               *)
(***************************************************************************)
EXTENDS TopologicalSort

CONSTANTS Ids,              \* plugin ids; a path names one of them
          Hooks,            \* event type and name of a hook
          NoManifest,
          MaxCopies,        \* bound: times one hook is in the multimap
          ResolvedIds       \* bound: ids in the check of ResolutionOrdered

Manifests == [required : SUBSET Ids, hooks : SUBSET Hooks]
Active    == {"Loaded", "Enabled", "Disabled"}

ManagerAssumption == /\ NoManifest \notin Manifests /\ MaxCopies \in Nat \ {0}
                     /\ IsFiniteSet(Ids) /\ IsFiniteSet(ResolvedIds)

VARIABLES
  pluginState,      \* plugins_: state, "Unknown" without an entry
  manifests,        \* manifests_
  hooks,            \* hooks_: how often each hook is registered
  irregular         \* history: hooks that left their plugins' life cycle

managerVars == <<pluginState, manifests, hooks, irregular>>

Init == /\ pluginState = [p \in Ids |-> "Unknown"]
        /\ manifests = [p \in Ids |-> NoManifest]
        /\ hooks = [h \in Hooks |-> 0]
        /\ irregular = {}

IsActive(p)   == pluginState[p] \in Active
HooksOf(p)    == IF manifests[p] = NoManifest THEN {} ELSE manifests[p].hooks
Requires(q,p) == q # p /\ manifests[q] # NoManifest /\ p \in manifests[q].required
Contributors(h) == {p \in Ids : IsActive(p) /\ h \in HooksOf(p)}
WithHooks(H)    == [h \in Hooks |-> IF h \in H THEN hooks[h] + 1 ELSE hooks[h]]
-----------------------------------------------------------------------------
(* loadPlugin(), also through installFromMarketplace(): only the state     *)
(* Loaded is refused, so that an enabled or disabled plugin is loaded over *)
(* and its hooks are entered a second time.                                *)
LoadPlugin(p) ==
  /\ pluginState[p] # "Loaded"
  /\ \A h \in HooksOf(p) : hooks[h] < MaxCopies
  /\ pluginState' = [pluginState EXCEPT ![p] = "Loaded"]
  /\ hooks' = WithHooks(HooksOf(p))
  /\ irregular' = IF IsActive(p) THEN irregular \cup HooksOf(p) ELSE irregular
  /\ UNCHANGED manifests

(* Hooks are found by event type and name: equal ones of others go too.    *)
Releasable(p) == IsActive(p) /\ ~\E q \in Ids : IsActive(q) /\ Requires(q, p)
Shared(p)     == {h \in HooksOf(p) : Contributors(h) # {p}}

UnloadPlugin(p) ==
  /\ Releasable(p)
  /\ pluginState' = [pluginState EXCEPT ![p] = "Unloaded"]
  /\ hooks' = [h \in Hooks |-> IF h \in HooksOf(p) THEN 0 ELSE hooks[h]]
  /\ irregular' = irregular \cup Shared(p)
  /\ UNCHANGED manifests

ReloadKeepingHooks(p) ==                       \* slip: the old ones stay
  /\ Releasable(p) /\ \A h \in HooksOf(p) : hooks[h] < MaxCopies
  /\ pluginState' = [pluginState EXCEPT ![p] = "Loaded"]
  /\ hooks' = WithHooks(HooksOf(p))
  /\ irregular' = irregular \cup Shared(p)
  /\ UNCHANGED manifests

ReloadPlugin(p) ==
  /\ Releasable(p)
  /\ pluginState' = [pluginState EXCEPT ![p] = "Loaded"]
  /\ hooks' = [h \in Hooks |-> IF h \in HooksOf(p) THEN 1 ELSE hooks[h]]
  /\ irregular' = irregular \cup Shared(p)
  /\ UNCHANGED manifests

(* enablePlugin() asks for no dependency.                                  *)
EnablePlugin(p) ==
  /\ pluginState[p] \in {"Loaded", "Disabled"}
  /\ pluginState' = [pluginState EXCEPT ![p] = "Enabled"]
  /\ UNCHANGED <<manifests, hooks, irregular>>

DisablePlugin(p) ==
  /\ pluginState[p] \in {"Loaded", "Enabled"}
  /\ pluginState' = [pluginState EXCEPT ![p] = "Disabled"]
  /\ UNCHANGED <<manifests, hooks, irregular>>

(* registerManifest(): at any time, also over that of an active plugin.    *)
RegisterManifest(p, m) ==
  /\ manifests' = [manifests EXCEPT ![p] = m]
  /\ irregular' = IF IsActive(p)
       THEN irregular \cup (HooksOf(p) \ m.hooks) \cup (m.hooks \ HooksOf(p)) ELSE irregular
  /\ UNCHANGED <<pluginState, hooks>>

Next ==
  \E p \in Ids :
    \/ LoadPlugin(p) \/ UnloadPlugin(p) \/ ReloadPlugin(p)
    \/ EnablePlugin(p) \/ DisablePlugin(p)
    \/ \E m \in Manifests : RegisterManifest(p, m)

Spec == Init /\ [][Next]_managerVars
-----------------------------------------------------------------------------
ManagerTypeOK ==
  /\ pluginState \in [Ids -> Active \cup {"Unknown", "Unloaded"}]
  /\ manifests \in [Ids -> Manifests \cup {NoManifest}]
  /\ hooks \in [Hooks -> 0..MaxCopies] /\ irregular \subseteq Hooks

(* A hook is registered as often as active plugins contribute it, however  *)
(* they were loaded, unloaded, reloaded and enabled, unless a plugin was   *)
(* loaded over while enabled or disabled, its manifest was replaced while  *)
(* it was active, or it shared the hook with one that was unloaded.        *)
HooksFollowPlugins ==
  \A h \in Hooks \ irregular : hooks[h] = Cardinality(Contributors(h))

(* resolveDependencies() gives a complete order of what a plugin needs, or *)
(* says that there is a cycle if and only if there is one, for all         *)
(* manifests of ResolvedIds and whatever order the maps iterate in.  A     *)
(* function of the manifests only, it is evaluated in initial states.      *)
ResolutionOrdered ==
  (\A p \in Ids : pluginState[p] = "Unknown" /\ manifests[p] = NoManifest) =>
  \A D \in SUBSET ResolvedIds : \A deps \in [D -> SUBSET ResolvedIds] :
    \A p \in D : \A ord \in SetToSeqs(ResolvedIds) :
      LET s == Resolution(deps, deps[p], ResolvedIds, p, ord)
      IN IF Acyclic(NodesFrom(deps, p), GraphFrom(deps, p))
           THEN IsResolution(deps, p, s) ELSE s = Circular
=============================================================================

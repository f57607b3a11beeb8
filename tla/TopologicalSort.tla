-------------------------- MODULE TopologicalSort --------------------------
(***************************************************************************)
(* The two places that order plugins by their dependencies, both with      *)
(* Kahn's algorithm: PluginLoader::topologicalSort() for the loaded ones,  *)
(* DependencyResolver::resolve() and PluginManager::resolveDependencies()  *)
(* for all that one plugin needs.  deps[n] is what n depends on; ord is    *)
(* the order in which the hash maps happen to iterate.                     *)
(***************************************************************************)
EXTENDS Positions

-----------------------------------------------------------------------------
(* The sort of the graph V, outside which dependencies may name nodes.     *)

InDegreeOfAll(V, deps, n, done) == Cardinality(deps[n] \ done)  \* slip: absent ones too

(* The dependencies of n within the graph that are not sorted yet.         *)
InDegree(V, deps, n, done) == Cardinality((deps[n] \cap V) \ done)

FirstDependency(V, deps, n, cur, done) == cur \in deps[n]      \* slip: not its last one

(* Was cur the last dependency that n was waiting for?                     *)
BecomesReady(V, deps, n, cur, done) ==
  cur \in deps[n] /\ InDegree(V, deps, n, done \cup {cur}) = 0

Start(V, deps, ord) ==
  [result |-> <<>>, ready |-> Kept(ord, {i \in DOMAIN ord : InDegree(V, deps, ord[i], {}) = 0})]

(* One turn of the loop.                                                   *)
Pop(V, deps, ord, s) ==
  IF s.ready = <<>> THEN s
  ELSE LET cur   == Head(s.ready)
           freed == {i \in DOMAIN ord : BecomesReady(V, deps, ord[i], cur, ToSet(s.result))}
       IN [result |-> Append(s.result, cur), ready |-> Tail(s.ready) \o Kept(ord, freed)]

(* What the loop makes before its queue is empty: all of V, unless a cycle *)
(* keeps some in-degrees above zero.                                       *)
Sorted(V, deps, ord) ==
  LET after[k \in 0..Len(ord)] ==
        IF k = 0 THEN Start(V, deps, ord) ELSE Pop(V, deps, ord, after[k - 1])
  IN after[Len(ord)].result

(* The reference: no set of nodes in which each depends on another one.    *)
Acyclic(V, deps) == \A S \in (SUBSET V) \ {{}} : \E n \in S : deps[n] \cap S = {}
-----------------------------------------------------------------------------
(* What one plugin needs.  Here deps has the plugins that have a manifest; *)
(* names without one depend on nothing.                                    *)

DependenciesOf(deps, n) == IF n \in DOMAIN deps THEN deps[n] ELSE {}

DirectOnly(deps, p) == {p} \cup DependenciesOf(deps, p)      \* slip: not transitive

(* The nodes that the breadth-first search from p inserts.                 *)
NodesFrom(deps, p) ==
  LET all == DOMAIN deps \cup UNION {deps[n] : n \in DOMAIN deps}
      reached[k \in 0..Cardinality(all)] ==
        IF k = 0 THEN {p}
        ELSE reached[k - 1] \cup UNION {DependenciesOf(deps, m) : m \in reached[k - 1]}
  IN reached[Cardinality(all)]

GraphFrom(deps, p) == [n \in NodesFrom(deps, p) |-> DependenciesOf(deps, n)]

Circular == <<"CIRCULAR_DEPENDENCY_DETECTED">>
Missing  == <<"MISSING">>

(* A required dependency that nobody knows hides the order; only those of  *)
(* p itself are looked at.                                                 *)
Resolution(deps, required, known, p, ord) ==
  LET V     == NodesFrom(deps, p)
      order == Sorted(V, GraphFrom(deps, p), Kept(ord, {i \in DOMAIN ord : ord[i] \in V}))
  IN IF Len(order) # Cardinality(V) THEN Circular
     ELSE IF required \ known # {} THEN Missing
     ELSE Kept(order, {i \in DOMAIN order : order[i] # p})

(* Reference: all that p depends on, directly or not, each after all that  *)
(* it depends on itself.                                                   *)
IsResolution(deps, p, s) ==
  /\ ToSet(s) = NodesFrom(deps, p) \ {p} /\ IsInjective(s)
  /\ \A i, j \in DOMAIN s : s[j] \in DependenciesOf(deps, s[i]) => j < i
  /\ \A m \in {p} \cup ToSet(s) : DependenciesOf(deps, m) \subseteq ToSet(s)
=============================================================================

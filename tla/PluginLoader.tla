---------------------------- MODULE PluginLoader ----------------------------
(***************************************************************************)
(* Core::PluginLoader: shared libraries, the plugin instances they make,   *)
(* and the order in which these are initialised and shut down.             *)
(*                                                                         *)
(* initializeAll() and shutdownAll() resolve the order in one section of   *)
(* the mutex and then take the mutex anew for every plugin; load(),        *)
(* loadFromPath() and unload() of other threads fall between these         *)
(* sections.  A call that changes nothing (a missing file, no entry        *)
(* points, a null instance, an unknown name) is a stuttering step.         *)
(***************************************************************************)
EXTENDS TopologicalSort

CONSTANTS Names,       \* stems of library files, and names of plugins
          NameOf,      \* what the plugin of a library calls itself: name()
          NoLib,
          Graphs,      \* what the plugins may answer to dependencies()
          MaxHandles   \* bound: handles that dlopen gave out for one library

LoaderAssumption == /\ NameOf \in [Names -> Names] /\ NoLib \notin Names
                    /\ Graphs \subseteq [Names -> SUBSET Names]
                    /\ MaxHandles \in Nat

VARIABLES
  deps,      \* what each plugin (by its library) answers to dependencies()
  plugins,   \* plugins_: the library of each entry, NoLib where there is none
  state,     \* LoadedPlugin::state
  handles,   \* for each library: dlopens not yet followed by a dlclose
  pc,        \* what the owner (Application) is doing
  order,     \* the names its loop has still to treat
  sorted,    \* history: did that order come out of the sort?
  settled,   \* history: entries not loaded or unloaded since that order
  dropped,   \* history: was an initialised plugin destroyed un-shut-down?
  unmapped   \* history: was code of a closed library called?

table   == <<plugins, state, handles>>
loop    == <<pc, order, sorted>>
history == <<settled, dropped, unmapped>>
vars    == <<deps, table, loop, history>>

TypeOK ==
  /\ deps \in [Names -> SUBSET Names]
  /\ plugins \in [Names -> Names \cup {NoLib}]
  /\ state \in [Names -> {"Unloaded", "Loaded", "Initialized", "Stopped", "Error"}]
  /\ \A n \in Names : state[n] = "Unloaded" <=> plugins[n] = NoLib
  /\ handles \in [Names -> 0..MaxHandles]
  /\ pc \in {"idle", "initializing", "stopping"}
  /\ order \in Seq(Names) /\ (pc = "idle" => order = <<>>)
  /\ sorted \in BOOLEAN /\ dropped \in BOOLEAN /\ unmapped \in BOOLEAN
  /\ settled \subseteq Names

Init ==
  /\ deps \in Graphs
  /\ plugins = [n \in Names |-> NoLib] /\ state = [n \in Names |-> "Unloaded"]
  /\ handles = [l \in Names |-> 0]
  /\ pc = "idle" /\ order = <<>> /\ sorted = TRUE
  /\ settled = {} /\ dropped = FALSE /\ unmapped = FALSE

Loaded    == {n \in Names : plugins[n] # NoLib}
DepsOf(n) == deps[plugins[n]]                    \* of a loaded plugin
GraphDeps == [n \in Loaded |-> DepsOf(n)]

SetState(n, s) == state' = [state EXCEPT ![n] = s]
-----------------------------------------------------------------------------
(* The calls of any thread.                                                *)

Store(l) ==
  /\ plugins' = [plugins EXCEPT ![NameOf[l]] = l]
  /\ SetState(NameOf[l], "Loaded")
  /\ handles' = [handles EXCEPT ![l] = @ + 1]
  /\ settled' = settled \ {NameOf[l]}

(* load(): the test is by the file's stem, the entry by the plugin's name; *)
(* an entry of that name is replaced, its instance destroyed as it is and  *)
(* its handle forgotten.                                                   *)
Load(l) ==
  /\ plugins[l] = NoLib
  /\ handles[l] < MaxHandles
  /\ Store(l)
  /\ dropped' = (dropped \/ state[NameOf[l]] = "Initialized")
  /\ UNCHANGED <<deps, loop, unmapped>>

(* loadFromPath() of a new name.                                           *)
LoadFromPath(l) ==
  /\ plugins[NameOf[l]] = NoLib
  /\ handles[l] < MaxHandles
  /\ Store(l)
  /\ UNCHANGED <<deps, loop, dropped, unmapped>>

(* loadFromPath() of a name that is there: the handle is closed before the *)
(* new instance is destroyed, by a function of that library.               *)
RefuseDuplicate(l) ==
  /\ plugins[NameOf[l]] # NoLib
  /\ unmapped' = (unmapped \/ handles[l] = 0)
  /\ UNCHANGED <<deps, table, loop, settled, dropped>>

UnloadKeepingHandle(n) ==                        \* slip: no dlclose
  /\ plugins[n] # NoLib
  /\ plugins' = [plugins EXCEPT ![n] = NoLib]
  /\ SetState(n, "Unloaded")
  /\ settled' = settled \ {n}
  /\ UNCHANGED <<deps, handles, loop, dropped, unmapped>>

UnloadClosingTwice(n) ==                         \* slip: the entry closes it, too
  /\ plugins[n] # NoLib
  /\ plugins' = [plugins EXCEPT ![n] = NoLib]
  /\ SetState(n, "Unloaded")
  /\ handles' = [handles EXCEPT ![plugins[n]] = @ - 2]
  /\ settled' = settled \ {n}
  /\ UNCHANGED <<deps, loop, dropped, unmapped>>

UnloadAsItIs(n) ==                               \* slip: tests for Running only
  /\ plugins[n] # NoLib
  /\ plugins' = [plugins EXCEPT ![n] = NoLib]
  /\ SetState(n, "Unloaded")
  /\ handles' = [handles EXCEPT ![plugins[n]] = @ - 1]
  /\ settled' = settled \ {n}
  /\ dropped' = (dropped \/ state[n] = "Initialized")
  /\ UNCHANGED <<deps, loop, unmapped>>

(* unload(): shutdown() if initialised, then destroyed and closed, without *)
(* asking who depends on it.                                               *)
Unload(n) ==
  /\ plugins[n] # NoLib
  /\ plugins' = [plugins EXCEPT ![n] = NoLib]
  /\ SetState(n, "Unloaded")
  /\ handles' = [handles EXCEPT ![plugins[n]] = @ - 1]
  /\ settled' = settled \ {n}
  /\ UNCHANGED <<deps, loop, dropped, unmapped>>
-----------------------------------------------------------------------------
(* initializeAll() and shutdownAll().                                      *)

(* resolveDependencyOrder(), for one iteration order of the table.         *)
Resolve(ord) == Sorted(Loaded, GraphDeps, ord)
IsOrder(o)   == Len(o) = Cardinality(Loaded)     \* or "Circular dependency"

BeginInitialize ==
  /\ pc = "idle"
  /\ \E o \in {Resolve(ord) : ord \in SetToSeqs(Loaded)} :
       /\ IsOrder(o)
       /\ order' = o
       /\ pc' = IF o = <<>> THEN "idle" ELSE "initializing"
  /\ sorted' = TRUE /\ settled' = Loaded
  /\ UNCHANGED <<deps, table, dropped, unmapped>>

Advance ==
  /\ order' = Tail(order)
  /\ pc' = IF Len(order) = 1 THEN "idle" ELSE pc
  /\ UNCHANGED <<deps, plugins, handles, sorted, history>>

(* Gone, or not (any more) in state Loaded.                                *)
SkipInitialize ==
  /\ pc = "initializing" /\ state[Head(order)] # "Loaded"
  /\ Advance /\ UNCHANGED state

Initialize ==
  /\ pc = "initializing" /\ state[Head(order)] = "Loaded"
  /\ SetState(Head(order), "Initialized")
  /\ Advance

(* One plugin fails: the call returns, the others stay as they are.        *)
InitializeFails ==
  /\ pc = "initializing" /\ state[Head(order)] = "Loaded"
  /\ SetState(Head(order), "Error")
  /\ order' = <<>> /\ pc' = "idle"
  /\ UNCHANGED <<deps, plugins, handles, sorted, history>>

BeginShutdownUnreversed ==                       \* slip: std::reverse forgotten
  /\ pc = "idle"
  /\ \E ord \in SetToSeqs(Loaded) :
       LET o == Resolve(ord)
       IN /\ sorted' = IsOrder(o)
          /\ order' = IF IsOrder(o) THEN o ELSE ord
  /\ pc' = "stopping" /\ settled' = Loaded
  /\ UNCHANGED <<deps, table, dropped, unmapped>>

(* The reverse of the order, or the table's own if there is a cycle.  (The *)
(* sort and the fallback lock separately; the fallback sees what another   *)
(* thread loads in between, which no later step tells from a later load.)  *)
BeginShutdown ==
  /\ pc = "idle"
  /\ \E ord \in SetToSeqs(Loaded) :
       LET o == Resolve(ord)
       IN /\ sorted' = IsOrder(o)
          /\ order' = IF IsOrder(o) THEN Reverse(o) ELSE ord
  /\ pc' = "stopping" /\ settled' = Loaded
  /\ UNCHANGED <<deps, table, dropped, unmapped>>

(* shutdown() of the next plugin, if it was initialised.                   *)
StopNext ==
  /\ pc = "stopping" /\ order # <<>>
  /\ order' = Tail(order)
  /\ IF state[Head(order)] = "Initialized"
       THEN SetState(Head(order), "Stopped")
       ELSE UNCHANGED state
  /\ UNCHANGED <<deps, plugins, handles, pc, sorted, history>>

(* Every instance is destroyed and its library closed.                     *)
CloseAll ==
  /\ pc = "stopping" /\ order = <<>>
  /\ dropped' = (dropped \/ \E n \in Names : state[n] = "Initialized")
  /\ plugins' = [n \in Names |-> NoLib] /\ state' = [n \in Names |-> "Unloaded"]
  /\ handles' = [l \in Names |->
                   handles[l] - Cardinality({n \in Names : plugins[n] = l})]
  /\ pc' = "idle" /\ settled' = {}
  /\ UNCHANGED <<deps, order, sorted, unmapped>>

Next ==
  \/ \E l \in Names : Load(l) \/ LoadFromPath(l) \/ RefuseDuplicate(l) \/ Unload(l)
  \/ BeginInitialize \/ SkipInitialize \/ Initialize \/ InitializeFails
  \/ BeginShutdown \/ StopNext \/ CloseAll

Spec == Init /\ [][Next]_vars
-----------------------------------------------------------------------------
(* Properties.                                                             *)

(* The sort fails only if it must, and finds an order whenever there is    *)
(* one, however the table iterates and whatever dependencies are absent    *)
(* (topologicalSort(), "Circular dependency detected").                    *)
OrderUnlessCycle ==
  pc = "idle" =>
    \A ord \in SetToSeqs(Loaded) : IsOrder(Resolve(ord)) <=> Acyclic(Loaded, GraphDeps)

(* initializeAll() "respecting dependency order": no plugin is initialised *)
(* while one it depends on still waits for its turn.  shutdownAll() in     *)
(* "reverse dependency order": if the plugins have one, none is shut down  *)
(* before those that depend on it.  Both hold although other threads load  *)
(* and unload meanwhile, except for plugins loaded after the order was     *)
(* resolved.                                                               *)
OrderRespected ==
  [][\A n, m \in settled :
       /\ state[n] = "Loaded" /\ state'[n] = "Initialized" /\ m \in DepsOf(n)
            => state[m] # "Loaded"
       /\ sorted /\ pc = "stopping" /\ state[n] = "Initialized" /\ state'[n] = "Stopped"
            /\ n \in DepsOf(m) => state[m] # "Initialized"]_vars

(* No initialised plugin is destroyed without shutdown(): not by unload(), *)
(* not by shutdownAll() for what was loaded behind its back, not by a      *)
(* second load().  Every entry keeps its library open, no handle is        *)
(* forgotten, and the code of a closed library is never called.            *)
LibrariesKept ==
  /\ ~dropped /\ ~unmapped
  /\ \A l \in Names : handles[l] = Cardinality({n \in Names : plugins[n] = l})
=============================================================================

---------------------------- MODULE Application ----------------------------
(***************************************************************************)
(* The process: Core::Application, the main program that drives it, the    *)
(* signal handler and the event bus's worker thread.                       *)
(*                                                                         *)
(* state_ is an atomic read and written by main, by the signal handler     *)
(* (which runs in whatever thread the signal hits) and by any other thread *)
(* that calls shutdown().  "up" is the set of subsystems that are running; *)
(* leaving main ends in the destructors of the static singletons, which    *)
(* stop what is still up.                                                  *)
(***************************************************************************)
EXTENDS Naturals, FiniteSets

CONSTANTS Callers,      \* threads that may call Application::shutdown()
          main          \* the main thread, one of them

ASSUME MainAssumption == main \in Callers

VARIABLES
  state,                \* state_
  mainPc,               \* how far main() is
  caller,               \* thread -> how far its shutdown() is
  signal,               \* the signal handler: "none", "entered", "tested", "done"
  handled,              \* is the signal handler installed?
  up,                   \* running subsystems
  closed,               \* history: subsystem -> times shutdown() closed it
  asyncRunning, wpc     \* the event bus's worker

busVars == <<asyncRunning, wpc>>
vars == <<state, mainPc, caller, signal, handled, up, closed, busVars>>

Bus == INSTANCE AsyncWorker

Subsystems == {"logger", "bus", "services", "plugins", "controller"}
States == {"Uninitialized", "Initializing", "Running", "ShuttingDown", "Stopped"}

TypeOK ==
  /\ state \in States
  /\ mainPc \in {"start", "signals", "running", "callbacks", "loop", "controller",
                 "shutdown", "logger", "atexit", "busFlag", "busJoin", "gone"}
  /\ caller \in [Callers -> {"out", "begun", "plugins", "busFlag", "busNotify",
                             "busJoin", "clear", "logger", "last"}]
  /\ (\E c \in Callers : caller[c] # "out") => state \in {"ShuttingDown", "Stopped"}
  /\ signal \in {"none", "entered", "tested", "done"}
  /\ handled \in BOOLEAN
  /\ up \subseteq Subsystems
  /\ closed \in [Subsystems -> Nat]
  /\ Bus!AWTypeOK

Init ==
  /\ state = "Uninitialized" /\ mainPc = "start"
  /\ caller = [c \in Callers |-> "out"]
  /\ signal = "none" /\ handled = FALSE
  /\ up = {} /\ closed = [x \in Subsystems |-> 0]
  /\ Bus!AWInit

GoMain(where) == mainPc' = where
GoCaller(c, where) == caller' = [caller EXCEPT ![c] = where]
CloseAll(xs) == /\ up' = up \ xs
                /\ closed' = [x \in Subsystems |-> IF x \in xs THEN closed[x] + 1 ELSE closed[x]]

-----------------------------------------------------------------------------
(* initialize(): logger, config, bus, services, and plugins, whose failure *)
(* is not fatal; then the handlers are installed, and only then the state  *)
(* becomes Running.                                                        *)
Initialize ==
  /\ mainPc = "start" /\ state = "Uninitialized"
  /\ state' = "Initializing" /\ GoMain("signals")
  /\ \E plugins \in SUBSET {"plugins"} :
        up' = {"logger", "bus", "services"} \cup plugins
  /\ Bus!StartAsync
  /\ UNCHANGED <<caller, signal, handled, closed>>

InstallSignalHandlers ==
  /\ mainPc = "signals"
  /\ handled' = TRUE /\ GoMain("running")
  /\ UNCHANGED <<state, caller, signal, up, closed, busVars>>

BecomeRunning ==
  /\ mainPc = "running"
  /\ state' = "Running" /\ GoMain("callbacks")
  /\ UNCHANGED <<caller, signal, handled, up, closed, busVars>>

(* The rest of initialize(), then AppController::initialize(); when that   *)
(* fails main returns at once.                                             *)
InitializeController ==
  /\ mainPc = "callbacks"
  /\ \/ GoMain("loop") /\ up' = up \cup {"controller"}
     \/ GoMain("atexit") /\ UNCHANGED up
  /\ UNCHANGED <<state, caller, signal, handled, closed, busVars>>

(* The console loop; then "Graceful shutdown": the controller, shutdown(), *)
(* the logger.                                                             *)
LeaveLoop ==
  /\ mainPc = "loop" /\ state # "Running"
  /\ GoMain("controller")
  /\ UNCHANGED <<state, caller, signal, handled, up, closed, busVars>>

ShutdownController ==
  /\ mainPc = "controller"
  /\ up' = up \ {"controller"} /\ GoMain("shutdown")
  /\ UNCHANGED <<state, caller, signal, handled, closed, busVars>>

(* main's own call of shutdown() has returned, or did nothing.             *)
LeaveShutdown ==
  /\ mainPc = "shutdown" /\ caller[main] = "out" /\ state # "Running"
  /\ GoMain("logger")
  /\ UNCHANGED <<state, caller, signal, handled, up, closed, busVars>>

ShutdownLogger ==
  /\ mainPc = "logger"
  /\ up' = up \ {"logger"} /\ GoMain("atexit")
  /\ UNCHANGED <<state, caller, signal, handled, closed, busVars>>

(* Static destruction: ~PluginLoader shuts the plugins down, ~EventBus     *)
(* stops the worker if it still runs.                                      *)
DestroyPlugins ==
  /\ mainPc = "atexit"
  /\ up' = up \ {"plugins", "services"}
  /\ IF asyncRunning
        THEN GoMain("busFlag") /\ Bus!ClearFlag
        ELSE GoMain("gone") /\ UNCHANGED busVars
  /\ UNCHANGED <<state, caller, signal, handled, closed>>

DestroyBus ==
  \/ /\ mainPc = "busFlag" /\ Bus!Notify /\ GoMain("busJoin")
     /\ UNCHANGED <<state, caller, signal, handled, up, closed>>
  \/ /\ mainPc = "busJoin" /\ Bus!Join /\ GoMain("gone")
     /\ up' = up \ {"bus"}
     /\ UNCHANGED <<state, caller, signal, handled, closed>>

-----------------------------------------------------------------------------
Alive == mainPc # "gone"

(* shutdown(): one compare-and-swap decides who does it.                   *)
CanCall(c) == IF c = main THEN mainPc = "shutdown"
                          ELSE Alive /\ mainPc \notin {"start", "signals"}

BeginShutdownUntested(c) ==     \* slip: a test and a store, seen together late
  /\ caller[c] = "out" /\ CanCall(c) /\ state \in {"Running", "ShuttingDown"}
  /\ state' = "ShuttingDown" /\ GoCaller(c, "begun")
  /\ UNCHANGED <<mainPc, signal, handled, up, closed, busVars>>

BeginShutdown(c) ==
  /\ caller[c] = "out" /\ CanCall(c) /\ state = "Running"
  /\ state' = "ShuttingDown" /\ GoCaller(c, "begun")
  /\ UNCHANGED <<mainPc, signal, handled, up, closed, busVars>>

(* Stopping is published, the callbacks run, the plugins shut down ...     *)
SkipPlugins(c) ==       \* slip: the order of the two steps is swapped
  /\ caller[c] = "begun" /\ Alive
  /\ UNCHANGED up /\ closed' = closed /\ GoCaller(c, "busFlag")
  /\ UNCHANGED <<state, mainPc, signal, handled, busVars>>

ShutdownPlugins(c) ==
  /\ caller[c] = "begun" /\ Alive
  /\ CloseAll({"plugins"} \cap up) /\ GoCaller(c, "busFlag")
  /\ UNCHANGED <<state, mainPc, signal, handled, busVars>>

(* ... the bus's worker stops: exchange, notify, join ...                  *)
StopBus(c) ==
  /\ Alive
  /\ \/ /\ caller[c] = "busFlag"
        /\ IF asyncRunning THEN Bus!ClearFlag /\ GoCaller(c, "busNotify")
                           ELSE GoCaller(c, "clear") /\ UNCHANGED busVars
        /\ UNCHANGED <<up, closed>>
     \/ /\ caller[c] = "busNotify" /\ Bus!Notify /\ GoCaller(c, "busJoin")
        /\ UNCHANGED <<up, closed>>
     \/ /\ caller[c] = "busJoin" /\ Bus!Join /\ GoCaller(c, "clear")
        /\ CloseAll({"bus"})
  /\ UNCHANGED <<state, mainPc, signal, handled>>

(* ... the services are cleared, the logger closed, the state Stopped.     *)
ShutdownServices(c) ==
  /\ caller[c] = "clear" /\ Alive
  /\ CloseAll({"services"}) /\ GoCaller(c, "logger")
  /\ UNCHANGED <<state, mainPc, signal, handled, busVars>>

CloseLogger(c) ==
  /\ caller[c] = "logger" /\ Alive
  /\ CloseAll({"logger"}) /\ GoCaller(c, "last")
  /\ UNCHANGED <<state, mainPc, signal, handled, busVars>>

EndShutdown(c) ==
  /\ caller[c] = "last" /\ Alive
  /\ state' = "Stopped" /\ GoCaller(c, "out")
  /\ UNCHANGED <<mainPc, signal, handled, up, closed, busVars>>

Shutdown(c) == \/ BeginShutdown(c) \/ ShutdownPlugins(c) \/ StopBus(c)
               \/ ShutdownServices(c) \/ CloseLogger(c) \/ EndShutdown(c)

-----------------------------------------------------------------------------
(* SIGINT or SIGTERM, once: requestShutdown() tests the state and then     *)
(* stores ShuttingDown; a second signal would end the process at once.     *)
SignalArrives ==
  /\ handled /\ signal = "none" /\ Alive
  /\ signal' = "entered"
  /\ UNCHANGED <<state, mainPc, caller, handled, up, closed, busVars>>

RequestTest ==
  /\ signal = "entered" /\ Alive
  /\ signal' = IF state = "Running" THEN "tested" ELSE "done"
  /\ UNCHANGED <<state, mainPc, caller, handled, up, closed, busVars>>

RequestStoreNothing ==          \* slip: the store is lost
  /\ signal = "tested" /\ Alive /\ signal' = "done"
  /\ UNCHANGED <<state, mainPc, caller, handled, up, closed, busVars>>

RequestStore ==
  /\ signal = "tested" /\ Alive
  /\ state' = "ShuttingDown" /\ signal' = "done"
  /\ UNCHANGED <<mainPc, caller, handled, up, closed, busVars>>

BusWorker ==
  /\ Bus!AsyncStep
  /\ UNCHANGED <<state, mainPc, caller, signal, handled, up, closed>>

BusWakes ==
  /\ Bus!WakeSpuriously
  /\ UNCHANGED <<state, mainPc, caller, signal, handled, up, closed>>

MainStep == \/ Initialize \/ InstallSignalHandlers \/ BecomeRunning
            \/ InitializeController \/ LeaveLoop \/ ShutdownController
            \/ LeaveShutdown \/ ShutdownLogger \/ DestroyPlugins \/ DestroyBus

Next == \/ MainStep \/ SignalArrives \/ RequestTest \/ RequestStore
        \/ BusWorker \/ BusWakes \/ \E c \in Callers : Shutdown(c)

Spec == Init /\ [][Next]_vars

(* Threads that can run do; nobody has to send a signal or call shutdown().*)
Fairness == /\ WF_vars(MainStep) /\ WF_vars(BusWorker)
            /\ WF_vars(RequestTest) /\ WF_vars(RequestStore)
            /\ \A c \in Callers :
                  WF_vars(ShutdownPlugins(c) \/ StopBus(c) \/ ShutdownServices(c)
                          \/ CloseLogger(c) \/ EndShutdown(c))

FairSpec == Spec /\ Fairness
-----------------------------------------------------------------------------
(* However many threads call shutdown() while signals store into state_,   *)
(* every subsystem is closed by it at most once: the compare-and-swap      *)
(* succeeds once in the life of the process.                               *)
CleanupOnce == \A x \in Subsystems : closed[x] <= 1

(* "Shutdown in reverse initialization order": what shutdown() closes, it  *)
(* closes after everything that was built on it.                           *)
ReverseOrder == /\ closed["bus"] > 0      => "plugins" \notin up
                /\ closed["services"] > 0 => "plugins" \notin up
                /\ closed["logger"] > 0   => up \cap {"plugins", "services"} = {}

(* shutdown() tears down once and in order, whoever calls it and when.      *)
OrderlyTeardown == CleanupOnce /\ ReverseOrder

(* A signal that finds the application Running makes main leave its loop,  *)
(* whatever other threads store into state_ meanwhile.                     *)
SignalSeenEndsLoop ==
  signal = "tested" ~> mainPc \in {"controller", "shutdown", "logger", "atexit",
                                   "busFlag", "busJoin", "gone"}

(* Application::shutdown: "Shutdown logger last".                          *)
LoggerLast ==
  mainPc # "start" /\ "logger" \notin up => up \cap {"plugins", "services", "bus"} = {}
=============================================================================

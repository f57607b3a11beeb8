------------------------- MODULE ApplicationProofs -------------------------
(***************************************************************************)
(* Proofs about Application, for any number of threads that may call       *)
(* shutdown(): types, and that shutdown() tears down once and in order.    *)
(***************************************************************************)
EXTENDS Application, TLAPS

Early  == mainPc \in {"start", "signals", "running"}
Active(c) == caller[c] # "out"

(* The state goes up with main and never returns to Running: a signal can  *)
(* store into it only after it has found Running.                          *)
Life ==
  /\ mainPc = "start" => state = "Uninitialized"
  /\ mainPc \in {"signals", "running"} => state = "Initializing"
  /\ ~Early => state \in {"Running", "ShuttingDown", "Stopped"}
  /\ Early => signal # "tested"

(* Nothing is closed before the state has left Running, and one thread at  *)
(* most is inside shutdown().                                              *)
OneCaller ==
  /\ Early \/ state = "Running" =>
       /\ \A c \in Callers : ~Active(c)
       /\ \A x \in Subsystems : closed[x] = 0
  /\ \A c, d \in Callers : Active(c) /\ Active(d) => c = d

(* What is still to be closed at each place of shutdown(), and what is     *)
(* down for good.                                                          *)
StillOpen(where) ==
  CASE where = "begun"                             -> Subsystems
    [] where \in {"busFlag", "busNotify", "busJoin"} -> {"bus", "services", "logger"}
    [] where = "clear"                             -> {"services", "logger"}
    [] where = "logger"                            -> {"logger"}
    [] OTHER                                       -> {}

DownFor(where) ==
  CASE where \in {"busFlag", "busNotify", "busJoin", "clear"} -> {"plugins"}
    [] where \in {"logger", "last"}                -> {"plugins", "services"}
    [] OTHER                                       -> {}

Teardown ==
  /\ \A c \in Callers : /\ \A x \in StillOpen(caller[c]) : closed[x] = 0
                        /\ DownFor(caller[c]) \cap up = {}
  /\ OrderlyTeardown

IInv == TypeOK /\ Life /\ OneCaller /\ Teardown
-----------------------------------------------------------------------------
LEMMA InitIInv == Init => IInv
<1>. SUFFICES ASSUME Init PROVE IInv
  OBVIOUS
<1>1. TypeOK
  BY DEF Init, TypeOK, States, Subsystems, Bus!AWInit, Bus!AWTypeOK
<1>2. Life /\ OneCaller
  BY DEF Init, Life, OneCaller, Early, Active
<1>3. Teardown
  BY DEF Init, Teardown, StillOpen, DownFor, OrderlyTeardown, CleanupOnce, ReverseOrder,
     Subsystems
<1>. QED BY <1>1, <1>2, <1>3 DEF IInv

LEMMA NextIInv == IInv /\ [Next]_vars => IInv'
<1>. SUFFICES ASSUME IInv, [Next]_vars PROVE IInv'
  OBVIOUS
<1>. USE MainAssumption
     DEF IInv, TypeOK, Life, OneCaller, Early, Active, Alive, Subsystems, States, busVars,
         Bus!AWTypeOK, GoMain, GoCaller
<1>1. ASSUME Initialize PROVE IInv'
  <2>1. TypeOK'
    BY <1>1 DEF Initialize, Bus!StartAsync, Teardown, StillOpen
  <2>2. (Life /\ OneCaller)'
    BY <1>1 DEF Initialize, Bus!StartAsync, Teardown, StillOpen
  <2>3. Teardown'
    BY <1>1 DEF Initialize, Bus!StartAsync, Teardown, StillOpen, DownFor,
       OrderlyTeardown, CleanupOnce, ReverseOrder
  <2>. QED BY <2>1, <2>2, <2>3
<1>2. ASSUME InstallSignalHandlers PROVE IInv'
  BY <1>2 DEF InstallSignalHandlers, Teardown, StillOpen, DownFor,
     OrderlyTeardown, CleanupOnce, ReverseOrder
<1>3. ASSUME BecomeRunning PROVE IInv'
  BY <1>3 DEF BecomeRunning, Teardown, StillOpen, DownFor, OrderlyTeardown,
     CleanupOnce, ReverseOrder
<1>4. ASSUME InitializeController PROVE IInv'
  <2>1. TypeOK'
    BY <1>4 DEF InitializeController, Teardown, StillOpen
  <2>2. (Life /\ OneCaller)'
    BY <1>4 DEF InitializeController, Teardown, StillOpen
  <2>3. Teardown'
    BY <1>4 DEF InitializeController, Teardown, StillOpen, DownFor,
       OrderlyTeardown, CleanupOnce, ReverseOrder
  <2>. QED BY <2>1, <2>2, <2>3
<1>5. ASSUME LeaveLoop PROVE IInv'
  BY <1>5 DEF LeaveLoop, Teardown, StillOpen, DownFor, OrderlyTeardown,
     CleanupOnce, ReverseOrder
<1>6. ASSUME ShutdownController PROVE IInv'
  BY <1>6 DEF ShutdownController, Teardown, StillOpen, DownFor,
     OrderlyTeardown, CleanupOnce, ReverseOrder
<1>7. ASSUME LeaveShutdown PROVE IInv'
  BY <1>7 DEF LeaveShutdown, Teardown, StillOpen, DownFor, OrderlyTeardown,
     CleanupOnce, ReverseOrder
<1>8. ASSUME ShutdownLogger PROVE IInv'
  BY <1>8 DEF ShutdownLogger, Teardown, StillOpen, DownFor,
     OrderlyTeardown, CleanupOnce, ReverseOrder
<1>9. ASSUME DestroyPlugins PROVE IInv'
  BY <1>9 DEF DestroyPlugins, Bus!ClearFlag, Teardown, StillOpen, DownFor,
     OrderlyTeardown, CleanupOnce, ReverseOrder
<1>10. ASSUME DestroyBus PROVE IInv'
  BY <1>10 DEF DestroyBus, Bus!Notify, Bus!Join, Teardown, StillOpen,
     DownFor, OrderlyTeardown, CleanupOnce, ReverseOrder
<1>11. ASSUME SignalArrives PROVE IInv'
  BY <1>11 DEF SignalArrives, Teardown, StillOpen, DownFor,
     OrderlyTeardown, CleanupOnce, ReverseOrder
<1>12. ASSUME RequestTest PROVE IInv'
  BY <1>12 DEF RequestTest, Teardown, StillOpen, DownFor, OrderlyTeardown,
     CleanupOnce, ReverseOrder
<1>13. ASSUME RequestStore PROVE IInv'
  BY <1>13 DEF RequestStore, Teardown, StillOpen, DownFor, OrderlyTeardown,
     CleanupOnce, ReverseOrder
<1>14. ASSUME BusWorker PROVE IInv'
  BY <1>14 DEF BusWorker, Bus!AsyncStep, Bus!TestFlag, Bus!PredicateTrue,
     Bus!PredicateFalse, Bus!Sleep, Teardown, StillOpen, DownFor,
     OrderlyTeardown, CleanupOnce, ReverseOrder
<1>15. ASSUME BusWakes PROVE IInv'
  BY <1>15 DEF BusWakes, Bus!WakeSpuriously, Teardown, StillOpen, DownFor,
     OrderlyTeardown, CleanupOnce, ReverseOrder
<1>16. ASSUME NEW c \in Callers, BeginShutdown(c) PROVE IInv'
  <2>1. TypeOK'
    BY <1>16 DEF BeginShutdown, CanCall, Teardown, StillOpen
  <2>2. (Life /\ OneCaller)'
    BY <1>16 DEF BeginShutdown, CanCall, Teardown, StillOpen
  <2>3. Teardown'
    BY <1>16 DEF BeginShutdown, CanCall, Teardown, StillOpen, DownFor,
       OrderlyTeardown, CleanupOnce, ReverseOrder
  <2>. QED BY <2>1, <2>2, <2>3
<1>17. ASSUME NEW c \in Callers, ShutdownPlugins(c) PROVE IInv'
  <2>1. TypeOK'
    BY <1>17 DEF ShutdownPlugins, CloseAll, Teardown, StillOpen
  <2>2. (Life /\ OneCaller)'
    BY <1>17 DEF ShutdownPlugins, CloseAll, Teardown, StillOpen
  <2>3. Teardown'
    BY <1>17 DEF ShutdownPlugins, CloseAll, Teardown, StillOpen, DownFor,
       OrderlyTeardown, CleanupOnce, ReverseOrder
  <2>. QED BY <2>1, <2>2, <2>3
<1>18. ASSUME NEW c \in Callers, StopBus(c) PROVE IInv'
  <2>1. caller' \in [Callers -> {"out", "begun", "plugins", "busFlag", "busNotify",
                                 "busJoin", "clear", "logger", "last"}]
    BY <1>18 DEF StopBus
  <2>2. closed' \in [Subsystems -> Nat] /\ up' \subseteq Subsystems
    <3>1. UNCHANGED <<up, closed>> \/ CloseAll({"bus"})
      BY <1>18 DEF StopBus
    <3>2. ASSUME CloseAll({"bus"}) PROVE closed' \in [Subsystems -> Nat] /\ up' \subseteq up
      BY <3>2 DEF CloseAll
    <3>. QED BY <3>1, <3>2
  <2>3. Bus!AWTypeOK'
    BY <1>18 DEF StopBus, Bus!ClearFlag, Bus!Notify, Bus!Join
  <2>4. TypeOK'
    BY <1>18, <2>1, <2>2, <2>3 DEF StopBus
  <2>5. (Life /\ OneCaller)'
    BY <1>18 DEF StopBus, CloseAll, Bus!ClearFlag, Bus!Notify, Bus!Join,
       Teardown, StillOpen
  <2>6. Teardown'
    BY <1>18 DEF StopBus, CloseAll, Bus!ClearFlag, Bus!Notify, Bus!Join,
       Teardown, StillOpen, DownFor, OrderlyTeardown, CleanupOnce,
       ReverseOrder
  <2>. QED BY <2>4, <2>5, <2>6
<1>19. ASSUME NEW c \in Callers, ShutdownServices(c) PROVE IInv'
  <2>1. TypeOK'
    BY <1>19 DEF ShutdownServices, CloseAll, Teardown, StillOpen
  <2>2. (Life /\ OneCaller)'
    BY <1>19 DEF ShutdownServices, CloseAll, Teardown, StillOpen
  <2>3. Teardown'
    BY <1>19 DEF ShutdownServices, CloseAll, Teardown, StillOpen, DownFor,
       OrderlyTeardown, CleanupOnce, ReverseOrder
  <2>. QED BY <2>1, <2>2, <2>3
<1>20. ASSUME NEW c \in Callers, CloseLogger(c) PROVE IInv'
  <2>1. TypeOK'
    BY <1>20 DEF CloseLogger, CloseAll, Teardown, StillOpen
  <2>2. (Life /\ OneCaller)'
    BY <1>20 DEF CloseLogger, CloseAll, Teardown, StillOpen
  <2>3. Teardown'
    BY <1>20 DEF CloseLogger, CloseAll, Teardown, StillOpen, DownFor,
       OrderlyTeardown, CleanupOnce, ReverseOrder
  <2>. QED BY <2>1, <2>2, <2>3
<1>21. ASSUME NEW c \in Callers, EndShutdown(c) PROVE IInv'
  <2>1. TypeOK'
    BY <1>21 DEF EndShutdown, Teardown, StillOpen
  <2>2. (Life /\ OneCaller)'
    BY <1>21 DEF EndShutdown, Teardown, StillOpen
  <2>3. Teardown'
    BY <1>21 DEF EndShutdown, Teardown, StillOpen, DownFor,
       OrderlyTeardown, CleanupOnce, ReverseOrder
  <2>. QED BY <2>1, <2>2, <2>3
<1>22. CASE UNCHANGED vars
  BY <1>22 DEF Teardown, StillOpen, DownFor, OrderlyTeardown, CleanupOnce, ReverseOrder, vars
<1>. QED
  BY <1>1, <1>2, <1>3, <1>4, <1>5, <1>6, <1>7, <1>8, <1>9, <1>10, <1>11,
     <1>12, <1>13, <1>14, <1>15, <1>16, <1>17, <1>18, <1>19, <1>20, <1>21,
     <1>22 DEF Next, MainStep, Shutdown

LEMMA Invariance == Spec => []IInv
BY InitIInv, NextIInv, PTL DEF Spec

(* Types, and that a thread is inside shutdown() only when the state says  *)
(* that the application is shutting down or has stopped.                   *)
THEOREM TypeCorrect == Spec => []TypeOK
<1>1. IInv => TypeOK
  BY DEF IInv
<1>. QED BY <1>1, Invariance, PTL

(* However many threads call shutdown(), and whatever a signal handler     *)
(* stores into the state meanwhile, each subsystem is closed at most once, *)
(* and what is closed is closed after everything that was built on it.     *)
THEOREM OrderlyTeardownHolds == Spec => []OrderlyTeardown
<1>1. IInv => OrderlyTeardown
  BY DEF IInv, Teardown
<1>. QED BY <1>1, Invariance, PTL
=============================================================================

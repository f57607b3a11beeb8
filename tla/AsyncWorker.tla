---------------------------- MODULE AsyncWorker ----------------------------
(***************************************************************************)
(* The worker thread of Core::EventBus.  asyncRunning_ is an atomic that   *)
(* is not protected by asyncMutex_; the thread waits on asyncCv_ for the   *)
(* flag to go down or for an event in asyncQueue_.  enqueueAsync() calls   *)
(* the handler itself and never fills the queue, so that the flag is all   *)
(* the thread ever waits for, and draining the queue after the join has    *)
(* nothing to do.                                                          *)
(***************************************************************************)
VARIABLES asyncRunning,     \* asyncRunning_
          wpc               \* where asyncWorker() is

awVars == <<asyncRunning, wpc>>

AWTypeOK ==
  /\ asyncRunning \in BOOLEAN
  /\ wpc \in {"none", "loop", "locked", "checked", "waiting", "exited"}

AWInit == asyncRunning = FALSE /\ wpc = "none"

(* startAsyncProcessing(): the flag is exchanged; the thread starts.       *)
StartAsync == /\ asyncRunning' = TRUE
              /\ wpc' = IF asyncRunning THEN wpc ELSE "loop"

(* asyncWorker(): while (asyncRunning_) { lock; wait(...) ... }            *)
TestFlag == /\ wpc = "loop"
            /\ wpc' = IF asyncRunning THEN "locked" ELSE "exited"
            /\ UNCHANGED asyncRunning

(* With the mutex: the predicate ends the wait, or the thread goes to      *)
(* sleep in a later step, during which the flag can still change.          *)
PredicateTrue  == wpc = "locked" /\ ~asyncRunning /\ wpc' = "loop" /\ UNCHANGED asyncRunning
PredicateFalse == wpc = "locked" /\ asyncRunning /\ wpc' = "checked" /\ UNCHANGED asyncRunning
Sleep          == wpc = "checked" /\ wpc' = "waiting" /\ UNCHANGED asyncRunning
WakeSpuriously == wpc = "waiting" /\ wpc' = "locked" /\ UNCHANGED asyncRunning

AsyncStep == TestFlag \/ PredicateTrue \/ PredicateFalse \/ Sleep

(* stopAsyncProcessing(): exchange, notify, join - without the mutex.      *)
ClearFlag == asyncRunning' = FALSE /\ UNCHANGED wpc
Notify    == /\ wpc' = IF wpc = "waiting" THEN "locked" ELSE wpc
             /\ UNCHANGED asyncRunning
Join      == wpc = "exited" /\ wpc' = "none" /\ UNCHANGED asyncRunning
=============================================================================

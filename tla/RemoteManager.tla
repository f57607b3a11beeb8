--------------------------- MODULE RemoteManager ---------------------------
(***************************************************************************)
(* Fleet::RemoteManager: commands queued for endpoints.  An agent, which   *)
(* is not part of this program, reads its queue and reports results; in    *)
(* between, the console may cancel what the agent is already executing.    *)
(* Every operation is one section of mutex_.                               *)
(***************************************************************************)
EXTENDS Integers, Sequences

CONSTANTS Endpoints,
          MaxCommands       \* bound: commands issued

VARIABLES
  commands,         \* commands_, by the number in its id: endpoint, status, success
  commandQueue,     \* endpointCommandQueue_: ids, oldest first, never removed
  fetched           \* the agents: queued commands each has read and not reported

remoteVars == <<commands, commandQueue, fetched>>

Ended == {"Completed", "Failed", "Cancelled"}

Init == /\ commands = <<>>
        /\ commandQueue = [e \in Endpoints |-> <<>>]
        /\ fetched = [e \in Endpoints |-> {}]

(* executeCommand(), and through it pushConfig() and triggerRemoteScan().  *)
ExecuteCommand(e) ==
  /\ Len(commands) < MaxCommands
  /\ commands' = Append(commands, [endpoint |-> e, status |-> "Queued", success |-> FALSE])
  /\ commandQueue' = [commandQueue EXCEPT ![e] = Append(@, Len(commands) + 1)]
  /\ UNCHANGED fetched

(* getCommandQueue(), whose order nobody depends on: a copy, so that a     *)
(* command can be read repeatedly and be cancelled while it is executed.   *)
PendingFor(e) ==
  {c \in {commandQueue[e][i] : i \in DOMAIN commandQueue[e]} : commands[c].status = "Queued"}

GetCommandQueue(e) ==
  /\ fetched' = [fetched EXCEPT ![e] = @ \cup PendingFor(e)]
  /\ UNCHANGED <<commands, commandQueue>>

CancelCommand(c) ==
  /\ commands[c].status \notin Ended
  /\ commands' = [commands EXCEPT ![c].status = "Cancelled"]
  /\ UNCHANGED <<commandQueue, fetched>>

CompleteAnyway(e, c, success) ==       \* slip: a cancelled command completes
  /\ c \in fetched[e] /\ fetched' = [fetched EXCEPT ![e] = @ \ {c}]
  /\ commands' = [commands EXCEPT ![c].success = success,
                                  ![c].status = IF success THEN "Completed" ELSE "Failed"]
  /\ UNCHANGED commandQueue

(* completeCommand(): the result of a command that has ended is refused.   *)
CompleteCommand(e, c, success) ==
  /\ c \in fetched[e] /\ fetched' = [fetched EXCEPT ![e] = @ \ {c}]
  /\ commands' = IF commands[c].status \in Ended THEN commands
                 ELSE [commands EXCEPT ![c].success = success,
                         ![c].status = IF success THEN "Completed" ELSE "Failed"]
  /\ UNCHANGED commandQueue

Next ==
  \/ \E e \in Endpoints :
       \/ ExecuteCommand(e) \/ GetCommandQueue(e)
       \/ \E c \in fetched[e], success \in BOOLEAN : CompleteCommand(e, c, success)
  \/ \E c \in DOMAIN commands : CancelCommand(c)

Spec == Init /\ [][Next]_remoteVars
-----------------------------------------------------------------------------
RemoteTypeOK ==
  /\ commands \in Seq([endpoint : Endpoints, success : BOOLEAN,
                       status : Ended \cup {"Queued"}])
  /\ commandQueue \in [Endpoints -> Seq(DOMAIN commands)]
  /\ fetched \in [Endpoints -> SUBSET DOMAIN commands]

(* A command that has ended keeps its status and its result, although the  *)
(* agent may still be executing it and report later; and it is never in an *)
(* endpoint's pending queue again.                                         *)
CommandsEndOnce ==
  [][\A c \in DOMAIN commands : commands[c].status \in Ended =>
       /\ commands'[c] = commands[c]
       /\ \A e \in Endpoints : c \notin PendingFor(e)']_remoteVars
=============================================================================

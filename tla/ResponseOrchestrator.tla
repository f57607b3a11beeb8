------------------------ MODULE ResponseOrchestrator ------------------------
(***************************************************************************)
(* XDR::ResponseOrchestrator: actions that answer a threat are executed at *)
(* once or queued by priority, some until somebody approves them.  An      *)
(* approval names an action, not an entry of the queue, and callers may    *)
(* queue one action several times.  Every operation is one section of      *)
(* mutex_; executing is a note in executedActions_.                        *)
(***************************************************************************)
EXTENDS Positions

CONSTANTS Actions,          \* ids of actions
          NoTarget,         \* those whose target is empty: they fail
          Priorities,
          MaxEntries,       \* bound: entries ever queued
          MaxApprovals      \* bound: approvals ever requested

OrchestratorAssumption ==
  /\ Priorities \subseteq Int /\ NoTarget \subseteq Actions
  /\ MaxEntries \in Nat /\ MaxApprovals \in Nat

VARIABLES
  actionQueue,      \* entries: number, action, priority, requiresApproval; as
                    \* history whether it was queued as requiring one (asked)
                    \* and how many approvals had been granted by then
  approvalRequests, \* by number: action, status; as history the rank of its
                    \* grant among the grants
  executedActions,  \* the status of the actions executed
  rolledBack,       \* actions in rollbacks_
  nextQueueId

orchestratorVars == <<actionQueue, approvalRequests, executedActions, rolledBack, nextQueueId>>

Granted    == {a \in DOMAIN approvalRequests : approvalRequests[a].status = "approved"}
Pending(a) == a \in DOMAIN approvalRequests /\ approvalRequests[a].status = "pending"

Record(action) ==
  executedActions' = [x \in DOMAIN executedActions \cup {action} |->
    IF x # action THEN executedActions[x]
    ELSE IF action \in NoTarget THEN "Failed" ELSE "Completed"]

BeforeEquals(priority) ==              \* slip: the newest of a priority comes first
  SelectInSeq(actionQueue, LAMBDA q : q.priority <= priority)

(* queueAction() enters an action before the first of lower priority.      *)
FirstLower(priority) == SelectInSeq(actionQueue, LAMBDA q : q.priority < priority)

Init == /\ actionQueue = <<>> /\ approvalRequests = <<>> /\ rolledBack = {}
        /\ executedActions = [a \in {} |-> ""] /\ nextQueueId = 1
-----------------------------------------------------------------------------
(* executeAction(): needs no approval and leaves the queue alone.          *)
ExecuteAction(action) ==
  /\ Record(action)
  /\ UNCHANGED <<actionQueue, approvalRequests, rolledBack, nextQueueId>>

QueueAction(action, priority, approval) ==
  /\ nextQueueId <= MaxEntries
  /\ LET entry == [number |-> nextQueueId, action |-> action, priority |-> priority,
                   requiresApproval |-> approval, asked |-> approval,
                   grants |-> Cardinality(Granted)]
         i     == FirstLower(priority)
     IN actionQueue' = InsertAt(actionQueue, IF i = 0 THEN Len(actionQueue) + 1 ELSE i, entry)
  /\ nextQueueId' = nextQueueId + 1
  /\ UNCHANGED <<approvalRequests, executedActions, rolledBack>>

(* processNextAction(): the first entry that waits for no approval.        *)
ProcessNextAction ==
  \E i \in DOMAIN actionQueue :
    /\ i = SelectInSeq(actionQueue, LAMBDA q : ~q.requiresApproval)
    /\ actionQueue' = RemoveAt(actionQueue, i)
    /\ Record(actionQueue[i].action)
    /\ UNCHANGED <<approvalRequests, rolledBack, nextQueueId>>

(* requestApproval(): the action need not be in the queue, nor exist.      *)
RequestApproval(action) ==
  /\ Len(approvalRequests) < MaxApprovals
  /\ approvalRequests' =
       Append(approvalRequests, [action |-> action, status |-> "pending", rank |-> 0])
  /\ UNCHANGED <<actionQueue, executedActions, rolledBack, nextQueueId>>

(* approveAction(): frees every entry of the action that is queued now.    *)
ApproveAction(a) ==
  /\ Pending(a)
  /\ approvalRequests' = [approvalRequests EXCEPT
       ![a].status = "approved", ![a].rank = Cardinality(Granted) + 1]
  /\ actionQueue' = [i \in DOMAIN actionQueue |->
       [actionQueue[i] EXCEPT !.requiresApproval =
          @ /\ actionQueue[i].action # approvalRequests[a].action]]
  /\ UNCHANGED <<executedActions, rolledBack, nextQueueId>>

(* denyAction(): removes the first entry of the action, even an approved   *)
(* one; further entries stay.                                              *)
DenyAction(a) ==
  /\ Pending(a)
  /\ approvalRequests' = [approvalRequests EXCEPT ![a].status = "denied"]
  /\ LET i == SelectInSeq(actionQueue, LAMBDA q : q.action = approvalRequests[a].action)
     IN actionQueue' = IF i = 0 THEN actionQueue ELSE RemoveAt(actionQueue, i)
  /\ UNCHANGED <<executedActions, rolledBack, nextQueueId>>

(* rollbackAction(): of a failed action, too, and as often as one likes.   *)
RollbackAction(action) ==
  /\ action \in DOMAIN executedActions
  /\ rolledBack' = rolledBack \cup {action}
  /\ UNCHANGED <<actionQueue, approvalRequests, executedActions, nextQueueId>>

Next == \/ \E action \in Actions :
             \/ ExecuteAction(action) \/ RequestApproval(action) \/ RollbackAction(action)
             \/ \E p \in Priorities, b \in BOOLEAN : QueueAction(action, p, b)
        \/ \E a \in DOMAIN approvalRequests : ApproveAction(a) \/ DenyAction(a)
        \/ ProcessNextAction

Spec == Init /\ [][Next]_orchestratorVars
-----------------------------------------------------------------------------
OrchestratorTypeOK ==
  /\ actionQueue \in Seq([number : 1..MaxEntries, action : Actions, priority : Priorities,
                          requiresApproval : BOOLEAN, asked : BOOLEAN,
                          grants : 0..MaxApprovals])
  /\ approvalRequests \in Seq([action : Actions, rank : 0..MaxApprovals,
                               status : {"pending", "approved", "denied"}])
  /\ DOMAIN executedActions \subseteq Actions
  /\ rolledBack \subseteq DOMAIN executedActions
  /\ nextQueueId \in 1..MaxEntries + 1

Approved(q) == \E a \in Granted : /\ approvalRequests[a].action = q.action
                                  /\ approvalRequests[a].rank > q.grants

Precedes(p, q) == \/ p.priority > q.priority
                  \/ p.priority = q.priority /\ p.number < q.number

(* Whatever is approved, denied and queued twice in between: an entry that *)
(* was queued as requiring approval is processed only after an approval of *)
(* its action that is younger than the entry, and no entry is processed    *)
(* while another one that needs no approval, or not any more, is of higher *)
(* priority or as urgent and older.                                        *)
ProcessedInTurn ==
  [][\A i \in DOMAIN actionQueue :
       (ProcessNextAction /\ actionQueue' = RemoveAt(actionQueue, i)) =>
         LET q == actionQueue[i] IN
         /\ q.asked => Approved(q)
         /\ \A p \in ToSet(actionQueue) :
              Precedes(p, q) => p.asked /\ ~Approved(p)]_orchestratorVars
=============================================================================

--------------------------- MODULE ExternalActions ---------------------------
(***************************************************************************)
(* Actions an operator performs by hand on job boards and records in the   *)
(* job-search system: approvals, the actions themselves, the use of the    *)
(* artifact they sent, and the reconciliation item each action opens.      *)
(* Every record has an idempotency key under which a repeated command      *)
(* finds the first row again.  Commands come from two processes; the       *)
(* approval is checked before the transaction that stores the action.      *)
(***************************************************************************)
EXTENDS Clients, FiniteSets

CONSTANTS
  Shape,         \* what actions and approvals are about
  Ref, NoRef,    \* ids and names they refer to, and none
  ApprovalKey,   \* idempotency keys of approvals (given or derived)
  ActionKey,     \* idempotency keys of board actions
  NoRow          \* no row under this key, no validated action

ActionType == {"submit", "profile", "hide", "note"}   \* one of each kind the code tells apart
ShapeOf ==
  [type : ActionType, platform : Ref, vacancy : Ref \cup {NoRef}, application : Ref \cup {NoRef},
   artifact : Ref \cup {NoRef}, target : Ref \cup {NoRef}]
NeedsArtifact == {"submit", "profile"}    \* application_submitted, message_sent; profile_updated
NeedsApproval == {"submit", "profile"}
Informational == {"note"}      \* manual_note, visibility_checked, vacancy_opened, ...

ASSUME ShapesAssumption ==
  /\ Shape \subseteq ShapeOf
  /\ \A h \in Shape : h.type \in NeedsArtifact => h.artifact /= NoRef
  /\ NoRow \notin {"open", "resolved", "rejected"}

ActionState == {"planned", "completed", "needs_review"}
ApprovalState == {"approved", "rejected", "revoked"}

VARIABLES
  approvals,     \* approval_records of type external_action_approval, by key
  actions,       \* manual_board_actions, by key
  usage,         \* actions for which the use of an artifact is recorded
  review,        \* reconciliation_items, one per action
  command        \* the board action each process has validated

actionVars == <<approvals, actions, usage, review, command>>

ApprovalRow == [state : ApprovalState, shape : Shape]
ActionRow == [shape : Shape, state : ActionState, approval : ApprovalKey \cup {NoRow}]
Command == [key : ActionKey, row : ActionRow]

(* Every table holds well-formed rows under its keys.                      *)
ActionsTypeOK ==
  /\ approvals \in [ApprovalKey -> ApprovalRow \cup {NoRow}]
  /\ actions \in [ActionKey -> ActionRow \cup {NoRow}]
  /\ usage \subseteq ActionKey
  /\ review \in [ActionKey -> {"open", "resolved", "rejected", NoRow}]
  /\ command \in [Client -> Command \cup {NoRow}]

ActionsInit ==
  /\ approvals = [k \in ApprovalKey |-> NoRow]
  /\ actions = [k \in ActionKey |-> NoRow]
  /\ usage = {}
  /\ review = [k \in ActionKey |-> NoRow]
  /\ command = [c \in Client |-> NoRow]

\* Mutant: the latest row wins.
Recorded_Latest(table, key, row) == [table EXCEPT ![key] = row]
(* Insert, or return the row that is already there.                        *)
Recorded(table, key, row) ==
  IF table[key] = NoRow THEN [table EXCEPT ![key] = row] ELSE table

(***************************************************************************)
(* Approvals.  The key the code derives leaves the state out, so a         *)
(* decision that repeats the target of an earlier one is that one.         *)
(***************************************************************************)
RecordApproval(key, shape, state) ==
  /\ approvals' = Recorded(approvals, key, [state |-> state, shape |-> shape])
  /\ UNCHANGED <<actions, usage, review, command>>

(* An approval names its target by the application or, without one, by the *)
(* vacancy.                                                                *)
TargetOf(h) ==
  IF h.application /= NoRef THEN <<"application", h.application>>
  ELSE IF h.vacancy /= NoRef THEN <<"vacancy", h.vacancy>> ELSE <<"", NoRef>>
ApprovalMatches(approval, h) ==
  /\ approval /= NoRow
  /\ approval.state = "approved"
  /\ approval.shape.platform = h.platform /\ approval.shape.type = h.type
  /\ h.artifact /= NoRef => approval.shape.artifact = h.artifact
  /\ TargetOf(approval.shape) = TargetOf(h)
  /\ approval.shape.target = h.target

(* Before the transaction: the command is validated, and a completed       *)
(* external action needs the id of an approval that matches it.            *)
ValidateAction(c, key, shape, state, approval) ==
  /\ command[c] = NoRow
  /\ IF state = "completed" /\ shape.type \in NeedsApproval
     THEN approval \in ApprovalKey /\ ApprovalMatches(approvals[approval], shape)
     ELSE approval = NoRow
  /\ command' = [command EXCEPT ![c] =
       [key |-> key, row |-> [shape |-> shape, state |-> state, approval |-> approval]]]
  /\ UNCHANGED <<approvals, actions, usage, review>>

(* What the stored action is worth as a signal from outside: open for      *)
(* review when it conflicts with what the system knows.                    *)
NeedsReview(row) ==
  LET h == row.shape IN
  \/ row.state = "needs_review"
  \/ /\ row.state = "completed"
     /\ h.type \notin Informational
     /\ \/ h.vacancy = NoRef /\ h.type /= "profile"
        \/ h.type = "submit" /\ h.application = NoRef
        \/ h.type \in NeedsArtifact /\ h.artifact = NoRef
        \/ h.type = "hide"
Classified(row) == IF NeedsReview(row) THEN "open" ELSE "resolved"

\* Mutant: a repeated action classifies its item again.
RecordAction_Reclassifies(c) ==
  /\ command[c] /= NoRow
  /\ LET k == command[c].key IN
     /\ actions' = Recorded(actions, k, command[c].row)
     /\ usage' = IF command[c].row.shape.artifact /= NoRef THEN usage \cup {k} ELSE usage
     /\ review' = [review EXCEPT ![k] = Classified(actions'[k])]
  /\ command' = [command EXCEPT ![c] = NoRow]
  /\ UNCHANGED approvals
(* One transaction: the action or the row it repeats, the use of the       *)
(* artifact the command names, and the item for the row that is stored.    *)
RecordAction(c) ==
  /\ command[c] /= NoRow
  /\ LET k == command[c].key IN
     /\ actions' = Recorded(actions, k, command[c].row)
     /\ usage' = IF command[c].row.shape.artifact /= NoRef THEN usage \cup {k} ELSE usage
     /\ review' = Recorded(review, k, Classified(actions'[k]))
  /\ command' = [command EXCEPT ![c] = NoRow]
  /\ UNCHANGED approvals

(* The process dies or its transaction fails before anything is written.   *)
AbandonCommand(c) ==
  /\ command[c] /= NoRow
  /\ command' = [command EXCEPT ![c] = NoRow]
  /\ UNCHANGED <<approvals, actions, usage, review>>

(* A decision on an item replaces any earlier decision on it.              *)
ResolveItem(key, decision) ==
  /\ review[key] /= NoRow
  /\ review' = [review EXCEPT ![key] = decision]
  /\ UNCHANGED <<approvals, actions, usage, command>>

ActionsNext ==
  \/ \E key \in ApprovalKey, shape \in Shape, state \in ApprovalState :
       RecordApproval(key, shape, state)
  \/ \E c \in Client :
       \/ \E key \in ActionKey, shape \in Shape, state \in ActionState,
             approval \in ApprovalKey \cup {NoRow} :
            ValidateAction(c, key, shape, state, approval)
       \/ RecordAction(c)
       \/ AbandonCommand(c)
  \/ \E key \in ActionKey, decision \in {"resolved", "rejected"} : ResolveItem(key, decision)

ActionsSpec == ActionsInit /\ [][ActionsNext]_actionVars
-----------------------------------------------------------------------------
(* A completed submission, message or profile update names an approval in  *)
(* state approved for the same board, type, target and artifact, although  *)
(* the approval was checked before the transaction and any number of       *)
(* decisions may have come in between.                                     *)
CompletedWasApproved ==
  \A k \in ActionKey :
    actions[k] /= NoRow /\ actions[k].state = "completed"
      /\ actions[k].shape.type \in NeedsApproval =>
      /\ actions[k].approval \in ApprovalKey
      /\ ApprovalMatches(approvals[actions[k].approval], actions[k].shape)

(* What the operator decided on an item stands: repeating the action, with *)
(* the same or with other data, does not put the item back on the list.    *)
ReviewStands ==
  [][\A k \in ActionKey :
       review[k] \in {"resolved", "rejected"} => review'[k] \in {"resolved", "rejected"}]_actionVars
=============================================================================

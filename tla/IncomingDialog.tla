---------------------------- MODULE IncomingDialog ----------------------------
(***************************************************************************)
(* The requests of other nodes to send files, and the one dialog in which  *)
(* the user decides on them and watches what he accepted                   *)
(* (features/data-transfer/DataTransferWorkspace.tsx).  The screen shows   *)
(* the last snapshot that was answered, by the poll or by a decision; the  *)
(* effects choose what the dialog is about.  Tasks are ordered by the time *)
(* of their last update, which progress changes all the time: where the    *)
(* code takes the first of several, any of them may be it.                 *)
(***************************************************************************)
EXTENDS Integers, FiniteSets

CONSTANTS Requests,         \* tasks of incoming transfers
          MaxDialogSteps,   \* bound: gestures
          MaxDecisions      \* bound: handlers waiting at a time

NoRequest == 0

VARIABLES offers,      \* the service: request -> status of its task
          receiver,    \* the screen
          poll,        \* the poll on its way
          decisions,   \* handlers that wait for an answer
          dialogSteps, \* gestures spent
          misplaced    \* ghost: a folder was chosen while the dialog moved on to another request

dialogVars == <<offers, receiver, poll, decisions, dialogSteps, misplaced>>

Statuses == {"none", "asked", "accepted", "running", "ended"}
NoTasks == [r \in Requests |-> "none"]

----------------------------------------------------------------------------
(* What is shown. *)

isIncomingApprovalTask(snap, r) == snap[r] = "asked"
isIncomingTransferProgressTask(snap, r) == snap[r] \in {"accepted", "running"}
Shows(snap, r) ==
  r # NoRequest /\ (isIncomingApprovalTask(snap, r) \/ isIncomingTransferProgressTask(snap, r))

\* another request in the dialog takes the default directory (and forgets whom one was chosen for)
DefaultDestination(v) == [v EXCEPT !.folder = "default", !.folderOf = NoRequest]

\* Slip: the directory is filled in only when there is none
OpenedWhereItWas(v) ==
  IF v.modal = NoRequest \/ v.snap[v.modal] = "none" THEN [v EXCEPT !.previous = NoRequest]
  ELSE [v EXCEPT !.previous = v.modal]
\* the effect on the request the dialog is about
Opened(v) ==
  IF v.modal = NoRequest \/ v.snap[v.modal] = "none" THEN [v EXCEPT !.previous = NoRequest]
  ELSE IF v.previous = v.modal THEN v
  ELSE IF isIncomingApprovalTask(v.snap, v.modal)
       THEN DefaultDestination([v EXCEPT !.previous = v.modal]) ELSE [v EXCEPT !.previous = v.modal]

\* Slip: the dialog stays with its request as long as the task exists
NextModalOfAnyStatus(v) ==
  LET offered == {r \in Requests \ v.dismissed : Shows(v.snap, r)}
  IN IF v.modal # NoRequest /\ v.snap[v.modal] # "none" THEN {v.modal}
     ELSE IF offered = {} THEN {NoRequest} ELSE offered
\* the effect that chooses: what is shown stays, then the first that was not dismissed
NextModal(v) ==
  LET offered == {r \in Requests \ v.dismissed : Shows(v.snap, r)}
  IN IF Shows(v.snap, v.modal) THEN {v.modal}
     ELSE IF offered = {} THEN {NoRequest} ELSE offered

\* the screen after its effects
Render(v) ==
  LET known == [v EXCEPT !.dismissed = {r \in @ : v.snap[r] # "none"}]
  IN \E m \in NextModal(known) : receiver' = Opened([known EXCEPT !.modal = m])

DialogShown == Shows(receiver.snap, receiver.modal)

----------------------------------------------------------------------------
Init ==
  /\ offers = NoTasks /\ poll = [on |-> FALSE, read |-> FALSE, snap |-> NoTasks]
  /\ receiver = [snap |-> NoTasks, modal |-> NoRequest, previous |-> NoRequest, dismissed |-> {},
                 folder |-> "default", folderOf |-> NoRequest, busy |-> FALSE]
  /\ decisions = {} /\ dialogSteps = 0 /\ misplaced = FALSE

(* The other nodes. *)
Becomes(r, from, to) ==
  /\ offers[r] \in from /\ offers' = [offers EXCEPT ![r] = to]
  /\ UNCHANGED <<receiver, poll, decisions, dialogSteps, misplaced>>
Ask(r) == Becomes(r, {"none"}, "asked")
Begin(r) == Becomes(r, {"accepted"}, "running")
End(r) == Becomes(r, {"asked", "accepted", "running"}, "ended")

(* The poll: its timer, the service, and its answer.                       *)
SendPoll ==
  /\ ~poll.on /\ poll' = [poll EXCEPT !.on = TRUE, !.read = FALSE]
  /\ UNCHANGED <<offers, receiver, decisions, dialogSteps, misplaced>>
ServePoll ==
  /\ poll.on /\ ~poll.read /\ poll' = [on |-> TRUE, read |-> TRUE, snap |-> offers]
  /\ UNCHANGED <<offers, receiver, decisions, dialogSteps, misplaced>>
PollAnswer ==
  /\ poll.on /\ poll.read /\ Render([receiver EXCEPT !.snap = poll.snap])
  /\ poll' = [on |-> FALSE, read |-> FALSE, snap |-> NoTasks]
  /\ UNCHANGED <<offers, decisions, dialogSteps, misplaced>>
PollFails ==
  /\ poll.on /\ poll.read /\ poll' = [on |-> FALSE, read |-> FALSE, snap |-> NoTasks]
  /\ UNCHANGED <<offers, receiver, decisions, dialogSteps, misplaced>>

----------------------------------------------------------------------------
(* The user.  The dialog covers the screen; its buttons wait while busy.   *)

Pressed == dialogSteps < MaxDialogSteps /\ dialogSteps' = dialogSteps + 1
Pressable == DialogShown /\ ~receiver.busy /\ Pressed

Decision(op, r) ==
  [op |-> op, request |-> r, folder |-> receiver.folder, folderOf |-> receiver.folderOf,
   stage |-> "sent", snap |-> NoTasks]
Send(c) == /\ Cardinality(decisions) < MaxDecisions /\ decisions' = decisions \cup {c}
           /\ UNCHANGED <<offers, poll, misplaced>>

handleAcceptIncomingTask ==
  /\ Pressable /\ isIncomingApprovalTask(receiver.snap, receiver.modal)
  /\ Send(Decision("accept", receiver.modal)) /\ receiver' = [receiver EXCEPT !.busy = TRUE]

\* in the dialog, or in the list of past transfers, which does not look at busy
handleRejectIncomingTask(r) ==
  /\ isIncomingApprovalTask(receiver.snap, r)
  /\ IF DialogShown THEN r = receiver.modal /\ Pressable ELSE Pressed
  /\ Send(Decision("reject", r)) /\ receiver' = [receiver EXCEPT !.busy = TRUE]

\* 取消接收: cancel, refresh, dismiss
CancelReceive ==
  /\ Pressable /\ isIncomingTransferProgressTask(receiver.snap, receiver.modal)
  /\ Send(Decision("cancel", receiver.modal)) /\ receiver' = [receiver EXCEPT !.busy = TRUE]

handleChooseIncomingDestination ==
  /\ Pressable /\ isIncomingApprovalTask(receiver.snap, receiver.modal)
  /\ Send(Decision("folder", receiver.modal)) /\ UNCHANGED receiver

Dismissed(v, r) == [v EXCEPT !.modal = IF @ = r THEN NoRequest ELSE @, !.dismissed = @ \cup {r}]
\* × and 后台运行
handleDismissIncomingTask ==
  /\ Pressable /\ Render(Dismissed(receiver, receiver.modal))
  /\ UNCHANGED <<offers, poll, decisions, misplaced>>

\* 接收文件 in the list of past transfers
handleOpenIncomingTask(r) ==
  /\ ~DialogShown /\ isIncomingApprovalTask(receiver.snap, r) /\ Pressed
  /\ Render(DefaultDestination([receiver EXCEPT !.modal = r, !.dismissed = @ \ {r}]))
  /\ UNCHANGED <<offers, poll, decisions, misplaced>>

----------------------------------------------------------------------------
(* Answers. *)

Executed(c, next) ==
  /\ offers' = next
  /\ decisions' = (decisions \ {c}) \cup {[c EXCEPT !.stage = "done", !.snap = next]}
Serve(c) ==
  /\ c.op # "folder" /\ c.stage = "sent" /\ UNCHANGED <<receiver, poll, dialogSteps, misplaced>>
  /\ \/ c.op = "accept" /\ offers[c.request] = "asked"
        /\ Executed(c, [offers EXCEPT ![c.request] = "accepted"])
     \/ c.op = "reject" /\ offers[c.request] = "asked"
        /\ Executed(c, [offers EXCEPT ![c.request] = "ended"])
     \/ c.op = "cancel" /\ Executed(c, [offers EXCEPT ![c.request] = "ended"])
     \/ c.op = "refresh" /\ Executed(c, offers)
     \/ /\ decisions' = (decisions \ {c}) \cup {[c EXCEPT !.stage = "refused"]}
        /\ UNCHANGED offers

Idle(v) == [v EXCEPT !.busy = FALSE]
Answer(c) ==
  /\ c.stage # "sent" /\ UNCHANGED <<offers, poll, dialogSteps, misplaced>>
  /\ LET took == [receiver EXCEPT !.snap = IF c.stage = "done" THEN c.snap ELSE @]
     IN \/ /\ c.op = "accept" /\ decisions' = decisions \ {c}
           /\ Render(Idle(IF c.stage = "done"
                          THEN [took EXCEPT !.modal = c.request, !.dismissed = @ \ {c.request}]
                          ELSE took))
        \/ /\ c.op = "reject" /\ decisions' = decisions \ {c}
           /\ Render(Idle(IF c.stage = "done" THEN Dismissed(took, c.request) ELSE took))
        \/ /\ c.op = "cancel" /\ c.stage = "done" /\ UNCHANGED receiver
           /\ decisions' = (decisions \ {c}) \cup {[c EXCEPT !.op = "refresh", !.stage = "sent"]}
        \/ /\ c.op = "refresh" \/ (c.op = "cancel" /\ c.stage = "refused")
           /\ decisions' = decisions \ {c} /\ Render(Idle(Dismissed(took, c.request)))

\* the system's folder dialog: the user picks one, or none, whatever the screen shows by then
FolderChosen(c) ==
  /\ c.op = "folder" /\ decisions' = decisions \ {c}
  /\ \/ /\ receiver' = [receiver EXCEPT !.folder = "chosen", !.folderOf = c.request]
        /\ misplaced' = (misplaced \/ receiver.modal # c.request)
     \/ UNCHANGED <<receiver, misplaced>>
  /\ UNCHANGED <<offers, poll, dialogSteps>>

Next ==
  \/ \E r \in Requests : \/ Ask(r) \/ Begin(r) \/ End(r)
                         \/ handleRejectIncomingTask(r) \/ handleOpenIncomingTask(r)
  \/ SendPoll \/ ServePoll \/ PollAnswer \/ PollFails
  \/ handleAcceptIncomingTask \/ CancelReceive \/ handleChooseIncomingDestination
  \/ handleDismissIncomingTask
  \/ \E c \in decisions : Serve(c) \/ Answer(c) \/ FolderChosen(c)

\* the timer goes on, requests are executed or refused, and not every poll fails
Fairness ==
  /\ WF_dialogVars(SendPoll) /\ WF_dialogVars(ServePoll) /\ SF_dialogVars(PollAnswer)
  /\ WF_dialogVars(\E c \in decisions : Serve(c) \/ Answer(c))

Spec == Init /\ [][Next]_dialogVars /\ Fairness

----------------------------------------------------------------------------
\* Type invariant: tasks have statuses the service gives, the dialog is about a task.
IncomingTypeOK ==
  /\ offers \in [Requests -> Statuses] /\ receiver.snap \in [Requests -> Statuses]
  /\ receiver.modal \in Requests \cup {NoRequest} /\ receiver.dismissed \subseteq Requests
  /\ receiver.folder = "chosen" <=> receiver.folderOf # NoRequest

\* Files are saved where the user said for this very request: a directory chosen for one
\* request is never used for another that took its place in the dialog, unless the
\* directory was picked when the other was already there.  A late answer may offer a request
\* again that is decided: only what the service has accepted or may still accept counts.
DestinationIsOfTheRequest ==
  \A c \in decisions :
    /\ c.op = "accept" /\ c.folder = "chosen" /\ ~misplaced
    /\ offers[c.request] = "asked" \/ c.stage = "done"
    => c.folderOf = c.request

\* No request waits in vain: as long as it is undecided and was not put off, it is in the
\* dialog, or the dialog is about another request or transfer that is not over either.
RequestsReachTheUser ==
  \A r \in Requests :
    []<>(\/ offers[r] # "asked" \/ r \in receiver.dismissed
         \/ DialogShown /\ Shows(offers, receiver.modal))

\* A decision is on its way.
IncomingBusy == receiver.busy
=============================================================================

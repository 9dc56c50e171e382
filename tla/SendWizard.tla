------------------------------ MODULE SendWizard ------------------------------
(***************************************************************************)
(* Sending files to other nodes from the data transfer workspace           *)
(* (features/data-transfer/DataTransferWorkspace.tsx): the wizard's three  *)
(* steps, files, nodes, state of each node, and the handlers behind its    *)
(* buttons, which do not wait for each other.  The screen keeps the id of  *)
(* the task it last started for each node; a row shows that task when the  *)
(* snapshot has it, otherwise the last updated task that sends to the node.*)
(***************************************************************************)
EXTENDS Integers, Sequences, FiniteSets

CONSTANTS Nodes,         \* other nodes of the network
          MaxSends,      \* bound: tasks the service starts
          MaxSendSteps,  \* bound: gestures
          MaxHandlers,   \* bound: handlers waiting at a time
          MaxEvents      \* bound: what the network does by itself

NoTask == 0
SendIds == 1..MaxSends

VARIABLES service,    \* nodes in sight, tasks, and their order by last update
          sender,     \* the screen
          sendPoll,   \* the poll on its way
          handlers,   \* handlers that wait for an answer
          sendSteps,  \* gestures spent
          events,     \* what the network did
          blurred     \* ghost: nodes two starts of which overlapped, or whose start failed midway

sendVars == <<service, sender, sendPoll, handlers, sendSteps, events, blurred>>

SendStatuses == {"pending", "running", "completed", "failed"} \* canceled counts as failed
Alive == {"pending", "running"}
NoSends == [online |-> Nodes, task |-> <<>>, order |-> <<>>]

----------------------------------------------------------------------------
(* What the screen shows. *)

\* tasks of the snapshot that send to a node, the last updated first
SendsTo(snap, n) == SelectSeq(snap.order, LAMBDA id : snap.task[id].node = n)
findLatestDirectSendTask(snap, n) == IF SendsTo(snap, n) = <<>> THEN NoTask ELSE SendsTo(snap, n)[1]

RowTask(v, n) ==
  IF v.task[n] \in DOMAIN v.snap.task THEN v.task[n] ELSE findLatestDirectSendTask(v.snap, n)
transferStatusNodes(v) == {n \in v.selected : n \in v.snap.online \cup v.known}

\* a snapshot that arrives takes the nodes it does not have out of the selection
applySnapshot(v, snap) == [v EXCEPT !.snap = snap, !.selected = @ \cap snap.online]
\* the effect on the files: without files the wizard starts over
Rendered(v) == IF v.files = {} THEN [v EXCEPT !.step = 1] ELSE v

----------------------------------------------------------------------------
Init ==
  /\ service = NoSends /\ sendPoll = [on |-> FALSE, snap |-> NoSends]
  /\ sender = [snap |-> NoSends, selected |-> {}, files |-> {}, step |-> 1,
               task |-> [n \in Nodes |-> NoTask], known |-> {}, busy |-> FALSE]
  /\ handlers = {} /\ sendSteps = 0 /\ events = 0
  /\ blurred = {}

(* The network and the service. *)
Event == /\ events < MaxEvents /\ events' = events + 1
         /\ UNCHANGED <<sender, sendPoll, handlers, sendSteps, blurred>>
NodeComesOrGoes(n) ==
  /\ service' = [service EXCEPT !.online = IF n \in @ THEN @ \ {n} ELSE @ \cup {n}]
  /\ Event
Updated(s, id, status) ==
  [s EXCEPT !.task[id].status = status,
            !.order = <<id>> \o SelectSeq(@, LAMBDA other : other # id)]
\* the receiver accepts or rejects, progress is made, the transfer ends
Progress(id) ==
  /\ id \in DOMAIN service.task /\ service.task[id].status \in Alive
  /\ \E status \in {"running", "completed", "failed"} : service' = Updated(service, id, status)
  /\ Event
Started(s, n) ==
  [s EXCEPT !.task = Append(@, [node |-> n, status |-> "pending"]), !.order = <<Len(s.task) + 1>> \o @]

\* the poll, when the service answers it
ServePoll ==
  /\ ~sendPoll.on /\ sendPoll' = [on |-> TRUE, snap |-> service]
  /\ UNCHANGED <<service, sender, handlers, sendSteps, events, blurred>>
PollAnswer ==
  /\ sendPoll.on /\ sendPoll' = [on |-> FALSE, snap |-> NoSends]
  /\ sender' \in {sender, Rendered(applySnapshot(sender, sendPoll.snap))}  \* a poll may fail
  /\ UNCHANGED <<service, handlers, sendSteps, events, blurred>>

----------------------------------------------------------------------------
(* The user. *)

Pressed == sendSteps < MaxSendSteps /\ sendSteps' = sendSteps + 1
Gesture(v) == /\ Pressed /\ sender' = Rendered(v)
              /\ UNCHANGED <<service, sendPoll, handlers, events, blurred>>
Handler(op, todo) ==
  [op |-> op, stage |-> "call", todo |-> todo, at |-> NoTask, sent |-> {}, snap |-> NoSends]
Targets(h) == h.todo \cup {t.node : t \in h.sent} \cup (IF h.op = "send" THEN {h.at} ELSE {})
Call(h, v) ==
  /\ Pressed /\ Cardinality(handlers) < MaxHandlers /\ h \notin handlers
  /\ handlers' = handlers \cup {h} /\ sender' = v
  /\ blurred' = blurred \cup (Targets(h) \cap UNION {Targets(g) : g \in handlers})
  /\ UNCHANGED <<service, sendPoll, events>>

toggleTransferNode(n) ==
  /\ sender.step = 2 /\ n \in sender.snap.online
  /\ Gesture([sender EXCEPT !.selected = IF n \in @ THEN @ \ {n} ELSE @ \cup {n}])
\* 发送文件 in the list of nodes
focusNodeTransfer(n) ==
  /\ n \in sender.snap.online
  /\ Gesture([sender EXCEPT !.selected = @ \cup {n}, !.step = IF sender.files # {} THEN 2 ELSE 1])
handleGoToTransferStep(step) ==
  /\ step = 2 => sender.files # {}
  /\ step = 3 => sender.selected # {}
  /\ step # sender.step /\ Gesture([sender EXCEPT !.step = step])
handleChooseTransferFiles ==
  sender.step = 1 /\ Call(Handler("files", {}), sender)
\* one file is removed, or all are
removeSelectedTransferFile ==
  sender.step = 1 /\ sender.files # {} /\ Gesture([sender EXCEPT !.files = {}])
handleRefreshDiscovery ==
  sender.step = 2 /\ Call([Handler("discover", {}) EXCEPT !.stage = "refresh"], [sender EXCEPT !.busy = TRUE])

\* one task for each selected node, in the order they are listed, one after the other
handleStartDirectSend ==
  /\ sender.step = 2 /\ sender.files # {} /\ sender.selected # {}
  /\ \E first \in sender.selected :
       Call([Handler("send", sender.selected \ {first}) EXCEPT !.at = first], [sender EXCEPT !.busy = TRUE])
handleRetryTransferNode(n) ==
  /\ sender.step = 3 /\ n \in transferStatusNodes(sender) /\ sender.files # {}
  /\ RowTask(sender, n) # NoTask => sender.snap.task[RowTask(sender, n)].status = "failed"
  /\ Call([Handler("send", {}) EXCEPT !.at = n], [sender EXCEPT !.busy = TRUE])
handleCancelTask(n) ==
  /\ sender.step = 3 /\ n \in transferStatusNodes(sender) /\ RowTask(sender, n) # NoTask
  /\ sender.snap.task[RowTask(sender, n)].status \in Alive
  /\ Call([Handler("cancel", {}) EXCEPT !.at = RowTask(sender, n)], [sender EXCEPT !.busy = TRUE])

----------------------------------------------------------------------------
(* Calls and their answers. *)

Becomes(h, g) == handlers' = (handlers \ {h}) \cup {g}
Idle(v) == Rendered([v EXCEPT !.busy = FALSE])
Refresh(h) == [h EXCEPT !.stage = "refresh", !.todo = {}, !.at = NoTask]

ServeSend(h) ==
  /\ h.op = "send" /\ h.stage = "call" /\ UNCHANGED <<sender, sendPoll, sendSteps, events, blurred>>
  /\ \/ /\ h.at \in service.online /\ Len(service.task) < MaxSends
        /\ service' = Started(service, h.at)
        /\ Becomes(h, [h EXCEPT !.stage = "done", !.sent = @ \cup {[node |-> h.at, id |-> Len(service.task) + 1]}])
     \/ Becomes(h, [h EXCEPT !.stage = "refused"]) /\ UNCHANGED service
ServeCancel(h) ==
  /\ h.op = "cancel" /\ h.stage = "call" /\ UNCHANGED <<sender, sendPoll, sendSteps, events, blurred>>
  /\ \/ /\ service' = IF service.task[h.at].status \in Alive THEN Updated(service, h.at, "failed") ELSE service
        /\ Becomes(h, Refresh(h))
     \/ Becomes(h, [h EXCEPT !.stage = "refused"]) /\ UNCHANGED service
ServeRefresh(h) ==
  /\ h.stage = "refresh" /\ Becomes(h, [h EXCEPT !.stage = "read", !.snap = service])
  /\ UNCHANGED <<service, sender, sendPoll, sendSteps, events, blurred>>

\* Slip: a node keeps the task it was first given
RecordedOnce(v, sent) ==
  [v EXCEPT !.task = [n \in Nodes |-> IF @[n] = NoTask /\ \E t \in sent : t.node = n
                                      THEN (CHOOSE t \in sent : t.node = n).id ELSE @[n]],
            !.known = @ \cup {t.node : t \in sent}, !.step = 3]
\* all were started: the screen takes their ids and the nodes they are for
Recorded(v, sent) ==
  [v EXCEPT !.task = [n \in Nodes |-> IF \E t \in sent : t.node = n
                                      THEN (CHOOSE t \in sent : t.node = n).id ELSE @[n]],
            !.known = @ \cup {t.node : t \in sent}, !.step = 3]

SendAnswer(h) ==
  /\ h.op = "send" /\ h.stage = "done" /\ UNCHANGED <<service, sendPoll, sendSteps, events, blurred>>
  /\ IF h.todo # {}
     THEN /\ \E n \in h.todo : Becomes(h, [h EXCEPT !.stage = "call", !.at = n, !.todo = @ \ {n}])
          /\ UNCHANGED sender
     ELSE Becomes(h, [Refresh(h) EXCEPT !.sent = {}]) /\ sender' = Rendered(Recorded(sender, h.sent))
\* one of them was not: the ids of those before it are forgotten
CallFails(h) ==
  /\ h.stage = "refused" /\ handlers' = handlers \ {h} /\ sender' = Idle(sender)
  /\ blurred' = blurred \cup {t.node : t \in h.sent}
  /\ UNCHANGED <<service, sendPoll, sendSteps, events>>
\* a refresh that fails is not mentioned
RefreshAnswer(h) ==
  /\ h.stage = "read" /\ handlers' = handlers \ {h}
  /\ sender' \in {Idle(sender), Idle(applySnapshot(sender, h.snap))}
  /\ UNCHANGED <<service, sendPoll, sendSteps, events, blurred>>
\* the system's file dialog, and the sizes of what was picked
FilesAnswer(h) ==
  /\ h.op = "files" /\ handlers' = handlers \ {h}
  /\ sender' \in {sender, Rendered([sender EXCEPT !.files = {"file"}])}
  /\ UNCHANGED <<service, sendPoll, sendSteps, events, blurred>>

Answers(h) == \/ ServeSend(h) \/ ServeCancel(h) \/ ServeRefresh(h)
              \/ SendAnswer(h) \/ CallFails(h) \/ RefreshAnswer(h)

Next ==
  \/ \E n \in Nodes : \/ NodeComesOrGoes(n) \/ toggleTransferNode(n) \/ focusNodeTransfer(n)
                      \/ handleRetryTransferNode(n) \/ handleCancelTask(n)
  \/ \E id \in SendIds : Progress(id)
  \/ \E step \in 1..3 : handleGoToTransferStep(step)
  \/ handleChooseTransferFiles \/ removeSelectedTransferFile
  \/ handleRefreshDiscovery \/ handleStartDirectSend
  \/ ServePoll \/ PollAnswer
  \/ \E h \in handlers : Answers(h) \/ FilesAnswer(h)

\* requests are executed or refused, and answers are handled
Fairness == WF_sendVars(\E h \in handlers : Answers(h))

Spec == Init /\ [][Next]_sendVars /\ Fairness

----------------------------------------------------------------------------
\* Type invariant: rows name tasks of the service, and the step goes with the files.
SendTypeOK ==
  /\ service.online \subseteq Nodes /\ Len(service.task) <= MaxSends
  /\ \A id \in DOMAIN service.task : service.task[id].status \in SendStatuses
  /\ sender.selected \subseteq sender.snap.online /\ sender.known \subseteq Nodes
  /\ \A n \in Nodes : sender.task[n] \in DOMAIN service.task \cup {NoTask}
  /\ sender.step \in 1..3 /\ (sender.files = {} => sender.step = 1)

\* The state, the cancel button and the retry button of a node are those of the last task
\* the service started for it, as soon as the snapshot has that task, whatever order snapshots,
\* answers and progress come in; nodes two starts of which overlapped, or whose start broke
\* off before all nodes had theirs, are left out.
LastStarted(n, id) ==
  /\ id \in DOMAIN service.task /\ service.task[id].node = n
  /\ \A other \in DOMAIN service.task : service.task[other].node = n => other <= id
RowShowsTheNewestSend ==
  \A n \in transferStatusNodes(sender) \ (blurred \cup UNION {Targets(h) : h \in handlers}) :
    \A id \in DOMAIN sender.snap.task : LastStarted(n, id) => RowTask(sender, n) = id

\* A handler of the wizard is under way.
SendBusy == sender.busy
=============================================================================

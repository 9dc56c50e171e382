------------------------- MODULE CompareTasks_proofs -------------------------
(***************************************************************************)
(* Theorems about CompareTasks, for any number of tasks and tables and any *)
(* limits.  TaskInv is inductive: an entry's status says at any time what  *)
(* its task and its flow can still do, so pruning (which only drops        *)
(* entries with a finished_at) and taking (which only follows a terminal   *)
(* status) never meet a task that still runs.                              *)
(***************************************************************************)
EXTENDS CompareTasks, FiniteSetTheorems, TLAPS

LEMMA InitTaskInv == Init => TaskInv
BY DEF Init, TaskInv, TypeOK, EntryInv, RunningTaskKept, ReceivesOutcome,
       Alive, Terminal, Phases, Tasks

(* A registration keeps every entry that is not finished.                  *)
LEMMA StartTaskKeepsInv ==
    ASSUME TaskInv, NEW id \in Tasks, StartTask(id)
    PROVE  TaskInv'
<1> USE DEF Terminal
<1>1. PICK kept \in SUBSET Present :
         /\ Pruned(kept, Registry(id))
         /\ status' = [i \in Tasks |-> IF i = id THEN "pending"
                                       ELSE IF i \in kept THEN status[i] ELSE "absent"]
         /\ finishedAt' = [i \in Tasks |-> IF i \in kept THEN finishedAt[i] ELSE 0]
    BY DEF StartTask
<1>2. /\ flow[id] = "none" /\ status[id] = "absent" /\ id \notin kept
      /\ runner' = [runner EXCEPT ![id] = "spawned"]
      /\ flow' = [flow EXCEPT ![id] = "polling"]
      /\ UNCHANGED <<clock, flag, outcome, phase, woken, cancelling, received>>
    BY <1>1 DEF StartTask, TaskInv, EntryInv, TypeOK, Present
<1>3. \A i \in Present \ kept : finishedAt[i] > 0
    BY <1>1 DEF Pruned, Droppable, Finished
<1>4. TypeOK'
    BY <1>1, <1>2 DEF TaskInv, TypeOK, Present
<1>5. EntryInv'
    BY <1>1, <1>2 DEF TaskInv, TypeOK, EntryInv
<1>6. RunningTaskKept'
    BY <1>1, <1>2, <1>3 DEF TaskInv, TypeOK, EntryInv, RunningTaskKept, Alive, Present
<1>7. ReceivesOutcome'
    BY <1>1, <1>2 DEF TaskInv, TypeOK, EntryInv, ReceivesOutcome
<1> QED BY <1>4, <1>5, <1>6, <1>7 DEF TaskInv

(* The end of a running task reaches its entry.                            *)
LEMMA EndTaskKeepsInv ==
    ASSUME TaskInv, NEW id \in Tasks, NEW how \in Terminal, Alive(id),
           EndTask(id, how), UNCHANGED <<flag, woken, cancelling, window>>
    PROVE  TaskInv'
<1> USE DEF Terminal
<1>1. id \in Present
    BY DEF TaskInv, RunningTaskKept, Present
<1>2. /\ runner' = [runner EXCEPT ![id] = "ended"]
      /\ outcome' = [outcome EXCEPT ![id] = how]
      /\ status' = [status EXCEPT ![id] = how]
      /\ finishedAt' = [finishedAt EXCEPT ![id] = clock + 1]
      /\ clock' = clock + 1
      /\ UNCHANGED <<flag, phase, woken, cancelling, flow, received>>
    BY <1>1 DEF EndTask, FinishEntry, window
<1>3. TypeOK'
    BY <1>2 DEF TaskInv, TypeOK
<1>4. EntryInv'
    BY <1>2 DEF TaskInv, TypeOK, EntryInv, Alive
<1>5. RunningTaskKept'
    BY <1>2 DEF TaskInv, TypeOK, RunningTaskKept, Alive
<1>6. ReceivesOutcome'
    BY <1>2 DEF TaskInv, TypeOK, EntryInv, ReceivesOutcome, Alive
<1> QED BY <1>3, <1>4, <1>5, <1>6 DEF TaskInv

(* Every other step of a running task: it moves on, its tables move on,    *)
(* and its entry is left alone or reported as running.                     *)
LEMMA MoveKeepsInv ==
    ASSUME TaskInv, NEW id \in Tasks, Alive(id),
           NEW to \in {"listing", "comparing", "reported", "selecting"},
           runner' \in {runner, [runner EXCEPT ![id] = to]},
           phase' \in [DataTasks -> [Tables -> Phases]],
           ReportProgress(id) \/ UNCHANGED registry,
           UNCHANGED <<outcome, flag, woken, cancelling, window>>
    PROVE  TaskInv'
<1> USE DEF Terminal
<1>1. /\ status[id] \in {"pending", "running"} /\ finishedAt[id] = 0
      /\ flow[id] # "taking"
    BY DEF TaskInv, TypeOK, RunningTaskKept, EntryInv, Alive
<1>2. /\ status' \in {status, [status EXCEPT ![id] = "running"]}
      /\ UNCHANGED <<finishedAt, clock>>
    <2>1. CASE ReportProgress(id)
        BY <2>1, <1>1 DEF ReportProgress, Present, TaskInv, TypeOK
    <2>2. CASE UNCHANGED registry
        BY <2>2 DEF registry
    <2> QED BY <2>1, <2>2
<1>3. UNCHANGED <<outcome, flag, woken, cancelling, flow, received>>
    BY DEF window
<1>4. TypeOK'
    BY <1>2, <1>3 DEF TaskInv, TypeOK
<1>5. EntryInv'
    BY <1>1, <1>2, <1>3 DEF TaskInv, TypeOK, EntryInv, Alive
<1>6. RunningTaskKept'
    BY <1>1, <1>2, <1>3 DEF TaskInv, TypeOK, RunningTaskKept, Alive
<1>7. ReceivesOutcome'
    BY <1>1, <1>2, <1>3 DEF TaskInv, TypeOK, EntryInv, ReceivesOutcome, Alive
<1> QED BY <1>4, <1>5, <1>6, <1>7 DEF TaskInv

LEMMA RunKeepsInv ==
    ASSUME TaskInv, NEW id \in Tasks, Run(id)
    PROVE  TaskInv'
<1> USE DEF Terminal
<1> DEFINE Others == UNCHANGED <<flag, woken, cancelling, window>>
           Typed == phase' \in [DataTasks -> [Tables -> Phases]]
           Same == phase' = phase
<1>0. /\ Others /\ phase \in [DataTasks -> [Tables -> Phases]]
      /\ runner \in [Tasks -> {"none", "spawned", "listing", "comparing",
                               "reported", "selecting", "ended"}]
    BY DEF Run, TaskInv, TypeOK
<1>1. CASE id \in DataTasks /\ DataStarts(id)
    <2>1. Alive(id)
        BY <1>1, <1>0 DEF DataStarts, Alive
    <2>2. CASE EndTask(id, "canceled")
        BY <2>1, <2>2, <1>0, EndTaskKeepsInv
    <2>3. CASE ~EndTask(id, "canceled")
        <3>1. /\ runner' = [runner EXCEPT ![id] = "listing"]
              /\ UNCHANGED registry /\ UNCHANGED outcome /\ Same
            BY <1>1, <2>3 DEF DataStarts, CheckCancellation
        <3> QED BY <3>1, <2>1, <1>0, MoveKeepsInv
    <2> QED BY <2>2, <2>3
<1>2. CASE id \in DataTasks /\ DataLists(id)
    <2>1. Alive(id)
        BY <1>2, <1>0 DEF DataLists, Alive
    <2>2. CASE EndTask(id, "failed") \/ EndTask(id, "canceled")
        BY <2>1, <2>2, <1>0, EndTaskKeepsInv
    <2>3. CASE ~(EndTask(id, "failed") \/ EndTask(id, "canceled"))
        <3>1. /\ \E found \in SUBSET Tables :
                    phase' = [phase EXCEPT ![id] =
                               [t \in Tables |-> IF t \in found THEN "todo" ELSE "none"]]
              /\ runner' = [runner EXCEPT ![id] = "comparing"]
              /\ ReportProgress(id) /\ UNCHANGED outcome
            BY <1>2, <2>3 DEF DataLists, CheckCancellation
        <3>2. Typed
            BY <3>1, <1>0, <1>2 DEF Phases
        <3> QED BY <3>1, <3>2, <2>1, <1>0, MoveKeepsInv
    <2> QED BY <2>2, <2>3
<1>3. CASE id \in DataTasks /\ \E t \in Tables : TableStarts(id, t) \/ TablePlans(id, t)
    <2>1. PICK t \in Tables : TableStarts(id, t) \/ TablePlans(id, t)
        BY <1>3
    <2>2. Alive(id)
        BY <2>1, <1>0 DEF TableStarts, TablePlans, Alive
    <2>3. CASE EndTask(id, "failed") \/ EndTask(id, "canceled")
        BY <2>2, <2>3, <1>0, EndTaskKeepsInv
    <2>4. CASE ~(EndTask(id, "failed") \/ EndTask(id, "canceled"))
        <3>1. MoveTable(id, t, "planning") \/ MoveTable(id, t, "scanning")
            BY <2>1, <2>4 DEF TableStarts, TablePlans, CheckCancellation
        <3>2. Typed
            BY <3>1, <1>0, <1>3, <2>1 DEF MoveTable, Phases
        <3>3. runner' = runner /\ UNCHANGED registry /\ UNCHANGED outcome
            BY <3>1 DEF MoveTable
        <3> QED BY <3>2, <3>3, <2>2, <1>0, MoveKeepsInv
    <2> QED BY <2>3, <2>4
<1>4. CASE id \in DataTasks /\ \E t \in Tables : TableScans(id, t)
    <2>1. PICK t \in Tables : TableScans(id, t)
        BY <1>4
    <2>2. Alive(id)
        BY <2>1, <1>0 DEF TableScans, Alive
    <2>3. CASE EndTask(id, "failed") \/ EndTask(id, "canceled")
        BY <2>2, <2>3, <1>0, EndTaskKeepsInv
    <2>4. CASE ~(EndTask(id, "failed") \/ EndTask(id, "canceled"))
        <3>1. /\ phase' = [phase EXCEPT ![id][t] = "done"]
              /\ ReportProgress(id) /\ runner' = runner /\ UNCHANGED outcome
            BY <2>1, <2>4 DEF TableScans
        <3>2. Typed
            BY <3>1, <1>0, <1>4, <2>1 DEF Phases
        <3> QED BY <3>1, <3>2, <2>2, <1>0, MoveKeepsInv
    <2> QED BY <2>3, <2>4
<1>5. CASE id \in DataTasks /\ DataCompletes(id)
    <2>1. Alive(id) /\ EndTask(id, "completed")
        BY <1>5, <1>0 DEF DataCompletes, Alive
    <2> QED BY <2>1, <1>0, EndTaskKeepsInv
<1>6. CASE StructureStarts(id)
    <2>1. Alive(id)
        BY <1>6, <1>0 DEF StructureStarts, Alive
    <2>2. /\ runner' = [runner EXCEPT ![id] = "reported"]
          /\ ReportProgress(id) /\ UNCHANGED outcome /\ Same
        BY <1>6 DEF StructureStarts
    <2> QED BY <2>1, <2>2, <1>0, MoveKeepsInv
<1>7. CASE StructureSelects(id)
    <2>1. Alive(id)
        BY <1>7, <1>0 DEF StructureSelects, Alive
    <2>2. /\ runner' = [runner EXCEPT ![id] = "selecting"]
          /\ UNCHANGED registry /\ UNCHANGED outcome /\ Same
        BY <1>7 DEF StructureSelects
    <2> QED BY <2>1, <2>2, <1>0, MoveKeepsInv
<1>8. CASE StructureEnds(id)
    <2>1. Alive(id)
        BY <1>8, <1>0 DEF StructureEnds, Alive
    <2>2. \E how \in Terminal : EndTask(id, how)
        BY <1>8 DEF StructureEnds
    <2> QED BY <2>1, <2>2, <1>0, EndTaskKeepsInv
<1> QED BY <1>1, <1>2, <1>3, <1>4, <1>5, <1>6, <1>7, <1>8
        DEF Run, RunData, RunStructure

(* Cancelling touches no entry, task or flow.                              *)
LEMMA CancelKeepsInv ==
    ASSUME TaskInv, NEW id \in Tasks, RequestCancel(id) \/ NotifyWaiters(id)
    PROVE  TaskInv'
<1>1. /\ flag' \in {flag, [flag EXCEPT ![id] = TRUE]}
      /\ cancelling' \in {[cancelling EXCEPT ![id] = TRUE], [cancelling EXCEPT ![id] = FALSE]}
      /\ \E b \in BOOLEAN : woken' \in {woken, [woken EXCEPT ![id] = b]}
      /\ UNCHANGED <<status, finishedAt, clock, runner, outcome, phase, flow, received>>
    <2>1. CASE RequestCancel(id)
        BY <2>1 DEF RequestCancel, registry, running, window
    <2>2. CASE NotifyWaiters(id)
        <3>1. (woken[id] \/ (id \in Present /\ runner[id] = "selecting")) \in BOOLEAN
            BY Zenon DEF TaskInv, TypeOK
        <3> QED BY <2>2, <3>1 DEF NotifyWaiters, registry, running, window
    <2> QED BY <2>1, <2>2
<1>2. TypeOK'
    BY <1>1 DEF TaskInv, TypeOK
<1>3. EntryInv' /\ RunningTaskKept' /\ ReceivesOutcome'
    BY <1>1 DEF TaskInv, EntryInv, RunningTaskKept, ReceivesOutcome, Alive
<1> QED BY <1>2, <1>3 DEF TaskInv

(* The window looks at an entry, and takes it once it has seen it end.     *)
LEMMA FlowKeepsInv ==
    ASSUME TaskInv, NEW id \in Tasks, Poll(id) \/ TakeResult(id)
    PROVE  TaskInv'
<1> USE DEF Terminal
<1>1. CASE Poll(id)
    <2>1. /\ flow[id] \in {"polling", "shown"}
          /\ UNCHANGED <<status, finishedAt, clock, flag, runner, outcome, phase,
                         woken, cancelling>>
        BY <1>1 DEF Poll, registry, running
    <2>2. CASE id \notin Present
        <3>1. /\ flow' = [flow EXCEPT ![id] = "ended"]
              /\ received' = [received EXCEPT ![id] = "lost"]
            BY <1>1, <2>2 DEF Poll
        <3>2. runner[id] = "ended"
            BY <2>1, <2>2 DEF TaskInv, TypeOK, EntryInv, RunningTaskKept, Alive, Present
        <3> QED BY <2>1, <3>1, <3>2 DEF TaskInv, TypeOK, EntryInv, RunningTaskKept,
                                        ReceivesOutcome, Alive
    <2>3. CASE id \in Present
        <3>1. /\ flow' = [flow EXCEPT ![id] =
                             IF EndsPolling(status[id]) THEN "taking" ELSE "shown"]
              /\ received' = received
            BY <1>1, <2>3 DEF Poll
        <3> QED BY <2>1, <3>1 DEF TaskInv, TypeOK, EntryInv, RunningTaskKept,
                                  ReceivesOutcome, Alive, EndsPolling
    <2> QED BY <2>2, <2>3
<1>2. CASE TakeResult(id)
    <2>1. /\ flow[id] = "taking"
          /\ flow' = [flow EXCEPT ![id] = "ended"]
          /\ status' = [status EXCEPT ![id] = "absent"]
          /\ finishedAt' = [finishedAt EXCEPT ![id] = 0]
          /\ received' = [received EXCEPT ![id] =
                             IF id \in Present THEN status[id] ELSE "lost"]
          /\ UNCHANGED <<clock, flag, runner, outcome, phase, woken, cancelling>>
        BY <1>2 DEF TakeResult, running
    <2>2. /\ runner[id] = "ended"
          /\ id \in Present => status[id] \in Terminal /\ outcome[id] = status[id]
        BY <2>1 DEF TaskInv, TypeOK, EntryInv, Present
    <2> QED BY <2>1, <2>2 DEF TaskInv, TypeOK, EntryInv, RunningTaskKept,
                              ReceivesOutcome, Alive
<1> QED BY <1>1, <1>2

LEMMA NextKeepsInv == TaskInv /\ [Next]_vars => TaskInv'
<1> SUFFICES ASSUME TaskInv, [Next]_vars PROVE TaskInv'
    OBVIOUS
<1>1. CASE Next
    <2>1. PICK id \in Tasks : \/ StartTask(id) \/ Run(id)
                              \/ RequestCancel(id) \/ NotifyWaiters(id)
                              \/ Poll(id) \/ TakeResult(id)
        BY <1>1 DEF Next
    <2> QED BY <2>1, StartTaskKeepsInv, RunKeepsInv, CancelKeepsInv, FlowKeepsInv
<1>2. CASE UNCHANGED vars
    BY <1>2 DEF vars, registry, running, window, TaskInv, TypeOK, EntryInv,
                RunningTaskKept, ReceivesOutcome, Alive
<1> QED BY <1>1, <1>2

(* The registry, the tasks and the flows agree about every id.             *)
THEOREM TaskInvariant == Spec => []TaskInv
BY InitTaskInv, NextKeepsInv, PTL DEF Spec

(* Pruning and taking never remove the entry of a task that still runs,    *)
(* however many tasks there are and however small the limit.               *)
THEOREM RunningTasksKept == Spec => []RunningTaskKept
<1>1. TaskInv => RunningTaskKept
    BY DEF TaskInv
<1> QED BY <1>1, TaskInvariant, PTL

(* No flow is handed anything but the outcome of its own task.             *)
THEOREM FlowsReceiveOutcomes == Spec => []ReceivesOutcome
<1>1. TaskInv => ReceivesOutcome
    BY DEF TaskInv
<1> QED BY <1>1, TaskInvariant, PTL

-----------------------------------------------------------------------------
(* What a step may do to a data comparison whose flag is set.              *)
Stops(id) ==
    flag[id] =>
      /\ runner[id] \in {"spawned", "listing"} => runner'[id] # "comparing"
      /\ \A t \in Tables : phase[id][t] \in {"todo", "planning"} =>
                           phase'[id][t] \notin {"scanning", "done"}

(* A comparison whose tables and runner a step leaves alone stops.         *)
LEMMA UntouchedStops ==
    ASSUME NEW id \in DataTasks, phase'[id] = phase[id],
           runner'[id] = runner[id] \/ runner'[id] # "comparing"
    PROVE  Stops(id)
BY DEF Stops

LEMMA RunStops ==
    ASSUME TaskInv, NEW id \in DataTasks, RunData(id)
    PROVE  Stops(id)
<1>0. /\ phase \in [DataTasks -> [Tables -> Phases]]
      /\ runner \in [Tasks -> {"none", "spawned", "listing", "comparing",
                               "reported", "selecting", "ended"}]
      /\ id \in Tasks
    BY DEF TaskInv, TypeOK, Tasks
<1>1. CASE \E how \in Terminal : EndTask(id, how)
    <2>1. phase' = phase /\ runner'[id] = "ended"
        BY <1>1, <1>0 DEF EndTask
    <2> QED BY <2>1, UntouchedStops
<1>2. CASE ~\E how \in Terminal : EndTask(id, how)
    <2>1. /\ ~EndTask(id, "canceled") /\ ~EndTask(id, "failed")
          /\ ~EndTask(id, "completed")
        BY <1>2 DEF Terminal
    <2>2. CASE DataStarts(id)
        <3>1. phase' = phase /\ runner'[id] = "listing"
            BY <2>1, <2>2, <1>0 DEF DataStarts, CheckCancellation
        <3> QED BY <3>1, UntouchedStops
    <2>3. CASE DataLists(id)
        BY <2>1, <2>3 DEF DataLists, CheckCancellation, Stops
    <2>4. CASE \E t \in Tables : TableStarts(id, t) \/ TablePlans(id, t)
        BY <2>1, <2>4 DEF TableStarts, TablePlans, CheckCancellation, Stops
    <2>5. CASE \E t \in Tables : TableScans(id, t)
        <3>1. PICK t \in Tables : /\ phase[id][t] = "scanning"
                                  /\ phase' = [phase EXCEPT ![id][t] = "done"]
                                  /\ runner' = runner
            BY <2>1, <2>5 DEF TableScans
        <3>2. \A u \in Tables : u # t => phase'[id][u] = phase[id][u]
            BY <3>1, <1>0
        <3>3. \A u \in Tables : phase[id][u] \in {"todo", "planning"} =>
                                phase'[id][u] \notin {"scanning", "done"}
            BY <3>1, <3>2
        <3> QED BY <3>1, <3>3 DEF Stops
    <2> QED BY <2>1, <2>2, <2>3, <2>4, <2>5 DEF RunData, DataCompletes
<1> QED BY <1>1, <1>2

(* A step of one task touches no table and no runner of another.           *)
LEMMA RunIsLocal ==
    ASSUME TaskInv, NEW other \in Tasks, Run(other),
           NEW id \in DataTasks, id # other
    PROVE  phase'[id] = phase[id] /\ runner'[id] = runner[id]
<1>0. /\ phase \in [DataTasks -> [Tables -> Phases]]
      /\ runner \in [Tasks -> {"none", "spawned", "listing", "comparing",
                               "reported", "selecting", "ended"}]
      /\ id \in Tasks
    BY DEF TaskInv, TypeOK, Tasks
<1>1. CASE \E how \in Terminal : EndTask(other, how)
    BY <1>1, <1>0 DEF EndTask
<1>2. CASE ~\E how \in Terminal : EndTask(other, how)
    <2>1. /\ ~EndTask(other, "canceled") /\ ~EndTask(other, "failed")
          /\ ~EndTask(other, "completed")
        BY <1>2 DEF Terminal
    <2>2. CASE other \in DataTasks /\ RunData(other)
        <3>1. CASE DataStarts(other)
            BY <2>1, <3>1, <1>0 DEF DataStarts, CheckCancellation
        <3>2. CASE DataLists(other)
            BY <2>1, <3>2, <1>0 DEF DataLists, CheckCancellation
        <3>3. CASE \E t \in Tables : TableStarts(other, t) \/ TablePlans(other, t)
            BY <2>1, <3>3, <1>0 DEF TableStarts, TablePlans, CheckCancellation, MoveTable
        <3>4. CASE \E t \in Tables : TableScans(other, t)
            BY <2>1, <3>4, <1>0 DEF TableScans
        <3> QED BY <2>1, <2>2, <3>1, <3>2, <3>3, <3>4 DEF RunData, DataCompletes
    <2>3. CASE RunStructure(other)
        BY <2>1, <2>3, <1>0
           DEF RunStructure, StructureStarts, StructureSelects, StructureEnds
    <2> QED BY <2>2, <2>3 DEF Run
<1> QED BY <1>1, <1>2

(* From the moment a cancel is accepted, no further table of that data     *)
(* comparison is scanned.                                                  *)
THEOREM CancelStopsDataCompare == Spec => CancelStopsTables
<1>1. TaskInv /\ [Next]_vars => [\A id \in DataTasks : Stops(id)]_vars
    <2> SUFFICES ASSUME TaskInv, Next, NEW id \in DataTasks PROVE Stops(id)
        OBVIOUS
    <2>1. PICK other \in Tasks : \/ StartTask(other) \/ Run(other)
                                 \/ RequestCancel(other) \/ NotifyWaiters(other)
                                 \/ Poll(other) \/ TakeResult(other)
        BY DEF Next
    <2>2. CASE StartTask(other)
        BY <2>2, UntouchedStops DEF StartTask, TaskInv, TypeOK, Tasks
    <2>3. CASE Run(other)
        <3>1. CASE other = id
            BY <2>3, <3>1, RunStops, KindsAssumption DEF Run
        <3>2. CASE other # id
            BY <2>3, <3>2, RunIsLocal, UntouchedStops
        <3> QED BY <3>1, <3>2
    <2>4. CASE \/ RequestCancel(other) \/ NotifyWaiters(other)
               \/ Poll(other) \/ TakeResult(other)
        BY <2>4, UntouchedStops
           DEF RequestCancel, NotifyWaiters, Poll, TakeResult, running
    <2> QED BY <2>1, <2>2, <2>3, <2>4
<1>2. [][\A id \in DataTasks : Stops(id)]_vars => CancelStopsTables
    BY DEF CancelStopsTables, Stops
<1> QED BY <1>1, <1>2, TaskInvariant, PTL DEF Spec

-----------------------------------------------------------------------------
(* Retention.                                                              *)

(* There are finitely many entries at a time, whatever Tasks is.           *)
LEMMA PresentStaysFinite ==
    TaskInv /\ IsFiniteSet(Present) /\ [Next]_vars => IsFiniteSet(Present)'
<1> SUFFICES ASSUME TaskInv, IsFiniteSet(Present), [Next]_vars PROVE IsFiniteSet(Present')
    OBVIOUS
<1>1. ASSUME NEW id \in Tasks, StartTask(id) PROVE Present' \subseteq Present \cup {id}
    BY <1>1 DEF StartTask, Present
<1>2. ASSUME NEW id \in Tasks, Run(id) \/ TakeResult(id) PROVE Present' \subseteq Present
    <2>1. CASE TakeResult(id)
        BY <2>1 DEF TakeResult, Present, TaskInv, TypeOK
    <2>2. CASE Run(id)
        BY <2>2 DEF Run, RunData, RunStructure, DataStarts, DataLists, DataCompletes,
           TableStarts, TablePlans, TableScans, StructureStarts, StructureSelects, StructureEnds,
           CheckCancellation, EndTask, FinishEntry, ReportProgress, MoveTable, registry,
           Present, TaskInv, TypeOK
    <2> QED BY <1>2, <2>1, <2>2
<1>3. ASSUME NEW id \in Tasks,
             RequestCancel(id) \/ NotifyWaiters(id) \/ Poll(id)
      PROVE  Present' = Present
    BY <1>3 DEF RequestCancel, NotifyWaiters, Poll, vars, registry, Present
<1>4. CASE UNCHANGED vars
    <2>1. Present' = Present
        BY <1>4 DEF vars, registry, Present
    <2> QED BY <2>1
<1>5. ASSUME NEW id \in Tasks, Present' \subseteq Present \cup {id} PROVE IsFiniteSet(Present')
    <2>1. IsFiniteSet(Present \cup {id})
        BY FS_AddElement
    <2> QED BY <1>5, <2>1, FS_Subset
<1>6. CASE Next
    <2>1. PICK id \in Tasks : \/ StartTask(id) \/ Run(id) \/ RequestCancel(id)
                              \/ NotifyWaiters(id) \/ Poll(id) \/ TakeResult(id)
        BY <1>6 DEF Next
    <2>2. Present' \subseteq Present \cup {id}
        BY <1>1, <1>2, <1>3, <2>1
    <2> QED BY <1>5, <2>2
<1> QED BY <1>4, <1>6

(* What is left of a finite set is counted.                                *)
LEMMA RemainingCount ==
    ASSUME NEW S, IsFiniteSet(S), NEW D \in SUBSET S
    PROVE  /\ IsFiniteSet(S \ D) /\ Cardinality(S) \in Nat /\ Cardinality(D) \in Nat
           /\ Cardinality(S \ D) = Cardinality(S) - Cardinality(D)
<1>1. S \cap D = D
    OBVIOUS
<1>2. IsFiniteSet(D)
    BY FS_Subset
<1> QED BY <1>1, <1>2, FS_CardinalityType, FS_Difference

(* A registration makes room, or drops all that it may drop.               *)
LEMMA RegistrationMakesRoom ==
    ASSUME TaskInv, IsFiniteSet(Present), NEW id \in Tasks, StartTask(id)
    PROVE  \/ Cardinality(Present' \cap Registry(id)) <= MaxRetained + 1
           \/ Finished' \cap Registry(id) = {}
<1> DEFINE ids == Registry(id)
<1>1. PICK kept \in SUBSET Present :
         /\ Pruned(kept, ids)
         /\ status' = [i \in Tasks |-> IF i = id THEN "pending"
                                       ELSE IF i \in kept THEN status[i] ELSE "absent"]
         /\ finishedAt' = [i \in Tasks |-> IF i \in kept THEN finishedAt[i] ELSE 0]
    BY DEF StartTask
<1>2. PICK cut \in 0..clock :
         LET fresh == (Present \cap ids) \ {i \in Finished : finishedAt[i] <= cut}
             dropped == fresh \ kept
         IN /\ kept \cap ids \subseteq fresh
            /\ dropped \subseteq Droppable(fresh)
            /\ IF Overflow(fresh) <= 0 THEN dropped = {}
               ELSE \/ dropped = Droppable(fresh) /\ Cardinality(dropped) <= Overflow(fresh)
                    \/ Cardinality(dropped) = Overflow(fresh)
    BY <1>1 DEF Pruned
<1> DEFINE fresh == (Present \cap ids) \ {i \in Finished : finishedAt[i] <= cut}
           dropped == fresh \ kept
<1>3. Present' \cap ids \subseteq (fresh \ dropped) \cup {id}
    BY <1>1, <1>2 DEF Present
<1>4. fresh \subseteq Present /\ dropped \subseteq fresh
    OBVIOUS
<1>5. /\ IsFiniteSet(fresh) /\ IsFiniteSet(fresh \ dropped)
      /\ Cardinality(fresh) \in Nat /\ Cardinality(dropped) \in Nat
      /\ Cardinality(fresh \ dropped) = Cardinality(fresh) - Cardinality(dropped)
    BY <1>4, FS_Subset, RemainingCount
<1>6. ASSUME Cardinality(fresh \ dropped) <= MaxRetained
      PROVE  Cardinality(Present' \cap ids) <= MaxRetained + 1
    <2> DEFINE left == fresh \ dropped
    <2> HIDE DEF left
    <2>0. IsFiniteSet(left) /\ Cardinality(left) \in Nat
        BY <1>5, FS_CardinalityType DEF left
    <2>1. /\ IsFiniteSet((fresh \ dropped) \cup {id})
          /\ Cardinality((fresh \ dropped) \cup {id}) <= Cardinality(fresh \ dropped) + 1
        <3>1. /\ IsFiniteSet(left \cup {id})
              /\ Cardinality(left \cup {id}) \in {Cardinality(left), Cardinality(left) + 1}
            BY <2>0, FS_AddElement
        <3> QED BY <2>0, <3>1 DEF left
    <2>2. Cardinality(Present' \cap ids) <= Cardinality((fresh \ dropped) \cup {id})
        BY <1>3, <2>1, FS_Subset
    <2>3. /\ Cardinality(Present' \cap ids) \in Nat
          /\ Cardinality((fresh \ dropped) \cup {id}) \in Nat
        BY <1>3, <2>1, FS_Subset, FS_CardinalityType
    <2> QED BY <1>5, <1>6, <2>1, <2>2, <2>3, LimitsAssumption
<1>7. ASSUME dropped = Droppable(fresh)
      PROVE  Finished' \cap ids = {}
    BY <1>1, <1>2, <1>7 DEF Finished, Droppable, Present
<1>8. dropped = Droppable(fresh) \/ Cardinality(fresh \ dropped) <= MaxRetained
    <2>1. CASE Overflow(fresh) <= 0
        <3>1. fresh \ dropped = fresh
            BY <1>2, <2>1
        <3> QED BY <1>5, <2>1, <3>1, LimitsAssumption DEF Overflow
    <2>2. CASE Cardinality(dropped) = Overflow(fresh)
        BY <1>5, <2>2, LimitsAssumption DEF Overflow
    <2> QED BY <1>2, <2>1, <2>2
<1> QED BY <1>6, <1>7, <1>8

(* However many tasks are started and never fetched, a registration leaves *)
(* at most MaxRetained other entries, unless none of them has finished     *)
(* (RetentionBound).                                                       *)
THEOREM RegistrationsAreBounded == Spec => RetentionBound
<1> DEFINE Bounded == \A id \in Tasks : flow[id] = "none" /\ flow'[id] = "polling" =>
                        \/ Cardinality(Present' \cap Registry(id)) <= MaxRetained + 1
                        \/ Finished' \cap Registry(id) = {}
<1>1. Init => IsFiniteSet(Present)
    <2>1. Init => Present = {}
        BY DEF Init, Present
    <2> QED BY <2>1, FS_EmptySet
<1>2. Spec => [](TaskInv /\ IsFiniteSet(Present))
    BY <1>1, InitTaskInv, NextKeepsInv, PresentStaysFinite, PTL DEF Spec
<1>3. TaskInv /\ IsFiniteSet(Present) /\ [Next]_vars => [Bounded]_vars
    <2> SUFFICES ASSUME TaskInv, IsFiniteSet(Present), Next,
                        NEW id \in Tasks, flow[id] = "none", flow'[id] = "polling"
                 PROVE  \/ Cardinality(Present' \cap Registry(id)) <= MaxRetained + 1
                        \/ Finished' \cap Registry(id) = {}
        OBVIOUS
    <2>1. \E other \in Tasks : StartTask(other)
        BY DEF Next, Run, RequestCancel, NotifyWaiters, Poll, TakeResult, window, TaskInv, TypeOK
    <2>2. StartTask(id)
        <3>1. PICK other \in Tasks : StartTask(other)
            BY <2>1
        <3>2. flow' = [flow EXCEPT ![other] = "polling"]
            BY <3>1 DEF StartTask
        <3> QED BY <3>1, <3>2 DEF TaskInv, TypeOK
    <2> QED BY <2>2, RegistrationMakesRoom
<1> QED BY <1>2, <1>3, PTL DEF Spec, RetentionBound
=============================================================================

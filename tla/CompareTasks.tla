---------------------------- MODULE CompareTasks ----------------------------
(***************************************************************************)
(* Long-running comparisons: the registries of compare_task_manager.rs, the *)
(* background tasks that commands.rs spawns for data and for structure     *)
(* comparisons, and the flows of the window that start a task, poll it     *)
(* (taskRuntime.ts) and may cancel it.                                     *)
(*                                                                         *)
(* A data comparison looks at its cancel flag between its queries; up to   *)
(* Concurrency tables are compared at a time.  A structure comparison is   *)
(* raced against a notification instead (tokio::select!) and never looks   *)
(* at the flag.  Compare ids are fresh UUIDs: an id is registered once.    *)
(* Every registry call runs under the registry's lock and is one action;   *)
(* request_cancel takes that lock twice and is two.                        *)
(***************************************************************************)
EXTENDS Integers, FiniteSets

CONSTANTS
    DataTasks,      \* ids of data comparisons
    StructureTasks, \* ids of structure comparisons
    Tables,         \* table pairs a data comparison may find
    Concurrency,    \* TABLE_COMPARE_TASK_CONCURRENCY
    MaxRetained     \* MAX_RETAINED_TASKS

ASSUME KindsAssumption == DataTasks \cap StructureTasks = {}
ASSUME TablesAssumption == IsFiniteSet(Tables)
ASSUME LimitsAssumption == Concurrency \in Nat \ {0} /\ MaxRetained \in Nat

VARIABLES
    status,      \* the entry's status, "absent" when there is no entry
    finishedAt,  \* the entry's finished_at as a rank, 0 for None
    clock,       \* how many tasks have finished
    flag,        \* the cancel flag, shared with the running task
    runner,      \* where the spawned task is
    outcome,     \* what it ended with
    phase,       \* per data task and table, how far the table is
    woken,       \* the select! of a structure task has been notified
    cancelling,  \* request_cancel is between its two locks
    flow,        \* where the window's flow is
    received     \* what the flow got in the end

registry == <<status, finishedAt, clock>>
running == <<runner, outcome, phase>>
window == <<flow, received>>
vars == <<registry, flag, running, woken, cancelling, window>>

Tasks == DataTasks \cup StructureTasks
Terminal == {"completed", "failed", "canceled"}
Phases == {"none", "todo", "planning", "scanning", "done"}

Init ==
    /\ status = [id \in Tasks |-> "absent"]
    /\ finishedAt = [id \in Tasks |-> 0] /\ clock = 0
    /\ flag = [id \in Tasks |-> FALSE]
    /\ runner = [id \in Tasks |-> "none"]
    /\ outcome = [id \in Tasks |-> "none"]
    /\ phase = [id \in DataTasks |-> [t \in Tables |-> "none"]]
    /\ woken = [id \in Tasks |-> FALSE]
    /\ cancelling = [id \in Tasks |-> FALSE]
    /\ flow = [id \in Tasks |-> "none"]
    /\ received = [id \in Tasks |-> "none"]

-----------------------------------------------------------------------------
(* Pruning, which every registration begins with.                          *)

Present == {id \in Tasks : status[id] # "absent"}
Finished == {id \in Present : finishedAt[id] > 0}

(* Slip: the overflow is taken from all entries, by finished_at.           *)
Droppable_Any(entries) == entries

(* Only finished entries can be dropped to make room.                      *)
Droppable(entries) == entries \cap Finished

(* Slip: the entry about to be inserted is counted, and subtracted.        *)
Overflow_OffByOne(entries) == Cardinality(entries) - MaxRetained - 1

Overflow(entries) == Cardinality(entries) - MaxRetained

(* AppState has a registry for either kind.                                *)
Registry(id) == IF id \in DataTasks THEN DataTasks ELSE StructureTasks

(* The entries of a registry left over are those not expired, less the     *)
(* oldest finished ones beyond MaxRetained.  Entries ranked up to cut      *)
(* finished more than FINISHED_TASK_RETENTION ago.                         *)
Pruned(kept, ids) ==
    \E cut \in 0..clock :
        LET fresh == (Present \cap ids) \ {id \in Finished : finishedAt[id] <= cut}
            dropped == fresh \ kept
        IN /\ Present \ ids \subseteq kept /\ kept \cap ids \subseteq fresh
           /\ dropped \subseteq Droppable(fresh)
           /\ IF Overflow(fresh) <= 0 THEN dropped = {}
              ELSE \/ dropped = Droppable(fresh) /\ Cardinality(dropped) <= Overflow(fresh)
                   \/ Cardinality(dropped) = Overflow(fresh)
           /\ \A old \in dropped, id \in Droppable(kept \cap ids) :
                 finishedAt[old] < finishedAt[id]

(* compare_start and structure_compare_start: the entry is registered, the *)
(* task spawned, and the flow that called begins to poll.                  *)
StartTask(id) ==
    /\ flow[id] = "none"
    /\ \E kept \in SUBSET Present :
          /\ Pruned(kept, Registry(id))
          /\ status' = [i \in Tasks |-> IF i = id THEN "pending"
                                        ELSE IF i \in kept THEN status[i] ELSE "absent"]
          /\ finishedAt' = [i \in Tasks |-> IF i \in kept THEN finishedAt[i] ELSE 0]
    /\ runner' = [runner EXCEPT ![id] = "spawned"]
    /\ flow' = [flow EXCEPT ![id] = "polling"]
    /\ UNCHANGED <<clock, flag, outcome, phase, woken, cancelling, received>>

-----------------------------------------------------------------------------
(* How a task ends: finish_success, finish_failure or finish_canceled,     *)
(* which do nothing when the entry is gone.                                *)

FinishEntry(id, how) ==
    IF id \in Present
    THEN /\ status' = [status EXCEPT ![id] = how]
         /\ finishedAt' = [finishedAt EXCEPT ![id] = clock + 1]
         /\ clock' = clock + 1
    ELSE UNCHANGED registry

(* Slip: a cancelled task returns without finishing its entry.             *)
EndTask_CancelUnreported(id, how) ==
    /\ runner' = [runner EXCEPT ![id] = "ended"]
    /\ outcome' = [outcome EXCEPT ![id] = how]
    /\ IF how = "canceled" THEN UNCHANGED registry ELSE FinishEntry(id, how)
    /\ UNCHANGED phase

EndTask(id, how) ==
    /\ runner' = [runner EXCEPT ![id] = "ended"]
    /\ outcome' = [outcome EXCEPT ![id] = how]
    /\ FinishEntry(id, how)
    /\ UNCHANGED phase

ReportProgress(id) ==
    /\ status' = [status EXCEPT ![id] = IF id \in Present THEN "running" ELSE @]
    /\ finishedAt' = [finishedAt EXCEPT ![id] = 0]
    /\ UNCHANGED clock

(* check_compare_cancellation: the error of a set flag ends the task, for  *)
(* an error in one table drops the stream with every other table in it.    *)
CheckCancellation(id, Otherwise) ==
    IF flag[id] THEN EndTask(id, "canceled") ELSE Otherwise

MoveTable(id, t, to) ==
    /\ phase' = [phase EXCEPT ![id][t] = to]
    /\ UNCHANGED <<registry, runner, outcome>>

Open(id) == {t \in Tables : phase[id][t] \in {"planning", "scanning"}}

DataStarts(id) ==
    /\ runner[id] = "spawned"
    /\ CheckCancellation(id, /\ runner' = [runner EXCEPT ![id] = "listing"]
                             /\ UNCHANGED <<registry, outcome, phase>>)

(* list_tables on both sides, build_table_pairs, create_diff_cache_writer. *)
DataLists(id) ==
    /\ runner[id] = "listing"
    /\ \/ EndTask(id, "failed")
       \/ \E found \in SUBSET Tables :
             CheckCancellation(id,
                /\ phase' = [phase EXCEPT ![id] =
                               [t \in Tables |-> IF t \in found THEN "todo" ELSE "none"]]
                /\ runner' = [runner EXCEPT ![id] = "comparing"]
                /\ ReportProgress(id)
                /\ UNCHANGED outcome)

(* Slip: no look at the flag before the next table.                        *)
TableStarts_Unchecked(id, t) ==
    /\ runner[id] = "comparing" /\ phase[id][t] = "todo"
    /\ Cardinality(Open(id)) < Concurrency
    /\ MoveTable(id, t, "scanning")

(* The stream takes up the next table, in whatever order.                  *)
TableStarts(id, t) ==
    /\ runner[id] = "comparing" /\ phase[id][t] = "todo"
    /\ Cardinality(Open(id)) < Concurrency
    /\ CheckCancellation(id, MoveTable(id, t, "planning"))

(* load_table_plan and the look at the flag after it.                      *)
TablePlans(id, t) ==
    /\ runner[id] = "comparing" /\ phase[id][t] = "planning"
    /\ \/ EndTask(id, "failed")
       \/ CheckCancellation(id, MoveTable(id, t, "scanning"))

(* The rest of compare_single_table, which may or may not meet another     *)
(* look at the flag, and the progress report for the finished table.       *)
TableScans(id, t) ==
    /\ runner[id] = "comparing" /\ phase[id][t] = "scanning"
    /\ \/ EndTask(id, "failed")
       \/ flag[id] /\ EndTask(id, "canceled")
       \/ /\ phase' = [phase EXCEPT ![id][t] = "done"]
          /\ ReportProgress(id)
          /\ UNCHANGED <<runner, outcome>>

DataCompletes(id) ==
    /\ runner[id] = "comparing"
    /\ \A t \in Tables : phase[id][t] \in {"none", "done"}
    /\ EndTask(id, "completed")

(* A structure task reports first and asks for its notifier afterwards;    *)
(* from the select! on, notify_waiters reaches it.                         *)
StructureStarts(id) ==
    /\ runner[id] = "spawned"
    /\ runner' = [runner EXCEPT ![id] = "reported"]
    /\ ReportProgress(id)
    /\ UNCHANGED <<outcome, phase>>

StructureSelects(id) ==
    /\ runner[id] = "reported"
    /\ runner' = [runner EXCEPT ![id] = "selecting"]
    /\ UNCHANGED <<registry, outcome, phase>>

StructureEnds(id) ==
    /\ runner[id] = "selecting"
    /\ \/ EndTask(id, "completed")
       \/ EndTask(id, "failed")
       \/ woken[id] /\ EndTask(id, "canceled")

RunData(id) ==
    \/ DataStarts(id) \/ DataLists(id) \/ DataCompletes(id)
    \/ \E t \in Tables : TableStarts(id, t) \/ TablePlans(id, t) \/ TableScans(id, t)

RunStructure(id) == StructureStarts(id) \/ StructureSelects(id) \/ StructureEnds(id)

Run(id) == /\ \/ id \in DataTasks /\ RunData(id)
              \/ id \in StructureTasks /\ RunStructure(id)
           /\ UNCHANGED <<flag, woken, cancelling, window>>

-----------------------------------------------------------------------------
(* The window.  Cancelling needs the compare_id of a progress report, so   *)
(* it is possible from the first report on.                                *)

Showing(id) == flow[id] \in {"shown", "taking"}

(* request_cancel, first lock: the flag is stored; accepted says the entry *)
(* was there, whatever its status.                                         *)
RequestCancel(id) ==
    /\ Showing(id) /\ ~cancelling[id] /\ id \in Present
    /\ flag' = [flag EXCEPT ![id] = TRUE]
    /\ cancelling' = [cancelling EXCEPT ![id] = TRUE]
    /\ UNCHANGED <<registry, running, woken, window>>

(* Second lock: notify_waiters wakes a select! that exists by now.         *)
NotifyWaiters(id) ==
    /\ cancelling[id]
    /\ cancelling' = [cancelling EXCEPT ![id] = FALSE]
    /\ woken' = [woken EXCEPT ![id] =
                   @ \/ (id \in Present /\ runner[id] = "selecting")]
    /\ UNCHANGED <<registry, flag, running, window>>

(* Slip: everything that is not running counts as ended.                   *)
EndsPolling_NotRunning(s) == s # "running"

(* Slip: only a completed task ends the polling.                           *)
EndsPolling_Completed(s) == s = "completed"

EndsPolling(s) == s \in Terminal

(* One round of waitForCompareTask; asking for an entry that was pruned    *)
(* fails the flow.                                                         *)
Poll(id) ==
    /\ flow[id] \in {"polling", "shown"}
    /\ IF id \notin Present
       THEN /\ flow' = [flow EXCEPT ![id] = "ended"]
            /\ received' = [received EXCEPT ![id] = "lost"]
       ELSE /\ flow' = [flow EXCEPT ![id] = IF EndsPolling(status[id]) THEN "taking" ELSE "shown"]
            /\ UNCHANGED received
    /\ UNCHANGED <<registry, flag, running, woken, cancelling>>

(* take_result removes the entry, whatever its status.                     *)
TakeResult(id) ==
    /\ flow[id] = "taking"
    /\ flow' = [flow EXCEPT ![id] = "ended"]
    /\ received' = [received EXCEPT ![id] = IF id \in Present THEN status[id] ELSE "lost"]
    /\ status' = [status EXCEPT ![id] = "absent"]
    /\ finishedAt' = [finishedAt EXCEPT ![id] = 0]
    /\ UNCHANGED <<clock, flag, running, woken, cancelling>>

-----------------------------------------------------------------------------
Next == \E id \in Tasks :
           \/ StartTask(id) \/ Run(id)
           \/ RequestCancel(id) \/ NotifyWaiters(id)
           \/ Poll(id) \/ TakeResult(id)

(* The runtime polls every spawned task and the window's timer fires again *)
(* and again; queries are taken to return, with a result or an error.      *)
(* Nobody has to start or to cancel anything.                              *)
Spec == /\ Init /\ [][Next]_vars
        /\ \A id \in Tasks : /\ WF_vars(Run(id)) /\ WF_vars(NotifyWaiters(id))
                             /\ WF_vars(Poll(id)) /\ WF_vars(TakeResult(id))

-----------------------------------------------------------------------------
(* Types of the state.                                                     *)
TypeOK ==
    /\ status \in [Tasks -> {"absent", "pending", "running"} \cup Terminal]
    /\ finishedAt \in [Tasks -> Nat] /\ clock \in Nat
    /\ flag \in [Tasks -> BOOLEAN]
    /\ runner \in [Tasks -> {"none", "spawned", "listing", "comparing",
                             "reported", "selecting", "ended"}]
    /\ outcome \in [Tasks -> {"none"} \cup Terminal]
    /\ phase \in [DataTasks -> [Tables -> Phases]]
    /\ woken \in [Tasks -> BOOLEAN]
    /\ cancelling \in [Tasks -> BOOLEAN]
    /\ flow \in [Tasks -> {"none", "polling", "shown", "taking", "ended"}]
    /\ received \in [Tasks -> {"none", "lost"} \cup Terminal]

Alive(id) == runner[id] \notin {"none", "ended"}

(* The entry of a task that still runs is never pruned and never taken, so *)
(* no progress report and no result is dropped on the way to the window.   *)
RunningTaskKept == \A id \in Tasks : Alive(id) => status[id] \in {"pending", "running"}

(* A flow ends with what its own task ended with, and not before the task  *)
(* has ended; otherwise its entry was pruned, and only after the end.      *)
ReceivesOutcome ==
    \A id \in Tasks : received[id] # "none" =>
        /\ runner[id] = "ended"
        /\ received[id] \in {outcome[id], "lost"}

(* Once a cancel has been accepted, no table of the comparison that was    *)
(* not being scanned yet is scanned, and no comparison begins.             *)
CancelStopsTables ==
    [][\A id \in DataTasks : flag[id] =>
          /\ runner[id] \in {"spawned", "listing"} => runner'[id] # "comparing"
          /\ \A t \in Tables : phase[id][t] \in {"todo", "planning"} =>
                               phase'[id][t] \notin {"scanning", "done"}]_vars

(* However many tasks are started and never fetched, a registration leaves *)
(* at most MaxRetained other entries, unless none of them has finished.    *)
RetentionBound ==
    [][\A id \in Tasks : flow[id] = "none" /\ flow'[id] = "polling" =>
          \/ Cardinality(Present' \cap Registry(id)) <= MaxRetained + 1
          \/ Finished' \cap Registry(id) = {}]_vars

(* Every flow that was started ends.                                       *)
EveryFlowEnds == \A id \in Tasks : (flow[id] = "polling") ~> (flow[id] = "ended")

(* A cancel accepted before the comparison proper has begun keeps it from  *)
(* completing.                                                             *)
AcceptedCancelStops ==
    \A id \in Tasks :
        []((flag[id] /\ runner[id] \in {"spawned", "reported"})
             => [](outcome[id] # "completed"))

(* How the entry, the task and the flow of one id hang together.           *)
EntryInv ==
    \A id \in Tasks :
        /\ finishedAt[id] > 0 <=> status[id] \in Terminal
        /\ status[id] \in Terminal => runner[id] = "ended" /\ outcome[id] = status[id]
        /\ runner[id] = "ended" => status[id] \in Terminal \cup {"absent"}
        /\ runner[id] = "none" <=> flow[id] = "none"
        /\ runner[id] = "none" => status[id] = "absent"
        /\ flow[id] = "taking" => runner[id] = "ended"

(* The inductive invariant.                                                *)
TaskInv == TypeOK /\ EntryInv /\ RunningTaskKept /\ ReceivesOutcome
=============================================================================

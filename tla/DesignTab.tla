------------------------------ MODULE DesignTab ------------------------------
(***************************************************************************)
(* The design tab: the draft of a table's columns, its load, the preview   *)
(* of the statements it needs and their execution, for a table that exists *)
(* ("edit") and for a new one ("create")                                   *)
(* (features/workspace/useTableWorkspaceDomain.ts, features/table-design/).*)
(*                                                                         *)
(* The statements are computed by the server from the columns the table    *)
(* has when it is asked, once for the preview and again for the execution. *)
(* A column is a name (a number) and one attribute, 0 or 1, that stands    *)
(* for its type, length, nullability and the rest.                         *)
(***************************************************************************)
EXTENDS Integers, Sequences, FiniteSets, Ordered

CONSTANTS Names,           \* names the user and other clients give to columns
          MaxDesignSteps,  \* bound: what the user does
          MaxAlters        \* bound: what other clients do to the table

VARIABLES columns,    \* the server's table: column name -> attribute, or no table
          tab,        \* the design tab, or NoTab
          designLoads,      \* answers on their way
          asked,      \* previews on their way
          sqlPreview, \* the dialog
          running,    \* a confirmed payload on its way
          steps, alters,
          outcome     \* ghost: what the last execution was to do, did and left

designVars == <<columns, tab, designLoads, asked, sqlPreview, running, steps, alters, outcome>>

NoTab == [mode |-> "none"]
NoPreview == [open |-> FALSE]
NoOrigin == 0
Nothing == [done |-> FALSE]

----------------------------------------------------------------------------
(* Drafts. *)

\* createDraftColumn
DraftColumn(name, attr, origin, pos) ==
  [name |-> name, attr |-> attr, origin |-> origin, selected |-> FALSE, pos |-> pos]

\* The draft of a loaded table, its columns in the order of their names
LoadedDraft(cols) ==
  LET names == InOrder(DOMAIN cols)
  IN [i \in DOMAIN names |-> DraftColumn(names[i], cols[names[i]], names[i], i)]

\* stripDraftColumn: what is sent has no trace of the column's original name
Stripped(draft) == [i \in DOMAIN draft |-> [name |-> draft[i].name, attr |-> draft[i].attr]]
AsTable(payload) == [n \in {payload[i].name : i \in DOMAIN payload} |->
                        (CHOOSE i \in DOMAIN payload : payload[i].name = n)]

\* validate_draft_columns
Valid(payload) == payload # <<>> /\ Cardinality({payload[i].name : i \in DOMAIN payload}) = Len(payload)

\* Slip: columns missing from the draft are kept
PlanWithoutDrops(payload, current) ==
  LET draft == {payload[i] : i \in DOMAIN payload}
  IN [drop |-> {}, modify |-> {c \in draft : c.name \in DOMAIN current /\ current[c.name] # c.attr},
      add |-> {c \in draft : c.name \notin DOMAIN current}]

\* build_alter_table_statements against the columns the table has now; a CREATE adds them all
Plan(payload, current) ==
  LET draft == {payload[i] : i \in DOMAIN payload}
  IN [drop |-> {n \in DOMAIN current : \A c \in draft : c.name # n},
      modify |-> {c \in draft : c.name \in DOMAIN current /\ current[c.name] # c.attr},
      add |-> {c \in draft : c.name \notin DOMAIN current}]

IsEmpty(plan) == plan.drop = {} /\ plan.modify = {} /\ plan.add = {}

\* executing a plan
After(plan, current) ==
  [n \in (DOMAIN current \ plan.drop) \cup {c.name : c \in plan.add} |->
     IF \E c \in plan.modify \cup plan.add : c.name = n
     THEN (CHOOSE c \in plan.modify \cup plan.add : c.name = n).attr ELSE current[n]]

----------------------------------------------------------------------------
Step == steps < MaxDesignSteps /\ steps' = steps + 1
Editing == tab.mode # "none" /\ ~sqlPreview.open
Drafted(draft) ==
  /\ Editing /\ Step /\ tab' = [tab EXCEPT !.draft = draft]
  /\ UNCHANGED <<columns, designLoads, asked, sqlPreview, running, alters, outcome>>
OnlyTab == UNCHANGED <<columns, asked, sqlPreview, running, alters, outcome>>

Init ==
  /\ columns \in {<<>>, [n \in {1, 2} |-> 0]}
  /\ tab = NoTab /\ designLoads = 0 /\ asked = <<>> /\ sqlPreview = NoPreview
  /\ running = <<>> /\ steps = 0 /\ alters = 0 /\ outcome = Nothing

\* openTableTab('design') and refreshDesignTab up to its await
OpenDesign ==
  /\ columns # <<>> /\ ~sqlPreview.open /\ Step
  /\ tab' = [mode |-> "edit", loading |-> TRUE, orig |-> <<>>, draft |-> <<>>]
  /\ designLoads' = designLoads + 1 /\ OnlyTab
refreshDesignTab ==
  /\ Editing /\ tab.mode = "edit" /\ designLoads < 2 /\ Step
  /\ tab' = [tab EXCEPT !.loading = TRUE] /\ designLoads' = designLoads + 1 /\ OnlyTab

\* openCreateTableTab: one column, the key
openCreateTableTab ==
  /\ columns = <<>> /\ ~sqlPreview.open /\ Step
  /\ tab' = [mode |-> "create", loading |-> FALSE, orig |-> <<>>, draft |-> <<DraftColumn(1, 0, NoOrigin, 1)>>]
  /\ designLoads' = designLoads /\ OnlyTab

CloseDesign == Editing /\ Step /\ tab' = NoTab /\ designLoads' = designLoads /\ OnlyTab

\* the answer replaces the draft, edited or not, of whatever tab has the id by then
DesignArrives ==
  /\ designLoads > 0 /\ designLoads' = designLoads - 1
  /\ tab' = IF tab.mode # "edit" THEN tab
            ELSE [tab EXCEPT !.loading = FALSE, !.orig = columns, !.draft = LoadedDraft(columns)]
  /\ steps' = steps /\ OnlyTab
DesignFails ==
  /\ designLoads > 0 /\ designLoads' = designLoads - 1
  /\ tab' = IF tab.mode # "edit" THEN tab ELSE [tab EXCEPT !.loading = FALSE]
  /\ steps' = steps /\ OnlyTab

----------------------------------------------------------------------------
(* Edits of the draft. *)

\* updateDesignRow, for the name and for the rest
updateDesignRow(i, name, attr) ==
  /\ <<name, attr>> # <<tab.draft[i].name, tab.draft[i].attr>>
  /\ name = tab.draft[i].name \/ attr = tab.draft[i].attr
  /\ Drafted([tab.draft EXCEPT ![i].name = name, ![i].attr = attr])

\* toggleDesignRowSelection, toggleAllDesignRows
toggleDesignRow(i) == Drafted([tab.draft EXCEPT ![i].selected = ~@])
toggleAllDesignRows(checked) ==
  /\ tab.draft # <<>>
  /\ Drafted([i \in DOMAIN tab.draft |-> [tab.draft[i] EXCEPT !.selected = checked]])

\* addDesignRow: the generated name counts the rows, it may be taken
addDesignRow ==
  LET n == Len(tab.draft) + 1
  IN Drafted(Append(tab.draft, DraftColumn(10 + n, 0, NoOrigin, n)))

Renumbered(draft) == [i \in DOMAIN draft |-> [draft[i] EXCEPT !.selected = FALSE, !.pos = i]]

\* deleteSelectedDesignRows: refused when nothing would be left
deleteSelectedDesignRows ==
  LET left == At(tab.draft, {i \in DOMAIN tab.draft : ~tab.draft[i].selected})
  IN left # <<>> /\ Drafted(Renumbered(left))

\* restoreSelectedDesignRows: added columns go, loaded ones are as loaded; nothing is refused
restoreSelectedDesignRows ==
  LET kept == At(tab.draft, {i \in DOMAIN tab.draft : \/ ~tab.draft[i].selected
                                                      \/ tab.draft[i].origin \in DOMAIN tab.orig})
      back(c) == IF c.selected THEN DraftColumn(c.origin, tab.orig[c.origin], c.origin, c.pos) ELSE c
  IN Drafted(Renumbered([i \in DOMAIN kept |-> back(kept[i])]))

----------------------------------------------------------------------------
(* Preview and execution. *)

\* previewDesignSql and commitDesignChanges up to their await
AskPreview(commit) ==
  /\ Editing /\ asked = <<>> /\ Step
  /\ asked' = <<[mode |-> tab.mode, payload |-> Stripped(tab.draft), commit |-> commit]>>
  /\ UNCHANGED <<columns, tab, designLoads, sqlPreview, running, alters, outcome>>

\* The server answers with the plan, or refuses the draft
PlanFor(request) == Plan(request.payload, IF request.mode = "create" THEN <<>> ELSE columns)
PreviewDesignAnswer ==
  /\ asked # <<>> /\ asked' = <<>>
  /\ LET request == Head(asked)
     IN sqlPreview' = IF ~Valid(request.payload) THEN sqlPreview
          ELSE [open |-> TRUE, request |-> request, plan |-> PlanFor(request),
                confirmable |-> request.commit /\ ~IsEmpty(PlanFor(request)), altered |-> FALSE]
  /\ UNCHANGED <<columns, tab, designLoads, running, steps, alters, outcome>>

ClosePreview ==
  /\ sqlPreview.open /\ sqlPreview' = NoPreview
  /\ UNCHANGED <<columns, tab, designLoads, asked, running, steps, alters, outcome>>

\* Slip: the draft of the moment is sent instead of the one the preview was made for
ConfirmLiveDraft ==
  /\ sqlPreview.open /\ sqlPreview.confirmable /\ running = <<>>
  /\ sqlPreview' = NoPreview
  /\ running' = <<[sqlPreview EXCEPT !.request.payload =
                     IF tab.mode = "none" THEN @ ELSE Stripped(tab.draft)]>>
  /\ UNCHANGED <<columns, tab, designLoads, asked, steps, alters, outcome>>

\* on_confirm up to its await: the dialog closes before the request is made
ConfirmDesign ==
  /\ sqlPreview.open /\ sqlPreview.confirmable /\ running = <<>>
  /\ sqlPreview' = NoPreview /\ running' = <<sqlPreview>>
  /\ UNCHANGED <<columns, tab, designLoads, asked, steps, alters, outcome>>

\* apply_table_design_changes, create_table: the plan is computed again; MySQL refuses
\* a CREATE of a table that exists and an ALTER that leaves no column
Executable(request) ==
  /\ Valid(request.payload)
  /\ request.mode = "create" <=> columns = <<>>

\* on_confirm after its await: a new table's tab gives way to the table's own
AfterExecution(request) ==
  IF request.mode = "create"
  THEN /\ tab' = [mode |-> "edit", loading |-> TRUE, orig |-> <<>>, draft |-> <<>>]
       /\ designLoads' = designLoads + 1
  ELSE /\ designLoads' = designLoads + 1
       /\ tab' = IF tab.mode = "edit" THEN [tab EXCEPT !.loading = TRUE] ELSE tab

TableAltered(preview) == IF preview.open THEN [preview EXCEPT !.altered = TRUE] ELSE preview

\* An execution succeeds, or fails without a word: on_confirm catches nothing
Execute(ok) ==
  /\ running # <<>> /\ running' = <<>>
  /\ LET request == Head(running).request
         plan == PlanFor(request)
     IN IF ok /\ Executable(request)
        THEN /\ columns' = After(plan, IF request.mode = "create" THEN <<>> ELSE columns)
             /\ outcome' = [done |-> TRUE, draft |-> {request.payload[i] : i \in DOMAIN request.payload},
                            left |-> {[name |-> n, attr |-> columns'[n]] : n \in DOMAIN columns'},
                            shown |-> Head(running).plan, run |-> plan, altered |-> Head(running).altered]
             /\ sqlPreview' = TableAltered(sqlPreview)
             /\ AfterExecution(request)
        ELSE UNCHANGED <<columns, outcome, tab, designLoads, sqlPreview>>
  /\ UNCHANGED <<asked, steps, alters>>

\* Another client adds or changes a column, or creates the table
OtherAlters(n, attr) ==
  /\ alters < MaxAlters /\ alters' = alters + 1
  /\ columns' = [m \in DOMAIN columns \cup {n} |-> IF m = n THEN attr ELSE columns[m]]
  /\ sqlPreview' = TableAltered(sqlPreview)
  /\ running' = [i \in DOMAIN running |-> TableAltered(running[i])]
  /\ UNCHANGED <<tab, designLoads, asked, steps, outcome>>

Next ==
  \/ OpenDesign \/ refreshDesignTab \/ openCreateTableTab \/ CloseDesign
  \/ DesignArrives \/ DesignFails
  \/ Editing /\ ( \/ addDesignRow \/ deleteSelectedDesignRows \/ restoreSelectedDesignRows
                  \/ \E checked \in BOOLEAN : toggleAllDesignRows(checked)
                  \/ \E i \in DOMAIN tab.draft : toggleDesignRow(i)
                  \/ \E i \in DOMAIN tab.draft, n \in Names, a \in {0, 1} : updateDesignRow(i, n, a))
  \/ \E commit \in BOOLEAN : AskPreview(commit)
  \/ PreviewDesignAnswer \/ ClosePreview \/ ConfirmDesign
  \/ \E ok \in BOOLEAN : Execute(ok)
  \/ \E n \in Names, a \in {0, 1} : OtherAlters(n, a)

Fairness == WF_designVars(DesignArrives \/ DesignFails)

Spec == Init /\ [][Next]_designVars /\ Fairness

----------------------------------------------------------------------------
\* Type invariant: a tab is a list of draft columns, a preview a request and its plan.
DesignTypeOK ==
  /\ DOMAIN columns \subseteq Names \cup {1, 2} \cup 10..20
  /\ tab.mode \in {"none", "edit", "create"}
  /\ tab.mode # "none" => \A i \in DOMAIN tab.draft : tab.draft[i].attr \in {0, 1}
  /\ Len(running) <= 1 /\ Len(asked) <= 1

\* A confirmed draft becomes the table: whatever other clients did to it in the
\* meantime, the table has the draft's columns and no other.
DraftBecomesTable == outcome.done => outcome.left = outcome.draft

\* What is executed is what the dialog showed, whatever the user did to the tab since,
\* unless the table was altered, by another client or by an execution that was still
\* under way, after the preview was made.
RunsWhatWasShown == (outcome.done /\ ~outcome.altered) => outcome.run = outcome.shown

\* Columns keep their identity: positions are those of the draft, no two rows claim the
\* same loaded column, and a row that claims one claims a column that was loaded.
OriginsAreKept ==
  tab.mode # "none" =>
    \A i \in DOMAIN tab.draft :
      /\ tab.draft[i].pos = i
      /\ tab.draft[i].origin # NoOrigin =>
           /\ tab.draft[i].origin \in DOMAIN tab.orig
           /\ \A j \in DOMAIN tab.draft : tab.draft[j].origin = tab.draft[i].origin => i = j

\* The tab shows it is loading.
DesignBusy == tab.mode # "none" /\ tab.loading
=============================================================================

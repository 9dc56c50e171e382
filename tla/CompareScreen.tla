----------------------------- MODULE CompareScreen -----------------------------
(***************************************************************************)
(* The two comparison screens (useCompareDomain.ts, compare/state.ts,      *)
(* DataCompareWorkspace.tsx, StructureCompareWorkspace.tsx).               *)
(*                                                                         *)
(* Both read one form that names the databases compared.  A comparison     *)
(* runs as a task the screen polls; its handler goes on after the result   *)
(* is shown: it records it in the history and asks for the first page of   *)
(* differences.  Nothing stops a second comparison, a change of the form   *)
(* or a change of the table shown in between, and no answer is checked     *)
(* against what the screen shows when it arrives.                          *)
(*                                                                         *)
(* Pages hold one difference; the cap of 300 kept differences is left out. *)
(***************************************************************************)
EXTENDS Integers, FiniteSets

CONSTANTS ComparePairs,     \* pairs of databases the form can name
          CompareTables,    \* tables either side has
          DetailTypes,      \* of {"insert", "update", "delete"}, with "insert"
          Differences,      \* the rows that may differ, per table and type
          MaxChoices,       \* bound: changes of the form
          MaxCompares,      \* bound: comparisons started
          MaxCompareSteps,  \* bound: other gestures
          MaxCompareCalls   \* bound: requests on their way at a time

NoPair == 0
NoTable == 0

VARIABLES pair,          \* compareForm
          data,          \* dataCompareState
          structure,     \* structureCompareState
          compareCalls,  \* handlers that wait for an answer
          compareSteps,  \* choices, comparisons and other gestures spent
          mishaps        \* ghost: what happened that the screen does not guard against

compareVars == <<pair, data, structure, compareCalls, compareSteps, mishaps>>

Keys == CompareTables \X DetailTypes
Categories == {"added", "modified", "deleted"}
First(S) == CHOOSE x \in S : \A y \in S : x <= y

EmptyPage == [loaded |-> FALSE, loading |-> FALSE, failed |-> FALSE, fetched |-> 0, items |-> {}, more |-> FALSE]
NoPages == [k \in Keys |-> EmptyPage]
NoResult == [id |-> 0, pair |-> NoPair, tables |-> {}, keyed |-> TRUE, rows |-> [k \in Keys |-> {}]]
\* createEmptyDataCompareSelectionItem, for every table
AllSelected ==
  [t \in CompareTables |-> [on |-> TRUE, act |-> [ty \in DetailTypes |-> TRUE],
                            excluded |-> [ty \in DetailTypes |-> {}]]]
defaultDataCompareState ==
  [step |-> 1, common |-> {}, selected |-> {}, loadingTables |-> FALSE, running |-> FALSE, progress |-> 0,
   result |-> NoResult, selection |-> AllSelected, table |-> NoTable, type |-> "insert", pages |-> NoPages]
NoStructure == [id |-> 0, pair |-> NoPair, items |-> [c \in Categories |-> {}]]
NoDetail == [loading |-> FALSE, failed |-> FALSE, of |-> 0]
defaultStructureCompareState ==
  [step |-> 1, loading |-> FALSE, progress |-> 0, result |-> NoStructure,
   selection |-> [c \in Categories |-> {}], expanded |-> {},
   details |-> [k \in Categories \X CompareTables |-> NoDetail]]

Init ==
  /\ pair = NoPair /\ data = defaultDataCompareState /\ structure = defaultStructureCompareState
  /\ compareCalls = {} /\ mishaps = {} /\ compareSteps = [choices |-> 0, compares |-> 0, others |-> 0]

----------------------------------------------------------------------------
(* Selection: what the screen shows as checked, and what an export takes. *)

Rows(t, ty) == data.result.rows[<<t, ty>>]
ActionEnabled(t, ty) == data.selection[t].on /\ data.selection[t].act[ty]
\* a difference is known by its key, or, in a table without one, by its content, which
\* other rows may share: here, all of them
Signature(row) == IF data.result.keyed THEN row ELSE First(Differences)
isDataCompareDetailSelected(t, ty, row) ==
  ActionEnabled(t, ty) /\ Signature(row) \notin data.selection[t].excluded[ty]

\* Slip: what is unchecked for a whole type still counts
SelectedOfAnyType(t, ty) ==
  LET left == Cardinality(Rows(t, ty)) - Cardinality(data.selection[t].excluded[ty])
  IN IF data.selection[t].on /\ left > 0 THEN left ELSE 0
\* getDataCompareActionSelectionStats counts; it never looks at the rows
Selected(t, ty) ==
  LET left == Cardinality(Rows(t, ty)) - Cardinality(data.selection[t].excluded[ty])
  IN IF ActionEnabled(t, ty) /\ left > 0 THEN left ELSE 0

\* the boxes of a type and of a table of the result
ActionChecked(t, ty) == Rows(t, ty) # {} /\ Selected(t, ty) = Cardinality(Rows(t, ty))
TableChecked(t) ==
  /\ \E ty \in DetailTypes : Rows(t, ty) # {}
  /\ \A ty \in DetailTypes : Selected(t, ty) = Cardinality(Rows(t, ty))

\* buildDataCompareTableSelections, as the export of the back end applies it
Exported ==
  LET Checked(t, ty, row) ==
        /\ row \in Rows(t, ty) /\ Selected(t, ty) > 0
        /\ Signature(row) \notin data.selection[t].excluded[ty]
  IN {d \in data.result.tables \X DetailTypes \X Differences : Checked(d[1], d[2], d[3])}

resetDataCompareResultState(d) ==
  [d EXCEPT !.result = NoResult, !.selection = AllSelected, !.table = NoTable, !.type = "insert",
            !.pages = NoPages]

----------------------------------------------------------------------------
(* Handlers that wait. *)

Call(op, body) == [op |-> op, body |-> body]
Send(c) == /\ Cardinality(compareCalls) < MaxCompareCalls /\ c \notin compareCalls
           /\ compareCalls' = compareCalls \cup {c}
Returned(c) == compareCalls' = compareCalls \ {c}
InFlight(op) == \E c \in compareCalls : c.op = op
Gesture == compareSteps.others < MaxCompareSteps /\ compareSteps' = [compareSteps EXCEPT !.others = @ + 1]
DataGesture == Gesture /\ UNCHANGED <<pair, structure, mishaps>>
StructureGesture == Gesture /\ UNCHANGED <<pair, data, mishaps>>
DataAnswer == UNCHANGED <<pair, structure, compareSteps>>
StructureAnswer == UNCHANGED <<pair, data, compareSteps>>
Noting(mishap, happened) == mishaps' = IF happened THEN mishaps \cup {mishap} ELSE mishaps

\* Slip: the structure screen keeps what it shows
ChooseKeepsStructure(p) ==
  /\ compareSteps.choices < MaxChoices /\ compareSteps' = [compareSteps EXCEPT !.choices = @ + 1]
  /\ data.step = 1 \/ structure.step = 1
  /\ p # pair /\ pair' = p /\ data' = defaultDataCompareState
  /\ Noting("switched", compareCalls # {}) /\ UNCHANGED <<compareCalls, structure>>

\* updateCompareProfile (which empties the database) and updateCompareDatabase, offered by the
\* first step of either screen, whatever is on its way
Choose(p) ==
  /\ compareSteps.choices < MaxChoices /\ compareSteps' = [compareSteps EXCEPT !.choices = @ + 1]
  /\ data.step = 1 \/ structure.step = 1
  /\ p # pair /\ pair' = p
  /\ data' = defaultDataCompareState /\ structure' = defaultStructureCompareState
  /\ Noting("switched", compareCalls # {}) /\ UNCHANGED compareCalls

----------------------------------------------------------------------------
(* The data comparison: tables. *)

DiscoverOffered == data.step = 1 /\ ~data.loadingTables /\ ~data.running
discoverCompareTables ==
  /\ DiscoverOffered /\ pair # NoPair
  /\ Send(Call("discover", [pair |-> pair])) /\ data' = [data EXCEPT !.loadingTables = TRUE] /\ DataGesture
DiscoverAnswer(c) ==
  /\ c.op = "discover" /\ Returned(c) /\ DataAnswer /\ UNCHANGED mishaps
  /\ \/ \E common \in SUBSET CompareTables :
          data' = resetDataCompareResultState(
                    [data EXCEPT !.common = common, !.step = 2, !.selected = common, !.loadingTables = FALSE])
     \/ data' = [data EXCEPT !.loadingTables = FALSE]

\* the two buttons and the boxes of the common tables
TablesOffered(tables) ==
  /\ data.step = 2
  /\ \/ tables \in {{}, data.common}
     \/ \E t \in data.common : tables \in {data.selected \cup {t}, data.selected \ {t}}
\* toggleDataCompareTable, selectAllDataCompareTables, clearAllDataCompareTables
SelectTables(tables) ==
  /\ TablesOffered(tables) /\ tables # data.selected /\ DataGesture /\ UNCHANGED compareCalls
  /\ data' = resetDataCompareResultState([data EXCEPT !.selected = tables])

\* 上一步 and 返回表选择 both return to the first step
setDataCompareStep == data.step # 1 /\ data' = [data EXCEPT !.step = 1] /\ DataGesture /\ UNCHANGED compareCalls

----------------------------------------------------------------------------
(* The data comparison: pages of differences. *)

\* the state and the request ensureDataCompareDetailLoaded leaves, for the result r
PageAsked(d, r, t, ty, reset) ==
  LET some == r.rows[<<t, ty>>] # {}
      page == IF reset THEN [EmptyPage EXCEPT !.more = some] ELSE d.pages[<<t, ty>>]
  IN [d EXCEPT !.table = t, !.type = ty,
               !.pages[<<t, ty>>] = [page EXCEPT !.loading = some, !.loaded = @ \/ ~some, !.failed = FALSE]]
PageCall(r, t, ty, reset, offset) ==
  Call("page", [of |-> r.id, rows |-> r.rows[<<t, ty>>], table |-> t, type |-> ty, reset |-> reset, offset |-> offset])

\* ensureDataCompareDetailLoaded, called without a reset by a gesture on the screen
ensureDataCompareDetailLoaded(t, ty) ==
  LET page == data.pages[<<t, ty>>]
  IN IF page.loading \/ (page.loaded /\ ~page.more) \/ Rows(t, ty) = {}
     THEN data' = [data EXCEPT !.table = t, !.type = ty] /\ UNCHANGED compareCalls
     ELSE /\ data' = PageAsked(data, data.result, t, ty, FALSE)
          /\ Send(PageCall(data.result, t, ty, FALSE, page.fetched))

ResultShown == data.step = 3 /\ data.result.id # 0
selectDataCompareResultTable(t) ==
  /\ ResultShown /\ t \in data.result.tables /\ DataGesture /\ ensureDataCompareDetailLoaded(t, data.type)
switchDataCompareDetailType(ty) ==
  /\ ResultShown /\ data.table # NoTable /\ ty # data.type /\ DataGesture
  /\ ensureDataCompareDetailLoaded(data.table, ty)
LoadMore ==
  /\ ResultShown /\ data.table # NoTable /\ data.pages[<<data.table, data.type>>].more /\ DataGesture
  /\ ensureDataCompareDetailLoaded(data.table, data.type)

\* the page after the first `offset` differences, in the order of the result
PageOf(rows, offset) == {r \in rows : Cardinality({q \in rows : q < r}) = offset}

KeyOf(c) == <<c.body.table, c.body.type>>
\* buildPrunedDataCompareDetailPages keeps the page that arrived and no other
buildPrunedDataCompareDetailPages(c) ==
  LET k == KeyOf(c)
      items == PageOf(c.body.rows, c.body.offset)
      kept == IF c.body.reset THEN EmptyPage ELSE data.pages[k]
  IN [NoPages EXCEPT ![k] = [loaded |-> TRUE, loading |-> FALSE, failed |-> FALSE,
                             fetched |-> kept.fetched + Cardinality(items), items |-> kept.items \cup items,
                             more |-> c.body.offset + 1 < Cardinality(c.body.rows)]]

PageMishap(c) ==
  mishaps' = mishaps
    \cup (IF c.body.of # data.result.id THEN {"outdated"} ELSE {})
    \cup (IF KeyOf(c) # <<data.table, data.type>> THEN {"pruned"} ELSE {})
    \cup (IF \E o \in compareCalls \ {c} : o.op = "page" /\ KeyOf(o) = KeyOf(c) THEN {"doubled"} ELSE {})
PageArrives(c) ==
  /\ c.op = "page" /\ Returned(c) /\ DataAnswer /\ PageMishap(c)
  /\ data' = [data EXCEPT !.pages = buildPrunedDataCompareDetailPages(c)]
PageFails(c) ==
  /\ c.op = "page" /\ Returned(c) /\ DataAnswer /\ PageMishap(c)
  /\ data' = [data EXCEPT !.pages[<<c.body.table, c.body.type>>] = [@ EXCEPT !.loading = FALSE, !.failed = TRUE]]

----------------------------------------------------------------------------
(* The data comparison: the task, from the click to the first page. *)

\* buildDataCompareRequestFromForm: all of what is common means every table of the databases
RequestedTables == IF data.selected = data.common THEN CompareTables ELSE data.selected
RunOffered == (data.step = 2 /\ ~data.running /\ data.selected # {}) \/ data.step = 3
Refused == pair = NoPair \/ RequestedTables = {}

runDataCompareFlow ==
  /\ RunOffered /\ ~Refused
  /\ compareSteps.compares < MaxCompares /\ compareSteps' = [compareSteps EXCEPT !.compares = @ + 1]
  /\ Send(Call("task", [id |-> compareSteps.compares + 1, pair |-> pair, tables |-> RequestedTables]))
  /\ data' = [resetDataCompareResultState(data) EXCEPT !.running = TRUE, !.progress = 0]
  /\ UNCHANGED <<pair, structure, mishaps>>

\* a request that cannot be built ends in the same catch as a failed comparison
RunFailed == [data EXCEPT !.running = FALSE, !.progress = 0]
RunRefused == RunOffered /\ Refused /\ data' = RunFailed /\ DataGesture /\ UNCHANGED compareCalls

\* waitForCompareTask, onProgress
TaskProgress(c) ==
  /\ c.op = "task" /\ data.progress # c.body.id /\ data' = [data EXCEPT !.progress = c.body.id]
  /\ DataAnswer /\ UNCHANGED <<compareCalls, mishaps>>
\* cancelRunningDataCompare: the task, if it still runs, is told to stop
CancelOffered == data.step = 1 /\ data.running /\ data.progress # 0
cancelRunningDataCompare ==
  /\ CancelOffered
  /\ UNCHANGED <<pair, data, structure, compareSteps, mishaps>>
  /\ compareCalls' = {IF c.op = "task" /\ c.body.id = data.progress
                      THEN Call("canceled", c.body) ELSE c : c \in compareCalls}

\* what a comparison of these tables may find; every set of insertions, and one
\* difference of each other type
ResultsOf(c, tables) ==
  {[id |-> c.body.id, pair |-> c.body.pair, tables |-> tables, keyed |-> keyed, rows |-> rows] :
     keyed \in BOOLEAN, rows \in {f \in [Keys -> SUBSET Differences] : \A k \in Keys :
                 f[k] = (IF k[1] \notin tables THEN {}
                         ELSE IF k[2] = "insert" THEN f[k] ELSE {First(Differences)})}}

TaskCompletes(c) ==
  /\ c.op = "task" /\ DataAnswer /\ UNCHANGED mishaps
  /\ \E tables \in SUBSET c.body.tables : \E r \in ResultsOf(c, tables) :
          /\ data' = [data EXCEPT !.step = 3, !.running = FALSE, !.progress = 0, !.result = r,
                        !.selection = AllSelected, !.pages = NoPages,
                        !.table = IF tables = {} THEN NoTable ELSE First(tables), !.type = "insert"]
          /\ compareCalls' = (compareCalls \ {c}) \cup {Call("history", [result |-> r])}
\* failed, canceled, or an error while polling
TaskFails(c) ==
  /\ c.op \in {"task", "canceled"} /\ Returned(c) /\ data' = RunFailed /\ DataAnswer /\ UNCHANGED mishaps

\* addCompareHistory and refreshCompareHistoryState, then the first page of the first table:
\* of the result of this comparison, whichever the screen shows by now
HistoryAnswer(c) ==
  /\ c.op = "history" /\ DataAnswer
  /\ LET r == c.body.result
         t == First(r.tables)
     IN IF r.tables = {} THEN Returned(c) /\ UNCHANGED <<data, mishaps>>
        ELSE /\ data' = PageAsked(data, r, t, "insert", TRUE)
             /\ compareCalls' = (compareCalls \ {c}) \cup
                  (IF r.rows[<<t, "insert">>] = {} THEN {} ELSE {PageCall(r, t, "insert", TRUE, 0)})
             /\ Noting("outdated", r.id # data.result.id)
\* the history cannot be written: reported as a failed comparison, and no page is asked for
HistoryFails(c) ==
  /\ c.op = "history" /\ Returned(c) /\ data' = RunFailed /\ DataAnswer /\ Noting("unrecorded", TRUE)

----------------------------------------------------------------------------
(* The data comparison: checking and unchecking differences. *)

UpdateSelection(t, item) ==
  ResultShown /\ data' = [data EXCEPT !.selection[t] = item] /\ DataGesture /\ UNCHANGED compareCalls

toggleDataCompareResultTableSelection(t) ==
  LET checked == ~TableChecked(t)
      item == data.selection[t]
  IN /\ t \in data.result.tables
     /\ UpdateSelection(t, [on |-> checked, act |-> [ty \in DetailTypes |-> checked],
                            excluded |-> IF checked THEN [ty \in DetailTypes |-> {}] ELSE item.excluded])

toggleDataCompareResultActionSelection(t, ty) ==
  LET checked == ~ActionChecked(t, ty)
      item == data.selection[t]
      act == [item.act EXCEPT ![ty] = checked]
  IN /\ t \in data.result.tables
     /\ UpdateSelection(t, [on |-> (checked \/ item.on) /\ \E u \in DetailTypes : act[u], act |-> act,
                            excluded |-> IF checked THEN [item.excluded EXCEPT ![ty] = {}] ELSE item.excluded])

\* the boxes of the rows that are listed
ListedRows ==
  IF data.table = NoTable \/ data.pages[<<data.table, data.type>>].failed THEN {}
  ELSE data.pages[<<data.table, data.type>>].items
\* toggleExcludedSignature
toggleDataCompareDetailSelection(row) ==
  LET t == data.table
      ty == data.type
  IN /\ row \in ListedRows
     /\ UpdateSelection(t, [data.selection[t] EXCEPT !.excluded[ty] =
          IF isDataCompareDetailSelected(t, ty, row) THEN @ \cup {Signature(row)} ELSE @ \ {Signature(row)}])

----------------------------------------------------------------------------
(* The structure comparison. *)

StructureOffered == (structure.step = 1 /\ ~structure.loading) \/ structure.step = 3
runStructureCompareFlow ==
  /\ StructureOffered
  /\ pair # NoPair
  /\ compareSteps.compares < MaxCompares /\ compareSteps' = [compareSteps EXCEPT !.compares = @ + 1]
  /\ Send(Call("structure", [id |-> compareSteps.compares + 1, pair |-> pair]))
  /\ structure' = [structure EXCEPT !.loading = TRUE, !.progress = 0] /\ UNCHANGED <<pair, data, mishaps>>
StructureProgress(c) ==
  /\ c.op = "structure" /\ structure.progress # c.body.id
  /\ structure' = [structure EXCEPT !.progress = c.body.id] /\ StructureAnswer /\ UNCHANGED <<compareCalls, mishaps>>
cancelRunningStructureCompare ==
  /\ structure.step = 1 /\ structure.loading /\ structure.progress # 0
  /\ UNCHANGED <<pair, data, structure, compareSteps, mishaps>>
  /\ compareCalls' = {IF c.op = "structure" /\ c.body.id = structure.progress
                      THEN Call("structureCanceled", c.body) ELSE c : c \in compareCalls}

\* the whole state is replaced: every difference is selected, no detail is known
StructureCompletes(c) ==
  /\ c.op = "structure" /\ StructureAnswer /\ UNCHANGED mishaps
  /\ \E differs \in [CompareTables -> Categories \cup {"same"}] :
       LET items == [k \in Categories |-> {t \in CompareTables : differs[t] = k}]
       IN structure' = [defaultStructureCompareState EXCEPT !.step = 2, !.selection = items,
                          !.result = [id |-> c.body.id, pair |-> c.body.pair, items |-> items]]
  /\ compareCalls' = (compareCalls \ {c}) \cup {Call("structureHistory", c.body)}
StructureFails(c) ==
  /\ c.op \in {"structure", "structureCanceled", "structureHistory"} /\ Returned(c)
  /\ structure' = [structure EXCEPT !.loading = FALSE, !.progress = 0] /\ StructureAnswer /\ UNCHANGED mishaps
StructureRecorded(c) ==
  c.op = "structureHistory" /\ Returned(c) /\ StructureAnswer /\ UNCHANGED <<structure, mishaps>>

setStructureCompareStep(step) ==
  /\ \/ structure.step \in {2, 3} /\ step = structure.step - 1
     \/ structure.step = 2 /\ step = 3 /\ \E k \in Categories : structure.selection[k] # {}
  /\ structure' = [structure EXCEPT !.step = step] /\ StructureGesture /\ UNCHANGED compareCalls

\* the boxes of the categories and of the tables in them
ItemsOffered(k, items) ==
  /\ structure.step = 2
  /\ \/ items \in {{}, structure.result.items[k]}
     \/ \E t \in structure.result.items[k] :
          items \in {structure.selection[k] \cup {t}, structure.selection[k] \ {t}}
\* toggleStructureCategorySelection and toggleStructureTableSelection
SelectItems(k, items) ==
  /\ ItemsOffered(k, items) /\ items # structure.selection[k]
  /\ structure' = [structure EXCEPT !.selection[k] = items] /\ StructureGesture /\ UNCHANGED compareCalls

\* toggleStructureDetail: an expanded item is closed, unless its panel asks for a reload
toggleStructureDetail(k, t, forceReload) ==
  /\ structure.step = 2 /\ t \in structure.result.items[k] /\ StructureGesture
  /\ forceReload => <<k, t>> \in structure.expanded /\ structure.details[<<k, t>>].failed
  /\ IF <<k, t>> \in structure.expanded /\ ~forceReload
     THEN structure' = [structure EXCEPT !.expanded = @ \ {<<k, t>>}] /\ UNCHANGED compareCalls
     ELSE /\ Send(Call("detail", [of |-> structure.result.id, key |-> <<k, t>>]))
          /\ structure' = [structure EXCEPT !.expanded = @ \cup {<<k, t>>}, !.details[<<k, t>>] = [@ EXCEPT !.loading = TRUE, !.failed = FALSE]]

DetailAnswer(c) ==
  /\ c.op = "detail" /\ Returned(c) /\ StructureAnswer /\ Noting("outdated", c.body.of # structure.result.id)
  /\ \/ structure' = [structure EXCEPT !.details[c.body.key] = [NoDetail EXCEPT !.of = c.body.of]]
     \/ structure' = [structure EXCEPT !.details[c.body.key] = [@ EXCEPT !.loading = FALSE, !.failed = TRUE]]

----------------------------------------------------------------------------
Answer(c) ==
  \/ DiscoverAnswer(c) \/ PageArrives(c) \/ PageFails(c) \/ TaskCompletes(c) \/ TaskFails(c)
  \/ HistoryAnswer(c) \/ HistoryFails(c) \/ StructureCompletes(c) \/ StructureFails(c)
  \/ StructureRecorded(c) \/ DetailAnswer(c)

Next ==
  \/ \E p \in ComparePairs \cup {NoPair} : Choose(p)
  \/ discoverCompareTables \/ setDataCompareStep \/ \E tables \in SUBSET CompareTables : SelectTables(tables)
  \/ runDataCompareFlow \/ RunRefused \/ cancelRunningDataCompare \/ LoadMore
  \/ \E t \in CompareTables : selectDataCompareResultTable(t) \/ toggleDataCompareResultTableSelection(t)
  \/ \E ty \in DetailTypes : switchDataCompareDetailType(ty)
  \/ \E t \in CompareTables, ty \in DetailTypes : toggleDataCompareResultActionSelection(t, ty)
  \/ \E row \in Differences : toggleDataCompareDetailSelection(row)
  \/ runStructureCompareFlow \/ cancelRunningStructureCompare
  \/ \E step \in 1..3 : setStructureCompareStep(step)
  \/ \E k \in Categories, items \in SUBSET CompareTables : SelectItems(k, items)
  \/ \E k \in Categories, t \in CompareTables, force \in BOOLEAN : toggleStructureDetail(k, t, force)
  \/ \E c \in compareCalls : TaskProgress(c) \/ StructureProgress(c) \/ Answer(c)

\* every request is answered, and every task ends
Fairness == WF_compareVars(\E c \in compareCalls : Answer(c))
Spec == Init /\ [][Next]_compareVars /\ Fairness

----------------------------------------------------------------------------
\* Type invariant: steps, selections and pages are in the ranges their views know.
CompareTypeOK ==
  /\ pair \in ComparePairs \cup {NoPair} /\ {data.step, structure.step} \subseteq 1..3
  /\ data.table \in CompareTables \cup {NoTable} /\ data.type \in DetailTypes
  /\ \A k \in Keys : data.pages[k].items \subseteq Differences
  /\ \A k \in Categories : structure.selection[k] \subseteq structure.result.items[k]

\* The SQL file holds exactly the differences whose boxes the screen shows as checked, after
\* any sequence of comparisons and of clicks on tables, types and single differences, listed
\* or not; unless a page of a result that is no longer shown was listed, whose differences
\* can then be excluded from the wrong result.  The counters, which subtract signatures from
\* rows, promise that very number where rows have keys, and never too few elsewhere.
ExportsWhatIsChecked ==
  "outdated" \notin mishaps =>
    /\ Exported = {d \in data.result.tables \X DetailTypes \X Differences :
                     d[3] \in Rows(d[1], d[2]) /\ isDataCompareDetailSelected(d[1], d[2], d[3])}
    /\ \A t \in data.result.tables, ty \in DetailTypes :
         LET count == Cardinality({x \in Exported : x[1] = t /\ x[2] = ty})
         IN Selected(t, ty) >= count /\ (data.result.keyed => Selected(t, ty) = count)

\* A result on either screen, and the SQL exported from it, is of the databases the form
\* names, unless the form was changed while a comparison was on its way.
ResultIsOfTheForm ==
  "switched" \notin mishaps =>
    /\ data.result.id # 0 => data.result.pair = pair
    /\ structure.result.id # 0 => structure.result.pair = pair

\* The differences listed are the first ones of the result shown, and none is said to be all
\* there is while others are left: a page not listed is on its way or failed.  Not so once an
\* answer arrived for a page or a result other than the one shown, once a page was
\* asked for again before it came (its rows are then listed twice), or when the history failed.
\* A detail on the structure screen is of the result shown as well, unless it came too late.
ListedIsTheResult ==
  /\ "outdated" \notin mishaps =>
       \A k \in Categories \X CompareTables : structure.details[k].of \in {0, structure.result.id}
  /\ (ResultShown /\ data.table # NoTable /\ mishaps \cap {"outdated", "doubled", "pruned", "unrecorded"} = {}) =>
       LET rows == Rows(data.table, data.type)
           page == data.pages[<<data.table, data.type>>]
       IN /\ page.items = {r \in rows : Cardinality({q \in rows : q < r}) < page.fetched}
          /\ page.loaded => page.more = (page.fetched < Cardinality(rows))
          /\ page.loaded \/ page.failed \/ rows = {} \/ InFlight("page") \/ InFlight("history")

\* One of the screens shows that it waits for tables, a task, a page or a detail.
CompareBusy ==
  \/ data.loadingTables \/ data.running \/ structure.loading
  \/ \E k \in Keys : data.pages[k].loading
  \/ \E k \in Categories \X CompareTables : structure.details[k].loading
=============================================================================

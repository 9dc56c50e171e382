------------------------------- MODULE DataTab -------------------------------
(***************************************************************************)
(* The data tab of one table: the grid the user edits, the pages it loads, *)
(* and the commit of its pending rows through the SQL preview dialog       *)
(* (features/workspace/useTableWorkspaceDomain.ts, features/table-data/).  *)
(*                                                                         *)
(* Every request of the screen is a pair of steps: the server executes it  *)
(* and the answer reaches the screen later, in any order and at whatever   *)
(* state the tab then is in.  A cell value is 0 or 1, a row has one cell,  *)
(* the ORDER BY clause behaves as the WHERE clause and is left out.        *)
(***************************************************************************)
EXTENDS Integers, Sequences, FiniteSets, Ordered

CONSTANTS InitialKeys,   \* primary keys in the table at first
          MaxKey,        \* bound: keys an INSERT may still take
          PageSize,      \* rows of one page (100 in the code)
          MaxGestures,   \* bound: what the user does to the tab
          MaxCalls       \* bound: requests on their way at a time

VARIABLES table,      \* the server's table: key -> value
          grid,       \* the tab, or Closed
          pages,      \* page loads on their way
          previews,   \* preview requests on their way: their payloads
          dialog,     \* the SQL preview dialog, or NoDialog
          applies,    \* confirmed payloads on their way
          gestures,   \* gestures spent, also the source of client ids
          inserted    \* ghost: client ids of rows the server has inserted

dataVars == <<table, grid, pages, previews, dialog, applies, gestures, inserted>>

Closed == [open |-> FALSE]
NoDialog == [shown |-> FALSE]
Filters == {"", "ones"}          \* two WHERE clauses
NoKey == 0                       \* a row without row_key

----------------------------------------------------------------------------
(* The server. *)

\* the rows a WHERE clause selects, in key order, as the server answers them
Selected(w) == InOrder({k \in DOMAIN table : w = "" \/ table[k] = 1})

\* loadTableData: one page; the total is known only on the last page
PageAnswer(w, offset) ==
  LET all  == Selected(w)
      more == Len(all) > offset + PageSize
      keys == SubSeq(all, offset + 1, IF more THEN offset + PageSize ELSE Len(all))
  IN [keys |-> keys, vals |-> [i \in DOMAIN keys |-> table[keys[i]]],
      total |-> offset + Len(keys) + (IF more THEN 1 ELSE 0), exact |-> ~more]

----------------------------------------------------------------------------
(* The grid (dataMutations.ts). *)

\* createGridRow; the client id of a loaded row is its key, that of an added row is negative
GridRow(key, val) ==
  [id |-> key, selected |-> FALSE, state |-> "clean", key |-> key, orig |-> val, val |-> val]

Changed(row) == row.val # row.orig          \* buildChangedDataValues is not empty

hasPendingDataMutations(rows) ==
  \E i \in DOMAIN rows :
     \/ rows[i].state \in {"new", "deleted"}
     \/ rows[i].state = "updated" /\ rows[i].key # NoKey /\ Changed(rows[i])

\* The payload of a commit; <<>> is the code's null
buildDataMutationPayload(rows) ==
  LET of(S) == {i \in DOMAIN rows : rows[i].state = S}
      ins == {[id |-> rows[i].id, val |-> rows[i].val] : i \in of("new")}
      upd == {[key |-> rows[i].key, val |-> rows[i].val] :
                 i \in {j \in of("updated") : rows[j].key # NoKey /\ Changed(rows[j])}}
      del == {rows[i].key : i \in {j \in of("deleted") : rows[j].key # NoKey}}
  IN IF ins = {} /\ upd = {} /\ del = {} THEN <<>>
     ELSE [ins |-> ins, upd |-> upd, del |-> del]

hasSelectedDataRowsForDelete(rows) ==
  \E i \in DOMAIN rows : rows[i].selected /\ rows[i].state # "deleted"

hasRestorableSelectedDataRows(rows) ==
  \E i \in DOMAIN rows : rows[i].selected /\
     (rows[i].state \in {"new", "deleted"} \/ (rows[i].state = "updated" /\ Changed(rows[i])))

----------------------------------------------------------------------------
(* Tabs (useWorkspaceTabsState.ts): patchTab finds no tab once it is closed. *)

patchTab(f) == grid' = IF grid.open THEN [k \in DOMAIN grid |-> IF k \in DOMAIN f THEN f[k] ELSE grid[k]]
                                    ELSE grid
Gesture == gestures < MaxGestures /\ gestures' = gestures + 1
Editing == grid.open /\ ~dialog.shown       \* the dialog is modal

\* refreshDataTab up to its await; the request keeps the clauses it was made with
RequestPage(w, offset) ==
  /\ Cardinality(pages) < MaxCalls
  /\ \E n \in 1..MaxCalls : /\ \A p \in pages : p.n # n
                            /\ pages' = pages \cup {[n |-> n, where |-> w, offset |-> offset, answer |-> <<>>]}

Init ==
  /\ table \in [InitialKeys -> {0, 1}]
  /\ grid = Closed /\ pages = {} /\ previews = {} /\ dialog = NoDialog
  /\ applies = {} /\ gestures = 0 /\ inserted = {}

\* openTableTab('data'): a tab of that id, with whatever it held, is replaced
OpenTable ==
  /\ ~dialog.shown /\ Gesture
  /\ grid' = [open |-> TRUE, status |-> "loading", rows |-> <<>>, where |-> "", typed |-> FALSE,
              offset |-> 0, total |-> 0, exact |-> TRUE]
  /\ RequestPage("", 0)
  /\ UNCHANGED <<table, previews, dialog, applies, inserted>>

\* removeTab
CloseTab ==
  /\ Editing /\ Gesture /\ grid' = Closed
  /\ UNCHANGED <<table, pages, previews, dialog, applies, inserted>>

Reload(offset) ==
  /\ RequestPage(grid.where, offset) /\ patchTab([status |-> "loading"])
  /\ UNCHANGED <<table, previews, dialog, applies, inserted>>

\* 刷新 keeps the offset, 应用条件 starts at the first page; neither waits for a load
Refresh == Editing /\ Gesture /\ Reload(grid.offset)
ApplyFilter == Editing /\ Gesture /\ Reload(0)

\* changeDataPage under the pager's guards (DataEditorView.tsx): the range shown,
\* the ends of the table, and the handler's own early returns
RangeEnd == IF Len(grid.rows) = 0 THEN 0
            ELSE IF grid.offset + Len(grid.rows) < grid.total THEN grid.offset + Len(grid.rows) ELSE grid.total
AtFirstPage == grid.offset <= 0 \/ grid.total = 0
AtLastPage == IF grid.exact THEN RangeEnd >= grid.total ELSE Len(grid.rows) < PageSize
LastOffset == IF grid.total = 0 THEN 0 ELSE ((grid.total - 1) \div PageSize) * PageSize
NextOffset(direction) ==
  CASE direction = "first" -> 0
    [] direction = "prev"  -> IF grid.offset > PageSize THEN grid.offset - PageSize ELSE 0
    [] direction = "next"  -> IF Len(grid.rows) < PageSize THEN grid.offset ELSE grid.offset + PageSize
    [] direction = "last"  -> IF ~grid.exact THEN grid.offset ELSE LastOffset
PagerOffers(direction) ==
  /\ grid.status # "loading"
  /\ IF direction \in {"first", "prev"} THEN ~AtFirstPage ELSE ~AtLastPage
  /\ direction = "last" => grid.exact
changeDataPage(direction) ==
  /\ Editing /\ PagerOffers(direction) /\ Gesture
  /\ NextOffset(direction) # grid.offset \/ direction = "first"
  /\ Reload(NextOffset(direction))

\* updateDataQueryField: typing in the WHERE box loads nothing
TypeFilter(w) ==
  /\ Editing /\ w # grid.where /\ Gesture /\ patchTab([where |-> w, typed |-> TRUE])
  /\ UNCHANGED <<table, pages, previews, dialog, applies, inserted>>

----------------------------------------------------------------------------
(* Editing rows. *)

Patched(rows) ==
  /\ Gesture /\ patchTab([rows |-> rows])
  /\ UNCHANGED <<table, pages, previews, dialog, applies, inserted>>

\* selectDataRowsRange: start, end, and whether the selection is added to
SelectRange(i, j, append) ==
  /\ Editing
  /\ LET lo == IF i < j THEN i ELSE j
         hi == IF i < j THEN j ELSE i
     IN Patched([k \in DOMAIN grid.rows |->
          [grid.rows[k] EXCEPT !.selected = (k \in lo..hi) \/ (append /\ @)]])

\* updateDataRow: the state follows from the comparison with the loaded value
UpdateRow(i, v) ==
  /\ Editing /\ grid.rows[i].state # "deleted" /\ v # grid.rows[i].val
  /\ Patched([grid.rows EXCEPT ![i].val = v,
        ![i].state = IF @ = "new" THEN "new" ELSE IF v = grid.rows[i].orig THEN "clean" ELSE "updated"])

\* addDataRow: there is no loaded value to compare with
AddRow ==
  /\ Editing
  /\ Patched(Append(grid.rows, [GridRow(NoKey, 0) EXCEPT !.id = -gestures, !.state = "new"]))

\* the rows that are not both marked and added
Kept == {i \in DOMAIN grid.rows : ~(grid.rows[i].selected /\ grid.rows[i].state = "new")}

\* deleteSelectedDataRows: added rows go, loaded ones are marked
DeleteRows ==
  /\ Editing /\ hasSelectedDataRowsForDelete(grid.rows)
  /\ LET mark(row) == IF row.selected THEN [row EXCEPT !.state = "deleted", !.selected = FALSE] ELSE row
         kept == At(grid.rows, Kept)
     IN Patched([k \in DOMAIN kept |-> mark(kept[k])])

\* restoreSelectedDataRows: added rows go, the others are as loaded
RestoreRows ==
  /\ Editing /\ hasRestorableSelectedDataRows(grid.rows)
  /\ LET back(row) == IF row.selected THEN GridRow(row.key, row.orig) ELSE row
         kept == At(grid.rows, Kept)
     IN Patched([k \in DOMAIN kept |-> back(kept[k])])

----------------------------------------------------------------------------
(* Committing: preview, confirm, apply, reload (commitDataChanges). *)

\* Slip: a commit is taken without looking whether there is anything to commit
CommitAnything ==
  /\ Editing /\ Gesture /\ Cardinality(previews) < MaxCalls
  /\ previews' = previews \cup {[payload |-> buildDataMutationPayload(grid.rows), where |-> grid.where,
                               offset |-> grid.offset]}
  /\ UNCHANGED <<table, grid, pages, dialog, applies, inserted>>

\* commitDataChanges up to its await: the payload is taken now
Commit ==
  /\ Editing /\ hasPendingDataMutations(grid.rows)
  /\ LET payload == buildDataMutationPayload(grid.rows)
     IN /\ payload # <<>> /\ Gesture /\ Cardinality(previews) < MaxCalls
        /\ previews' = previews \cup {[payload |-> payload, where |-> grid.where, offset |-> grid.offset]}
  /\ UNCHANGED <<table, grid, pages, dialog, applies, inserted>>

\* the preview arrives and takes the dialog's place, whatever it shows; or it fails
PreviewAnswer(p, ok) ==
  /\ previews' = previews \ {p}
  /\ dialog' = IF ok THEN [shown |-> TRUE, busy |-> FALSE, commit |-> p] ELSE dialog
  /\ UNCHANGED <<table, grid, pages, applies, gestures, inserted>>

\* 取消
CloseDialog ==
  /\ dialog.shown /\ ~dialog.busy /\ dialog' = NoDialog
  /\ UNCHANGED <<table, grid, pages, previews, applies, gestures, inserted>>

\* on_confirm up to its await
Confirm ==
  /\ dialog.shown /\ ~dialog.busy /\ Cardinality(applies) < MaxCalls
  /\ dialog' = [dialog EXCEPT !.busy = TRUE]
  /\ applies' = applies \cup {[commit |-> dialog.commit, done |-> "no"]}
  /\ UNCHANGED <<table, grid, pages, previews, gestures, inserted>>

\* apply_table_data_changes: one transaction that deletes, updates and inserts
ServeApply(a, ok) ==
  /\ a.done = "no"
  /\ LET pay  == a.commit.payload
         left == DOMAIN table \ pay.del
         free == {k \in 1..MaxKey : k \notin DOMAIN table}
         \* the key of a new row: rows are inserted in the order they were added
         keyOf(r) == InOrder(free)[Cardinality({q \in pay.ins : q.id > r.id}) + 1]
         valueOf(k) == IF \E u \in pay.upd : u.key = k
                       THEN (CHOOSE u \in pay.upd : u.key = k).val ELSE table[k]
     IN IF ok
        THEN /\ Cardinality(pay.ins) <= Cardinality(free)
             /\ table' = [k \in left \cup {keyOf(r) : r \in pay.ins} |->
                            IF k \in left THEN valueOf(k)
                            ELSE (CHOOSE r \in pay.ins : keyOf(r) = k).val]
             /\ inserted' = inserted \cup {r.id : r \in pay.ins}
        ELSE UNCHANGED <<table, inserted>>
  /\ applies' = (applies \ {a}) \cup {[a EXCEPT !.done = IF ok THEN "ok" ELSE "failed"]}
  /\ UNCHANGED <<grid, pages, previews, dialog, gestures>>

\* Slip: the page is not loaded again after a commit
ApplyAnswerNoReload(a) ==
  /\ applies' = applies \ {a}
  /\ dialog' = IF a.done = "ok" THEN NoDialog ELSE [dialog EXCEPT !.busy = FALSE]
  /\ a.done # "no"
  /\ UNCHANGED <<table, grid, pages, previews, gestures, inserted>>

\* on_confirm after its await: on success the dialog closes and the page of the
\* time of the commit is loaded again, on failure the dialog can be used again
ApplyAnswer(a) ==
  /\ applies' = applies \ {a}
  /\ \/ /\ a.done = "ok" /\ dialog' = NoDialog
        /\ RequestPage(a.commit.where, a.commit.offset) /\ patchTab([status |-> "loading"])
     \/ /\ a.done = "failed"
        /\ dialog' = IF dialog.shown THEN [dialog EXCEPT !.busy = FALSE] ELSE dialog
        /\ UNCHANGED <<pages, grid>>
  /\ UNCHANGED <<table, previews, gestures, inserted>>

----------------------------------------------------------------------------
(* Pages arrive. *)

ServePage(p) ==
  /\ p.answer = <<>>
  /\ pages' = (pages \ {p}) \cup {[p EXCEPT !.answer = PageAnswer(p.where, p.offset)]}
  /\ UNCHANGED <<table, grid, previews, dialog, applies, gestures, inserted>>

\* Slip: the filter box keeps the text it has now
PageArrivesKeepsFilter(p) ==
  /\ p.answer # <<>>
  /\ pages' = pages \ {p}
  /\ patchTab([status |-> "ready", typed |-> FALSE, offset |-> p.offset,
               total |-> p.answer.total, exact |-> p.answer.exact,
               rows |-> [i \in DOMAIN p.answer.keys |-> GridRow(p.answer.keys[i], p.answer.vals[i])]])
  /\ UNCHANGED <<table, previews, dialog, applies, gestures, inserted>>

\* refreshDataTab after its await: whatever the tab holds by now is replaced
PageArrives(p) ==
  /\ p.answer # <<>>
  /\ pages' = pages \ {p}
  /\ patchTab([status |-> "ready", where |-> p.where, typed |-> FALSE, offset |-> p.offset,
               total |-> p.answer.total, exact |-> p.answer.exact,
               rows |-> [i \in DOMAIN p.answer.keys |-> GridRow(p.answer.keys[i], p.answer.vals[i])]])
  /\ UNCHANGED <<table, previews, dialog, applies, gestures, inserted>>

\* Slip: a failed load leaves the tab as it is
PageFailsSilently(p) ==
  /\ pages' = pages \ {p} /\ patchTab(<<>>)
  /\ UNCHANGED <<table, previews, dialog, applies, gestures, inserted>>

\* its catch: only the status changes
PageFails(p) ==
  /\ pages' = pages \ {p} /\ patchTab([status |-> "error"])
  /\ UNCHANGED <<table, previews, dialog, applies, gestures, inserted>>

\* the user, and whoever shares the table
OtherClient ==
  /\ Gesture /\ \E k \in DOMAIN table : table' = [table EXCEPT ![k] = 1 - @]
  /\ UNCHANGED <<grid, pages, previews, dialog, applies, inserted>>

PageStep(n) == \E p \in pages : p.n = n /\ (ServePage(p) \/ PageArrives(p) \/ PageFails(p))
PreviewStep == \E p \in previews, ok \in BOOLEAN : PreviewAnswer(p, ok)
ApplyStep == \E a \in applies : ApplyAnswer(a) \/ \E ok \in BOOLEAN : ServeApply(a, ok)

Next ==
  \/ OpenTable \/ CloseTab \/ Refresh \/ ApplyFilter \/ OtherClient
  \/ \E w \in Filters : TypeFilter(w)
  \/ \E d \in {"first", "prev", "next", "last"} : grid.open /\ changeDataPage(d)
  \/ AddRow \/ DeleteRows \/ RestoreRows
  \/ grid.open /\ \E i, j \in DOMAIN grid.rows, append \in BOOLEAN : SelectRange(i, j, append)
  \/ grid.open /\ \E i \in DOMAIN grid.rows, v \in {0, 1} : UpdateRow(i, v)
  \/ Commit \/ CloseDialog \/ Confirm
  \/ \E n \in 1..MaxCalls : PageStep(n)
  \/ PreviewStep \/ ApplyStep

\* a request that was sent is executed and its answer comes back, or an error does
Fairness == /\ \A n \in 1..MaxCalls : WF_dataVars(PageStep(n))
            /\ WF_dataVars(PreviewStep) /\ WF_dataVars(ApplyStep)

Spec == Init /\ [][Next]_dataVars /\ Fairness

----------------------------------------------------------------------------
RowSet == [id : Int, selected : BOOLEAN, state : {"clean", "updated", "new", "deleted"},
           key : 0..MaxKey, orig : {0, 1}, val : {0, 1}]

\* Type invariant: the tab's rows are grid rows and the dialog holds a commit.
DataTypeOK ==
  /\ DOMAIN table \subseteq 1..MaxKey
  /\ grid.open => /\ grid.status \in {"loading", "ready", "error"}
                  /\ grid.rows \in Seq(RowSet) /\ grid.where \in Filters
  /\ dialog.shown => dialog.commit.payload # <<>>
  /\ gestures \in 0..MaxGestures

\* A row the server has inserted does not stay in the grid as one still to be
\* inserted (committing it again would insert it twice), except while its apply
\* or a load is on the way, or after a load failed, which the tab then shows.
InsertedRowsLeave ==
  (grid.open /\ grid.status = "ready" /\ pages = {} /\ applies = {}) =>
     \A i \in DOMAIN grid.rows : grid.rows[i].id \notin inserted

\* The rows shown are those of the filter and the page shown with them, unless the
\* user typed since: an answer that comes late brings its own filter and offset along.
PageMatchesFilter ==
  (grid.open /\ ~grid.typed) =>
    /\ Cardinality({i \in DOMAIN grid.rows : grid.rows[i].state # "new"}) <= PageSize
    /\ \A i \in DOMAIN grid.rows :
         (grid.where = "ones" /\ grid.rows[i].state # "new") => grid.rows[i].orig = 1

\* The tab shows it is loading, or its dialog that it is busy.
DataBusy == (grid.open /\ grid.status = "loading") \/ (dialog.shown /\ dialog.busy)
=============================================================================

------------------------------- MODULE ConsoleTab -------------------------------
(***************************************************************************)
(* One SQL console and the export dialog: running what the editor holds,   *)
(* paging through the result, and exporting it or a table's rows           *)
(* (useTableWorkspaceDomain.ts, sql-console/ConsoleView.tsx).              *)
(*                                                                         *)
(* A result is known by the statement, the database and the offset it was  *)
(* run with; how many rows a query has is ResultRows.  The window's other  *)
(* gestures are those of the editor (text, default database) and the pager.*)
(***************************************************************************)
EXTENDS Integers, FiniteSets, Sequences

CONSTANTS ConsolePage,     \* rows of a page (200 in the code)
          MaxConsoleSteps, \* bound: what the user does
          MaxRuns          \* bound: statements on their way at a time

VARIABLES console,      \* the tab
          runs,         \* runConsoleSql calls on their way
          exportDialog, \* the export dialog, or its absence
          exports,      \* confirmed exports on their way
          file,         \* what the last export has written, or NoFile
          consoleSteps, \* gestures spent
          lastRun,      \* ghost: the last statement sent
          crossed       \* ghost: statements were on their way at the same time

consoleVars == <<console, runs, exportDialog, exports, file, consoleSteps, lastRun, crossed>>

NoDialog == [shown |-> FALSE]
NoFile == [kind |-> "none"]
ConsoleDatabases == {1, 2}
Statements == {"", "query", "ddl"}
ResultRows(sql, db) == 2 * ConsolePage - 1 + db

\* execute_sql: a page and one row more of a query, nothing of a statement
ExecuteSql(sql, db, offset) ==
  IF sql = "ddl" THEN [sql |-> sql, db |-> db, columns |-> FALSE, offset |-> 0, rows |-> 0,
                       total |-> 0, exact |-> TRUE, truncated |-> FALSE]
  ELSE LET left == IF ResultRows(sql, db) > offset THEN ResultRows(sql, db) - offset ELSE 0
           more == left > ConsolePage
       IN [sql |-> sql, db |-> db, columns |-> TRUE, offset |-> offset,
           rows |-> IF more THEN ConsolePage ELSE left,
           total |-> offset + (IF more THEN ConsolePage + 1 ELSE left),
           exact |-> ~more, truncated |-> more]

\* openConsoleTab: an empty result that no statement has made
Idle == [sql |-> "", db |-> 1, columns |-> FALSE, offset |-> 0, rows |-> 0, total |-> 0,
         exact |-> TRUE, truncated |-> FALSE]
Opened == [sql |-> "", db |-> 1, status |-> "ready", result |-> Idle, selected |-> FALSE]

Init ==
  /\ console = Opened /\ runs = {} /\ exportDialog = NoDialog /\ exports = {} /\ file = NoFile
  /\ consoleSteps = 0 /\ lastRun = Idle /\ crossed = FALSE

ConsoleGesture == /\ ~exportDialog.shown /\ consoleSteps < MaxConsoleSteps
                  /\ consoleSteps' = consoleSteps + 1

\* openConsoleTab on a scope whose console is open: the tab is replaced, its runs go on
openConsoleTab ==
  /\ ConsoleGesture /\ console' = Opened
  /\ UNCHANGED <<runs, exportDialog, exports, file, lastRun, crossed>>

updateConsoleSql(sql) ==
  /\ ConsoleGesture /\ sql # console.sql /\ console' = [console EXCEPT !.sql = sql]
  /\ UNCHANGED <<runs, exportDialog, exports, file, lastRun, crossed>>

\* updateConsoleDatabase: the result shown stays
updateConsoleDatabase(db) ==
  /\ ConsoleGesture /\ db # console.db /\ console' = [console EXCEPT !.db = db]
  /\ UNCHANGED <<runs, exportDialog, exports, file, lastRun, crossed>>

\* selectConsoleRowsRange, as far as the export looks at it
selectConsoleRowsRange ==
  /\ ConsoleGesture /\ console.result.rows > 0 /\ ~console.selected
  /\ console' = [console EXCEPT !.selected = TRUE]
  /\ UNCHANGED <<runs, exportDialog, exports, file, lastRun, crossed>>

\* runConsoleSql up to its await: what the editor holds now is sent
runConsoleSql(offset) ==
  /\ Cardinality(runs) < MaxRuns
  /\ LET run == [sql |-> console.sql, db |-> console.db, offset |-> offset]
     IN /\ \E n \in 1..MaxRuns : /\ \A r \in runs : r.n # n
                                 /\ runs' = runs \cup {[n |-> n, run |-> run]}
        /\ lastRun' = ExecuteSql(run.sql, run.db, run.offset)
  /\ crossed' = (runs # {})
  /\ console' = [console EXCEPT !.status = "loading"]
  /\ UNCHANGED <<exportDialog, exports, file>>

\* the run button, which a run disables, and the editor's shortcut, which it does not
Run == ConsoleGesture /\ runConsoleSql(0)

\* changeConsolePage under the pager's guards
RangeEnd == IF console.result.rows = 0 THEN 0
            ELSE IF console.result.offset + console.result.rows < console.result.total
                 THEN console.result.offset + console.result.rows ELSE console.result.total
AtFirstPage == console.result.offset <= 0 \/ console.result.total = 0
AtLastPage == IF console.result.exact THEN RangeEnd >= console.result.total
              ELSE ~console.result.truncated
NextOffset(direction) ==
  LET r == console.result IN
  CASE direction = "first" -> 0
    [] direction = "prev"  -> IF r.offset > ConsolePage THEN r.offset - ConsolePage ELSE 0
    [] direction = "next"  -> IF r.truncated THEN r.offset + ConsolePage ELSE r.offset
    [] direction = "last"  -> IF ~r.exact THEN r.offset
                              ELSE IF r.total = 0 THEN 0
                              ELSE ((r.total - 1) \div ConsolePage) * ConsolePage
PagerOffers(direction) ==
  /\ console.status # "loading" /\ console.result.columns
  /\ IF direction \in {"first", "prev"} THEN ~AtFirstPage ELSE ~AtLastPage
  /\ direction = "last" => console.result.exact
changeConsolePage(direction) ==
  /\ ConsoleGesture /\ PagerOffers(direction)
  /\ NextOffset(direction) # console.result.offset \/ direction = "first"
  /\ runConsoleSql(NextOffset(direction))

\* Slip: the offset stays that of the result before
RunAnswerKeepsOffset(r) ==
  /\ runs' = runs \ {r}
  /\ LET answer == ExecuteSql(r.run.sql, r.run.db, r.run.offset)
     IN \/ /\ r.run.sql # ""
           /\ console' = [console EXCEPT !.status = "ready", !.selected = FALSE,
                               !.result = [answer EXCEPT !.offset = console.result.offset]]
        \/ console' = [console EXCEPT !.status = "error"]
  /\ UNCHANGED <<exportDialog, exports, file, consoleSteps, lastRun, crossed>>

\* runConsoleSql after its await: the whole result is replaced, or only the error is shown
RunAnswer(r) ==
  /\ runs' = runs \ {r}
  /\ \/ /\ r.run.sql # ""
        /\ console' = [console EXCEPT !.status = "ready", !.selected = FALSE,
                            !.result = ExecuteSql(r.run.sql, r.run.db, r.run.offset)]
     \/ console' = [console EXCEPT !.status = "error"]
  /\ UNCHANGED <<exportDialog, exports, file, consoleSteps, lastRun, crossed>>

----------------------------------------------------------------------------
(* Exports. *)

\* the dialog keeps what it was opened with: the rows loaded and the call that reloads all
Dialog(kind, scope, rows, selected, query) ==
  [shown |-> TRUE, busy |-> FALSE, kind |-> kind, scope |-> scope,
   rows |-> rows, selected |-> selected, query |-> query]

\* openQueryResultExportDialog: the statement that made the result, the database of now
openQueryResultExportDialog ==
  /\ ConsoleGesture /\ console.status # "loading" /\ console.result.columns
  /\ LET r == console.result
         chosen == IF console.selected THEN {1} ELSE {}
     IN exportDialog' = Dialog("query_result", IF chosen # {} THEN "selected_rows" ELSE "current_page",
            1..r.rows, chosen, [shownOf |-> r, sql |-> r.sql, db |-> console.db])
  /\ UNCHANGED <<console, runs, exports, file, lastRun, crossed>>

\* openDataExportDialog on a grid whose rows are as given: deleted rows are left out
openDataExportDialog(rows, chosen, deleted) ==
  LET kept == rows \ deleted
      sel  == chosen \ deleted
  IN /\ ConsoleGesture
     /\ exportDialog' = Dialog("table_data",
          IF sel # {} THEN "selected_rows" ELSE IF kept # {} THEN "current_page" ELSE "all_rows",
          kept, sel, [shownOf |-> Idle, sql |-> "", db |-> 1])
     /\ UNCHANGED <<console, runs, exports, file, lastRun, crossed>>

\* openTableExportDialog of a table no tab shows
openTableExportDialog ==
  /\ ConsoleGesture
  /\ exportDialog' = Dialog("table_data", "all_rows", {}, {}, [shownOf |-> Idle, sql |-> "", db |-> 1])
  /\ UNCHANGED <<console, runs, exports, file, lastRun, crossed>>

\* the scopes the dialog offers (getExportScopeOptions)
Offered(dialog, scope) ==
  CASE scope = "selected_rows" -> dialog.selected # {}
    [] scope = "all_rows"      -> TRUE
    [] scope = "current_page"  -> dialog.kind = "query_result" \/ dialog.rows # {}
updateExportDialogScope(scope) ==
  /\ exportDialog.shown /\ ~exportDialog.busy /\ Offered(exportDialog, scope)
  /\ exportDialog' = [exportDialog EXCEPT !.scope = scope]
  /\ UNCHANGED <<console, runs, exports, file, consoleSteps, lastRun, crossed>>
closeExportDialog ==
  /\ exportDialog.shown /\ ~exportDialog.busy /\ exportDialog' = NoDialog
  /\ UNCHANGED <<console, runs, exports, file, consoleSteps, lastRun, crossed>>

\* confirmExportDialog, or copyExportDialogSql of an SQL export, up to the await
confirmExportDialog ==
  /\ exportDialog.shown /\ ~exportDialog.busy
  /\ exportDialog' = [exportDialog EXCEPT !.busy = TRUE]
  /\ exports' = exports \cup {exportDialog}
  /\ UNCHANGED <<console, runs, file, consoleSteps, lastRun, crossed>>

\* what an export of a dialog contains: all rows are read anew, the others are the dialog's
Written(d) ==
  [scope |-> d.scope, kind |-> d.kind, query |-> d.query,
   rows |-> IF d.scope = "selected_rows" THEN d.selected ELSE d.rows]

\* after the await: the file is written and the dialog closes, or (cancelled, failed) it stays
ExportAnswer(d) ==
  /\ exports' = exports \ {d}
  /\ \/ exportDialog' = NoDialog /\ file' = Written(d)
     \/ /\ exportDialog' = IF exportDialog.shown THEN [exportDialog EXCEPT !.busy = FALSE]
                           ELSE exportDialog
        /\ UNCHANGED file
  /\ UNCHANGED <<console, runs, consoleSteps, lastRun, crossed>>

RunStep(n) == \E r \in runs : r.n = n /\ RunAnswer(r)
ExportStep == \E d \in exports : ExportAnswer(d)

Next ==
  \/ openConsoleTab \/ Run \/ selectConsoleRowsRange
  \/ \E sql \in Statements : updateConsoleSql(sql)
  \/ \E db \in ConsoleDatabases : updateConsoleDatabase(db)
  \/ \E d \in {"first", "prev", "next", "last"} : changeConsolePage(d)
  \/ openQueryResultExportDialog \/ openTableExportDialog
  \/ \E chosen \in {{}, {1}}, deleted \in {{}, {1}, {1, 2}} : openDataExportDialog({1, 2}, chosen, deleted)
  \/ \E scope \in {"current_page", "all_rows", "selected_rows"} : updateExportDialogScope(scope)
  \/ closeExportDialog \/ confirmExportDialog
  \/ \E n \in 1..MaxRuns : RunStep(n)
  \/ ExportStep

\* statements and exports end, with an answer or an error
Fairness == (\A n \in 1..MaxRuns : WF_consoleVars(RunStep(n))) /\ WF_consoleVars(ExportStep)
Spec == Init /\ [][Next]_consoleVars /\ Fairness

----------------------------------------------------------------------------
\* Type invariant: a result is the answer of some statement, or that of the empty console.
ConsoleTypeOK ==
  /\ console.sql \in Statements /\ console.db \in ConsoleDatabases
  /\ console.status \in {"ready", "loading", "error"}
  /\ exportDialog.shown => exportDialog.scope \in {"current_page", "all_rows", "selected_rows"}

\* When nothing is running and the last run did not overlap another, the console shows the
\* page that run asked for: text, database or page changed in between do not mix in.
ShowsTheLastRun ==
  (runs = {} /\ ~crossed /\ console.status = "ready" /\ console.result.sql # "") =>
     console.result = lastRun

\* An export of a query's whole result reads the statement whose rows the dialog was opened
\* on, whatever the editor held: and, where the default database is still the one it ran in,
\* the same result.
ExportIsOfTheResultShown ==
  file.kind = "query_result" =>
    LET q == file.query
    IN /\ q.sql = q.shownOf.sql
       /\ q.db = q.shownOf.db => ExecuteSql(q.sql, q.db, q.shownOf.offset) = q.shownOf

\* The console shows it is running, or its export dialog that it is busy.
ConsoleBusy == console.status = "loading" \/ (exportDialog.shown /\ exportDialog.busy)
=============================================================================

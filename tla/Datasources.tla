------------------------------ MODULE Datasources ------------------------------
(***************************************************************************)
(* Data sources and their groups: the local store, the copy of it the      *)
(* screen keeps, and the editor and assignment tabs that change both       *)
(* (useDatasourceManagement.ts, datasource/views.tsx, navigation.ts).      *)
(*                                                                         *)
(* A group is known to the store by its id and to its members by its NAME, *)
(* so every rename and removal has to be carried to the members, on either *)
(* side, and to the forms that are open.  Of a data source only the group  *)
(* is kept; ids are never used twice.                                      *)
(***************************************************************************)
EXTENDS Integers, FiniteSets

CONSTANTS GroupIds, Profiles,   \* ids the store may give out
          GroupNames,           \* names the user may enter
          MaxSourceSteps,       \* bound: gestures
          MaxSourceCalls        \* bound: requests on their way at a time

Ungrouped == 0
NotYet == -1
Gone == -2
NewTab == 0                     \* the tab profile:create

VARIABLES store,       \* the local store: groups (id -> name), member (profile -> group name)
          screen,      \* dataSourceGroups and profiles of the screen, in the same form
          forms,       \* profile tabs
          assignments, \* group assignment tabs
          sourceCalls, \* requests on their way
          loaded,      \* profiles whose database list is loaded
          connection,  \* profileConnectionState
          createDb,    \* the dialog for a new database
          sourceSteps, \* gestures spent
          raced,       \* ghost: two requests that change the store were on their way together
          halfDone     \* ghost: one changed the store and was answered with an error

sourceVars == <<store, screen, forms, assignments, sourceCalls, loaded, connection, createDb,
                sourceSteps, raced, halfDone>>

Tabs == {NewTab} \cup Profiles
NoForm == [open |-> FALSE, group |-> Ungrouped, status |-> "ready", groupBusy |-> FALSE, editing |-> 0]
NoAssignment == [open |-> FALSE, selected |-> {}, submitting |-> FALSE]
NoDb == [shown |-> FALSE, pid |-> 0, busy |-> FALSE]

----------------------------------------------------------------------------
(* Groups and members, on either side. *)

Listed(s) == {g \in DOMAIN s.groups : s.groups[g] > 0}
NamesIn(s) == {s.groups[g] : g \in Listed(s)}
Members(s) == {p \in DOMAIN s.member : s.member[p] >= 0}

\* upsertProfile
upsertProfile(s, p, name) == [s EXCEPT !.member[p] = name]
Assigned(s, pids, name) ==
  [s EXCEPT !.member = [p \in Profiles |-> IF p \in pids /\ @[p] >= 0 THEN name ELSE @[p]]]
\* whoever carries the old name carries the new one; Ungrouped when the group is removed
Renamed(s, old, new) ==
  [s EXCEPT !.member = [p \in Profiles |-> IF @[p] = old THEN new ELSE @[p]]]

\* ensureMockGroupExists, upsert_group_name: a name without a group gets one
EnsureGroup(s, name) ==
  IF name = Ungrouped \/ name \in NamesIn(s) THEN {s}
  ELSE {[s EXCEPT !.groups[g] = name] : g \in {h \in GroupIds : s.groups[h] = NotYet}}

\* buildDataSourceTreeGroups: listed groups first, then names no listed group has
buildDataSourceTreeGroups(s) ==
  LET of(name) == {p \in Members(s) : s.member[p] = name}
  IN {[gid |-> g, profiles |-> of(s.groups[g])] : g \in Listed(s)}
     \cup {[gid |-> 0, profiles |-> of(name)] : name \in {s.member[p] : p \in Members(s)} \ NamesIn(s)}

----------------------------------------------------------------------------
\* one group with one data source in it; which ones makes no difference
Init ==
  /\ LET g == CHOOSE x \in GroupIds : TRUE
         p == CHOOSE x \in Profiles : TRUE
         n == CHOOSE x \in GroupNames : TRUE
     IN store = [groups |-> [h \in GroupIds |-> IF h = g THEN n ELSE NotYet],
                member |-> [q \in Profiles |-> IF q = p THEN n ELSE NotYet]]
  /\ screen = store
  /\ forms = [t \in Tabs |-> NoForm] /\ assignments = [g \in GroupIds |-> NoAssignment]
  /\ sourceCalls = {} /\ loaded = {} /\ connection = [p \in Profiles |-> "none"]
  /\ createDb = NoDb /\ sourceSteps = 0 /\ raced = FALSE /\ halfDone = FALSE

Gesture == sourceSteps < MaxSourceSteps /\ sourceSteps' = sourceSteps + 1
Pure == UNCHANGED <<store, screen, loaded, connection, halfDone>>

\* requests: op, what they are about, and the answer once the store has executed them
Changing == {"create", "rename", "remove", "assign", "save", "delete", "import", "bootstrap"}
NoReply == [status |-> "none"]
Busy == \E c \in sourceCalls : c.op \in Changing
Call(op, tab, body) == [op |-> op, tab |-> tab, body |-> body, reply |-> NoReply]
Send(c) ==
  /\ Cardinality(sourceCalls) < MaxSourceCalls /\ c \notin sourceCalls
  /\ sourceCalls' = sourceCalls \cup {c}
  /\ raced' = (raced \/ (Busy /\ c.op \in Changing))
NoSend == UNCHANGED <<sourceCalls, raced>>

\* patchTab: a tab that is closed stays closed
PatchForm(t, f) ==
  IF ~forms[t].open THEN forms
  ELSE [forms EXCEPT ![t] = [k \in DOMAIN @ |-> IF k \in DOMAIN f THEN f[k] ELSE @[k]]]

----------------------------------------------------------------------------
(* Tabs and what is typed in them. *)

\* openProfileEditorTab: upsertTab puts a fresh form in place of what the tab held
openProfileEditorTab(t) ==
  /\ t = NewTab \/ t \in Members(screen)
  /\ Gesture
  /\ forms' = [forms EXCEPT ![t] = [NoForm EXCEPT !.open = TRUE,
                 !.group = IF t = NewTab THEN Ungrouped ELSE screen.member[t]]]
  /\ Pure /\ NoSend /\ UNCHANGED <<assignments, createDb>>

removeTab(t) ==
  /\ forms[t].open /\ Gesture /\ forms' = [forms EXCEPT ![t] = NoForm]
  /\ Pure /\ NoSend /\ UNCHANGED <<assignments, createDb>>

\* updateProfileTabField on the group: the select offers the listed groups
updateProfileTabField(t, name) ==
  /\ forms[t].open /\ name \in {Ungrouped} \cup NamesIn(screen) /\ name # forms[t].group /\ Gesture
  /\ forms' = PatchForm(t, [group |-> name])
  /\ Pure /\ NoSend /\ UNCHANGED <<assignments, createDb>>

\* startRenameProfileGroup; cancelRenameProfileGroup and toggleProfileGroupManager
StartRename(t, g) ==
  /\ forms[t].open /\ ~forms[t].groupBusy /\ g \in Listed(screen) /\ forms[t].editing # g /\ Gesture
  /\ forms' = PatchForm(t, [editing |-> g])
  /\ Pure /\ NoSend /\ UNCHANGED <<assignments, createDb>>
CancelRename(t) ==
  /\ forms[t].open /\ ~forms[t].groupBusy /\ forms[t].editing # 0 /\ Gesture
  /\ forms' = PatchForm(t, [editing |-> 0])
  /\ Pure /\ NoSend /\ UNCHANGED <<assignments, createDb>>

\* openGroupAssignmentTab, and the selections of its view
openGroupAssignmentTab(g) ==
  /\ g \in Listed(screen) /\ Gesture
  /\ assignments' = [assignments EXCEPT ![g] = [NoAssignment EXCEPT !.open = TRUE]]
  /\ Pure /\ NoSend /\ UNCHANGED <<forms, createDb>>
SelectForGroup(g, pids) ==
  /\ assignments[g].open /\ ~assignments[g].submitting /\ assignments[g].selected # pids /\ Gesture
  /\ \/ pids = {}                                                          \* 清空选择
     \/ pids = assignments[g].selected \cup Members(screen)                \* 全选当前列表
     \/ \E p \in Members(screen) :                                         \* a checkbox
          pids \in {assignments[g].selected \cup {p}, assignments[g].selected \ {p}}
  /\ assignments' = [assignments EXCEPT ![g].selected = pids]
  /\ Pure /\ NoSend /\ UNCHANGED <<forms, createDb>>

----------------------------------------------------------------------------
(* Handlers up to their await, under the guards of the views. *)

GroupCall(t, op, body) ==
  /\ forms[t].open /\ ~forms[t].groupBusy /\ Gesture /\ Send(Call(op, t, body))
  /\ forms' = PatchForm(t, [groupBusy |-> TRUE])
  /\ Pure /\ UNCHANGED <<assignments, createDb>>
createProfileGroupFromTab(t, name) == GroupCall(t, "create", [name |-> name])
renameProfileGroupFromTab(t, name) ==
  forms[t].editing \in Listed(screen) /\ GroupCall(t, "rename", [gid |-> forms[t].editing, name |-> name])
deleteProfileGroupFromTab(t, g) ==
  g \in Listed(screen) /\ GroupCall(t, "remove", [gid |-> g, name |-> screen.groups[g]])

\* applyProfilesToGroup; the button counts the selected data sources that still exist
applyProfilesToGroup(g) ==
  /\ assignments[g].open /\ ~assignments[g].submitting /\ g \in Listed(screen)
  /\ assignments[g].selected \cap Members(screen) # {} /\ Gesture
  /\ Send(Call("assign", g, [gid |-> g, pids |-> assignments[g].selected]))
  /\ assignments' = [assignments EXCEPT ![g].submitting = TRUE]
  /\ Pure /\ UNCHANGED <<forms, createDb>>

\* testProfileTab and saveProfileTab; the save remembers, as its closure does,
\* whether the database list was loaded when it was clicked
FormCall(t, op, status, body) ==
  /\ forms[t].open /\ forms[t].status = "ready" /\ Gesture /\ Send(Call(op, t, body))
  /\ forms' = PatchForm(t, [status |-> status])
  /\ Pure /\ UNCHANGED <<assignments, createDb>>
testProfileTab(t) == FormCall(t, "test", "testing", [pid |-> t])
saveProfileTab(t) ==
  FormCall(t, "save", "saving", [pid |-> t, name |-> forms[t].group, known |-> t \in loaded])

\* deleteProfileFromTab, importNavicatProfiles and disconnectSelectedProfile lock nothing
SourceCall(op, t, body) ==
  /\ Gesture /\ Send(Call(op, t, body)) /\ Pure /\ UNCHANGED <<forms, assignments, createDb>>
deleteProfileFromTab(t) == t # NewTab /\ forms[t].open /\ SourceCall("delete", t, [pid |-> t])
importNavicatProfiles == forms[NewTab].open /\ SourceCall("import", NewTab, [pid |-> 0])
disconnectSelectedProfile(p) == p \in Members(screen) /\ SourceCall("disconnect", NewTab, [pid |-> p])
\* ensureDatabasesLoaded, when the tree node is expanded
ensureDatabasesLoaded(p) == p \in Members(screen) \ loaded /\ SourceCall("list", NewTab, [pid |-> p])

openCreateDatabaseDialog(p) ==
  /\ ~createDb.shown /\ p \in Members(screen) /\ Gesture
  /\ createDb' = [shown |-> TRUE, pid |-> p, busy |-> FALSE]
  /\ Pure /\ NoSend /\ UNCHANGED <<forms, assignments>>
CloseCreateDatabase ==
  /\ createDb.shown /\ ~createDb.busy /\ createDb' = NoDb
  /\ Pure /\ NoSend /\ UNCHANGED <<forms, assignments, sourceSteps>>
saveCreateDatabaseDialog ==
  /\ createDb.shown /\ ~createDb.busy /\ Gesture
  /\ Send(Call("createdb", NewTab, [pid |-> createDb.pid])) /\ createDb' = [createDb EXCEPT !.busy = TRUE]
  /\ Pure /\ UNCHANGED <<forms, assignments>>

----------------------------------------------------------------------------
(* The store executes a request; it may refuse it without a trace. *)

Replied(c, r) == sourceCalls' = (sourceCalls \ {c}) \cup {[c EXCEPT !.reply = r]}
ScreenKeeps == UNCHANGED <<screen, forms, assignments, loaded, connection, createDb, sourceSteps, raced>>
Done(c, s, r) == store' = s /\ Replied(c, r) /\ UNCHANGED halfDone /\ ScreenKeeps

ServeCreate(c) ==
  /\ c.op = "create" /\ c.body.name \notin NamesIn(store)
  /\ \E g \in GroupIds : store.groups[g] = NotYet /\
       Done(c, [store EXCEPT !.groups[g] = c.body.name], [status |-> "ok", gid |-> g, name |-> c.body.name])
ServeRename(c) ==
  /\ c.op = "rename" /\ c.body.gid \in Listed(store)
  /\ \A g \in Listed(store) : store.groups[g] = c.body.name => g = c.body.gid
  /\ LET old == store.groups[c.body.gid]
     IN Done(c, Renamed([store EXCEPT !.groups[c.body.gid] = c.body.name], old, c.body.name),
             [status |-> "ok", old |-> old, name |-> c.body.name])
ServeRemove(c) ==
  /\ c.op = "remove" /\ c.body.gid \in Listed(store)
  /\ LET old == store.groups[c.body.gid]
     IN Done(c, Renamed([store EXCEPT !.groups[c.body.gid] = Gone], old, Ungrouped), [status |-> "ok", old |-> old])
ServeAssign(c) ==
  /\ c.op = "assign" /\ c.body.gid \in Listed(store)
  /\ LET name == store.groups[c.body.gid]
     IN Done(c, Assigned(store, c.body.pids, name), [status |-> "ok", name |-> name])

\* save: a new data source gets an id; then the pool of the old one is dropped, which may fail
ServeSave(c, answered) ==
  /\ c.op = "save"
  /\ \E p \in Profiles : \E s \in EnsureGroup(store, c.body.name) :
       /\ IF c.body.pid = NewTab THEN store.member[p] = NotYet ELSE p = c.body.pid /\ store.member[p] # Gone
       /\ store' = upsertProfile(s, p, c.body.name)
       /\ Replied(c, IF answered THEN [status |-> "ok", pid |-> p, name |-> c.body.name] ELSE [status |-> "error"])
  /\ halfDone' = (halfDone \/ ~answered) /\ ScreenKeeps
\* delete, with the same second step
ServeDelete(c, answered) ==
  /\ c.op = "delete" /\ store' = upsertProfile(store, c.body.pid, Gone)
  /\ Replied(c, [status |-> IF answered THEN "ok" ELSE "error"])
  /\ halfDone' = (halfDone \/ ~answered) /\ ScreenKeeps
ServeImport(c) ==
  /\ c.op = "import"
  /\ \E p \in Profiles, name \in GroupNames : \E s \in EnsureGroup(store, name) :
       store.member[p] = NotYet /\ Done(c, upsertProfile(s, p, name), [status |-> "ok"])
\* getAppBootstrap, which the import calls next
ServeBootstrap(c) == c.op = "bootstrap" /\ Done(c, store, [status |-> "ok", snapshot |-> store])
ServeOther(c) == c.op \in {"test", "list", "disconnect", "createdb"} /\ Done(c, store, [status |-> "ok"])

\* refused (a name that is taken, an id that is gone) or lost before it took effect; when
\* that happens to the bootstrap of an import, the screen misses what was imported
ServeNothing(c) ==
  /\ Replied(c, [status |-> "error"]) /\ store' = store
  /\ halfDone' = (halfDone \/ c.op = "bootstrap") /\ ScreenKeeps

Serve(c) ==
  /\ c.reply = NoReply
  /\ \/ ServeCreate(c) \/ ServeRename(c) \/ ServeRemove(c) \/ ServeAssign(c)
     \/ \E answered \in BOOLEAN : ServeSave(c, answered) \/ ServeDelete(c, answered)
     \/ ServeImport(c) \/ ServeBootstrap(c) \/ ServeOther(c) \/ ServeNothing(c)

----------------------------------------------------------------------------
(* The answers reach the screen. *)

Received(c, op) ==
  /\ c.op = op /\ c.reply.status = "ok" /\ UNCHANGED <<store, sourceSteps, halfDone>>
Consumed(c) == sourceCalls' = sourceCalls \ {c} /\ UNCHANGED raced
ListsKeep == UNCHANGED <<loaded, connection, createDb>>

CreateAnswer(c) ==
  /\ Received(c, "create") /\ Consumed(c) /\ ListsKeep /\ UNCHANGED assignments
  /\ screen' = [screen EXCEPT !.groups[c.reply.gid] = c.reply.name]
  /\ forms' = PatchForm(c.tab, [groupBusy |-> FALSE, group |-> c.reply.name])

\* syncGroupNameAcrossState on the tabs, then the tab the request came from
Regroup(t, old, new, f) ==
  [u \in Tabs |->
     LET own == IF u = t THEN PatchForm(t, f)[t] ELSE forms[u]
     IN IF forms[u].open /\ own.group = old THEN [own EXCEPT !.group = new] ELSE own]

RenameAnswer(c) ==
  /\ Received(c, "rename") /\ Consumed(c) /\ ListsKeep /\ UNCHANGED assignments
  /\ screen' = Renamed([screen EXCEPT !.groups[c.body.gid] = IF @ > 0 THEN c.reply.name ELSE @],
                       c.reply.old, c.reply.name)
  /\ forms' = Regroup(c.tab, c.reply.old, c.reply.name, [groupBusy |-> FALSE, editing |-> 0])

\* Slip: the data sources of the group keep its name
RemoveAnswerGroupOnly(c) ==
  /\ Received(c, "remove") /\ Consumed(c) /\ ListsKeep
  /\ screen' = [screen EXCEPT !.groups[c.body.gid] = Gone]
  /\ forms' = Regroup(c.tab, c.reply.old, Ungrouped, [groupBusy |-> FALSE, editing |-> 0])
  /\ assignments' = [assignments EXCEPT ![c.body.gid] = NoAssignment]

\* the removal also closes the group's assignment tab, and takes out of the form of
\* its own tab the name the group had when it was clicked
RemoveAnswer(c) ==
  /\ Received(c, "remove") /\ Consumed(c) /\ ListsKeep
  /\ screen' = Renamed([screen EXCEPT !.groups[c.body.gid] = Gone], c.reply.old, Ungrouped)
  /\ LET own == forms[c.tab]
         editing == IF own.editing = c.body.gid THEN 0 ELSE own.editing
         group == IF own.group = c.body.name THEN Ungrouped ELSE own.group
     IN forms' = Regroup(c.tab, c.reply.old, Ungrouped, [groupBusy |-> FALSE, editing |-> editing, group |-> group])
  /\ assignments' = [assignments EXCEPT ![c.body.gid] = NoAssignment]

\* applyGroupAssignmentResult, and the tab it came from
AssignAnswer(c) ==
  /\ Received(c, "assign") /\ Consumed(c) /\ ListsKeep
  /\ screen' = Assigned(screen, c.body.pids, c.reply.name)
  /\ forms' = [t \in Tabs |-> IF t \in c.body.pids /\ forms[t].open
                              THEN [forms[t] EXCEPT !.group = c.reply.name] ELSE forms[t]]
  /\ assignments' = IF assignments[c.tab].open THEN [assignments EXCEPT ![c.tab] = [NoAssignment EXCEPT !.open = TRUE]]
                    ELSE assignments

TestAnswer(c) ==
  /\ Received(c, "test") /\ Consumed(c) /\ ListsKeep
  /\ forms' = PatchForm(c.tab, [status |-> "ready"]) /\ UNCHANGED <<screen, assignments>>

\* the profile is put on the screen, its caches are cleared, its databases are loaded
\* unless the closure still sees a list, and replaceTab gives the tab the profile's id
SaveAnswer(c) ==
  /\ Received(c, "save") /\ UNCHANGED <<raced, createDb, assignments>>
  /\ LET p == c.reply.pid
         saved == [NoForm EXCEPT !.open = TRUE, !.group = c.reply.name]
     IN /\ screen' = upsertProfile(screen, p, c.reply.name)
        /\ loaded' = loaded \ {p} /\ connection' = [connection EXCEPT ![p] = "none"]
        /\ forms' = IF forms[c.tab].open THEN [forms EXCEPT ![c.tab] = NoForm, ![p] = saved] ELSE forms
        /\ sourceCalls' = (sourceCalls \ {c}) \cup (IF c.body.known THEN {} ELSE {Call("list", NewTab, [pid |-> p])})

DeleteAnswer(c) ==
  /\ Received(c, "delete") /\ Consumed(c) /\ UNCHANGED <<createDb, assignments>>
  /\ screen' = upsertProfile(screen, c.body.pid, Gone)
  /\ loaded' = loaded \ {c.body.pid} /\ connection' = [connection EXCEPT ![c.body.pid] = "none"]
  /\ forms' = [forms EXCEPT ![c.tab] = NoForm]

ImportAnswer(c) ==
  /\ Received(c, "import") /\ ListsKeep /\ UNCHANGED <<screen, forms, assignments, raced>>
  /\ sourceCalls' = (sourceCalls \ {c}) \cup {Call("bootstrap", NewTab, [pid |-> 0])}
BootstrapAnswer(c) ==
  /\ Received(c, "bootstrap") /\ Consumed(c) /\ ListsKeep /\ screen' = c.reply.snapshot
  /\ UNCHANGED <<forms, assignments>>

\* the list of a profile that was deleted meanwhile is kept all the same
ListAnswer(c) ==
  /\ Received(c, "list") /\ Consumed(c) /\ UNCHANGED <<screen, forms, assignments, createDb>>
  /\ loaded' = loaded \cup {c.body.pid} /\ connection' = [connection EXCEPT ![c.body.pid] = "connected"]
DisconnectAnswer(c) ==
  /\ Received(c, "disconnect") /\ Consumed(c) /\ UNCHANGED <<screen, forms, assignments, createDb, loaded>>
  /\ connection' = [connection EXCEPT ![c.body.pid] = "idle"]
\* a created database closes the dialog and loads the list anew
CreateDbAnswer(c) ==
  /\ Received(c, "createdb") /\ UNCHANGED <<screen, forms, assignments, loaded, connection, raced>>
  /\ createDb' = NoDb
  /\ sourceCalls' = (sourceCalls \ {c}) \cup {Call("list", NewTab, [pid |-> c.body.pid])}

\* the catch of each handler
ErrorAnswer(c) ==
  /\ c.reply.status = "error" /\ Consumed(c) /\ UNCHANGED <<store, screen, sourceSteps, halfDone, loaded>>
  /\ forms' = CASE c.op \in {"create", "rename", "remove"} -> PatchForm(c.tab, [groupBusy |-> FALSE])
                [] c.op \in {"test", "save"} -> PatchForm(c.tab, [status |-> "ready"])
                [] OTHER -> forms
  /\ assignments' = IF c.op = "assign" /\ assignments[c.tab].open
                    THEN [assignments EXCEPT ![c.tab].submitting = FALSE] ELSE assignments
  /\ connection' = IF c.op = "list" THEN [connection EXCEPT ![c.body.pid] = "error"] ELSE connection
  /\ createDb' = IF c.op = "createdb" THEN [createDb EXCEPT !.busy = FALSE] ELSE createDb

Answer(c) ==
  \/ CreateAnswer(c) \/ RenameAnswer(c) \/ RemoveAnswer(c) \/ AssignAnswer(c) \/ TestAnswer(c)
  \/ SaveAnswer(c) \/ DeleteAnswer(c) \/ ImportAnswer(c) \/ BootstrapAnswer(c)
  \/ ListAnswer(c) \/ DisconnectAnswer(c) \/ CreateDbAnswer(c) \/ ErrorAnswer(c)

Next ==
  \/ \E t \in Tabs : \/ openProfileEditorTab(t) \/ removeTab(t) \/ testProfileTab(t) \/ saveProfileTab(t)
                     \/ deleteProfileFromTab(t) \/ CancelRename(t)
  \/ \E t \in Tabs, n \in {Ungrouped} \cup GroupNames : updateProfileTabField(t, n)
  \/ \E t \in Tabs, n \in GroupNames : createProfileGroupFromTab(t, n) \/ renameProfileGroupFromTab(t, n)
  \/ \E t \in Tabs, g \in GroupIds : StartRename(t, g) \/ deleteProfileGroupFromTab(t, g)
  \/ \E g \in GroupIds : openGroupAssignmentTab(g) \/ applyProfilesToGroup(g)
  \/ \E g \in GroupIds, pids \in SUBSET Profiles : SelectForGroup(g, pids)
  \/ importNavicatProfiles \/ CloseCreateDatabase \/ saveCreateDatabaseDialog
  \/ \E p \in Profiles : \/ disconnectSelectedProfile(p) \/ ensureDatabasesLoaded(p)
                         \/ openCreateDatabaseDialog(p)
  \/ \E c \in sourceCalls : Serve(c) \/ Answer(c)

\* every request is executed or refused, and answered
Fairness == WF_sourceVars(\E c \in sourceCalls : Serve(c) \/ Answer(c))
Spec == Init /\ [][Next]_sourceVars /\ Fairness

----------------------------------------------------------------------------
Sides == [groups : [GroupIds -> GroupNames \cup {NotYet, Gone}],
          member : [Profiles -> GroupNames \cup {Ungrouped, NotYet, Gone}]]

\* Type invariant: both sides hold groups and members, tabs are in states their views know.
DatasourcesTypeOK ==
  /\ {store, screen} \subseteq Sides
  /\ \A t \in Tabs : forms[t].status \in {"ready", "testing", "saving"} /\ forms[t].group \in GroupNames \cup {Ungrouped}
  /\ loaded \subseteq Profiles /\ createDb.pid \in Tabs

\* The screen never reads the store again after its start (but for an import), and applies
\* to its own copy what each answer says.  When no two changes were on their way together
\* and none was half done, that copy, and the tree built from it, is the store's.
ScreenMatchesStore ==
  (~raced /\ ~halfDone /\ ~Busy) =>
     screen = store /\ buildDataSourceTreeGroups(screen) = buildDataSourceTreeGroups(store)

\* A group renamed or removed in one tab is renamed or removed in every open form, so that
\* saving a form never brings back a group that was removed or renamed; assignment tabs are of
\* groups that exist.
FormsNameListedGroups ==
  (~raced /\ ~halfDone) =>
    /\ \A t \in Tabs : forms[t].open => forms[t].group \in {Ungrouped} \cup NamesIn(screen)
    /\ \A g \in GroupIds : assignments[g].open => g \in Listed(screen)

\* A tab or a dialog is locked by a request.
SourcesBusy ==
  \/ \E t \in Tabs : forms[t].status # "ready" \/ forms[t].groupBusy
  \/ \E g \in GroupIds : assignments[g].submitting
  \/ createDb.busy
=============================================================================

--------------------------- MODULE DingtalkPlugin ---------------------------
(***************************************************************************)
(* The workspace of the contact change plugin                              *)
(* (src/plugins/dingtalk-contact-change-plugin): the configurations of the *)
(* directory service and their drafts, the query page and the history.     *)
(* The page runs in an iframe; a request gets an id in hostBridge.ts, the  *)
(* window forwards it to the backend and posts the answer back             *)
(* (PluginWorkspace.tsx), where the id leads it to the promise that waits. *)
(* Requests are served, and answers arrive, in any order.                  *)
(*                                                                         *)
(* What is typed into a configuration or into the search is a number; the  *)
(* pages of a list, the users found and the texts shown are left out.      *)
(***************************************************************************)
EXTENDS Integers, Sequences, FiniteSets, SequencesExt, FiniteSetsExt

CONSTANTS Configs,          \* ids the backend may give to configurations: 1..n
          MaxPluginSteps,   \* bound: gestures of the user, but for opening and
                            \* closing the question whether to delete
          MaxPluginCalls    \* bound: requests under way

VARIABLES hub,              \* the backend: configs (0: not there), ids given, query records
          settings,         \* page 钉钉配置: drafts, the active one, what is under way
          directory,        \* page 通讯录查询: selection, result, search and its timer
          archive,          \* page 历史记录: filter, list and the detail that is open
          pluginCalls,      \* requests under way
          pluginSteps,
          disturbed         \* ghost: the parts of the page where requests have overtaken or failed

None == 0
Values == 1..2
Words == 0..1
Tabs == {"all", "added"}

dingtalkVars == <<hub, settings, directory, archive, pluginCalls, pluginSteps, disturbed>>

----------------------------------------------------------------------------
(* The bridge. *)

Result(record, tab, word) == [record |-> record, tab |-> tab, word |-> word]
NoResult == Result(None, "all", 0)

\* the parts of the page a request is for
Parts(kind) == CASE kind \in {"save", "delete"} -> {"config"}
                 [] kind = "bootstrap" -> {"config", "history"}
                 [] kind \in {"latest", "detail"} -> {"query"}
                 [] kind = "run" -> {"query", "history"}
                 [] kind \in {"history", "runHistory"} -> {"history"}
                 [] OTHER -> {}

Waiting == [state |-> "sent"]
Args == [key |-> None, config |-> None, val |-> None, record |-> None, tab |-> "all", word |-> 0]
Request(kind, args) == [kind |-> kind, args |-> args]

\* the answers that do not depend on when they are given
AtOnce(r) ==
  CASE r.kind \in {"detail", "historyDetail"} ->
         [state |-> "ok", result |-> Result(r.args.record, r.args.tab, r.args.word)]
    [] r.kind = "test" -> [state |-> "ok"]
    [] OTHER -> Waiting

\* invokeHostMethod for each of the requests (at most one), in place of the call that ended
Sent(calls, requests) ==
  calls \cup {[id |-> Min((1..MaxPluginCalls) \ {c.id : c \in calls}), kind |-> r.kind,
               args |-> r.args, answer |-> AtOnce(r)] : r \in requests}
Disturbs(calls, requests) ==
  UNION {UNION {Parts(c.kind) : c \in calls} \cap Parts(r.kind) : r \in requests}

Send(kind, args) ==
  /\ Cardinality(pluginCalls) < MaxPluginCalls
  /\ pluginCalls' = Sent(pluginCalls, {Request(kind, args)})
  /\ disturbed' = disturbed \cup Disturbs(pluginCalls, {Request(kind, args)})

Gesture == pluginSteps < MaxPluginSteps /\ pluginSteps' = pluginSteps + 1

----------------------------------------------------------------------------
(* The backend. *)

latest_success_record(h, config) ==
  Max({None} \cup {r \in DOMAIN h.records : h.records[r].config = config /\ h.records[r].ok})
list_history(h, filter) == {r \in DOMAIN h.records : filter \in {None, h.records[r].config}}
\* config.save
SaveServed(a) ==
  LET id == IF a.config # None THEN a.config ELSE hub.given + 1
  IN /\ id \in Configs /\ (a.config # None => hub.configs[id] # None)
     /\ hub' = [hub EXCEPT !.configs[id] = a.val, !.given = IF id > @ THEN id ELSE @]

\* query.run: a record is kept of a query that fails, too
RunServed(a, ok) ==
  /\ hub.configs[a.config] # None
  /\ hub' = [hub EXCEPT !.records = Append(@, [config |-> a.config, ok |-> ok])]

Answered(c, answer) == pluginCalls' = (pluginCalls \ {c}) \cup {[c EXCEPT !.answer = answer]}

Serve(c) ==
  /\ c.answer = Waiting
  /\ \/ /\ c.kind = "save" /\ SaveServed(c.args)
        /\ Answered(c, [state |-> "ok", config |-> IF c.args.config # None THEN c.args.config ELSE hub'.given])
     \/ /\ c.kind = "delete" /\ hub.configs[c.args.config] # None
        /\ hub' = [hub EXCEPT !.configs[c.args.config] = None]
        /\ Answered(c, [state |-> "ok"])
     \/ /\ c.kind = "run" /\ \E ok \in BOOLEAN :
             /\ RunServed(c.args, ok)
             /\ Answered(c, IF ok THEN [state |-> "ok", result |-> Result(Len(hub'.records), "all", 0)]
                            ELSE [state |-> "failed"])
     \/ /\ UNCHANGED hub
        /\ Answered(c, CASE c.kind = "bootstrap" -> [state |-> "ok", configs |-> hub.configs,
                                                     items |-> list_history(hub, None)]
                         [] c.kind = "latest" -> [state |-> "ok", result |->
                              Result(latest_success_record(hub, c.args.config), "all", 0)]
                         [] c.kind \in {"history", "runHistory"} -> [state |-> "ok",
                              items |-> list_history(hub, c.args.config)]
                         [] OTHER -> [state |-> "failed"])
     \/ UNCHANGED hub /\ Answered(c, [state |-> "failed"])
  /\ UNCHANGED <<settings, directory, archive, pluginSteps, disturbed>>

----------------------------------------------------------------------------
(* Page 钉钉配置. *)

\* `n` stands for the time, which makes the key its own
createDraft(n) == [key |-> 10 + n, id |-> None, val |-> 1, snap |-> None, tested |-> FALSE]
mapConfigToDraft(configs, c) == [key |-> c, id |-> c, val |-> configs[c], snap |-> configs[c], tested |-> FALSE]
hasDraftChanges(d) == d.val # d.snap

Drafts == Range(settings.drafts)
\* the first draft stands in for an active one that is gone
activeDraft == IF \E d \in Drafts : d.key = settings.active
               THEN CHOOSE d \in Drafts : d.key = settings.active ELSE settings.drafts[1]
\* setConfigDrafts with a map over the draft of one key
Patched(drafts, key, fields) == [i \in DOMAIN drafts |-> IF drafts[i].key = key THEN fields @@ drafts[i] ELSE drafts[i]]

handleAddConfigDraft ==
  /\ Gesture
  /\ LET d == createDraft(2 * pluginSteps + 2)
     IN settings' = [settings EXCEPT !.drafts = Append(@, d), !.active = d.key]
  /\ UNCHANGED <<hub, directory, archive, pluginCalls, disturbed>>
SelectDraft(key) ==
  /\ Gesture /\ \E d \in Drafts : d.key = key
  /\ settings.active # key /\ settings' = [settings EXCEPT !.active = key]
  /\ UNCHANGED <<hub, directory, archive, pluginCalls, disturbed>>
handleActiveDraftChange(val) ==
  /\ Gesture /\ activeDraft.val # val
  /\ settings' = [settings EXCEPT !.drafts = Patched(@, activeDraft.key, [val |-> val])]
  /\ UNCHANGED <<hub, directory, archive, pluginCalls, disturbed>>

handleSaveConfig ==
  /\ Gesture /\ ~settings.saving /\ hasDraftChanges(activeDraft)
  /\ settings' = [settings EXCEPT !.saving = TRUE]
  /\ Send("save", [Args EXCEPT !.key = activeDraft.key, !.config = activeDraft.id, !.val = activeDraft.val])
  /\ UNCHANGED <<hub, directory, archive>>
handleTestConnection ==
  /\ Gesture /\ ~settings.testing
  /\ settings' = [settings EXCEPT !.testing = TRUE]
  /\ Send("test", [Args EXCEPT !.key = activeDraft.key]) /\ UNCHANGED <<hub, directory, archive>>

\* handleDeleteConfig of a draft that is not saved: only the page forgets it
DeleteUnsaved ==
  LET rest == SelectSeq(settings.drafts, LAMBDA d : d.key # activeDraft.key)
      next == IF rest # <<>> THEN rest ELSE <<createDraft(2 * pluginSteps + 2)>>
      saved == {i \in DOMAIN next : next[i].id # None}
  IN /\ activeDraft.id = None
     /\ settings' = [settings EXCEPT !.drafts = next, !.confirm = FALSE,
                                     !.active = next[IF saved # {} THEN Min(saved) ELSE 1].key]
     \* the answer of a save finds its draft gone
     /\ disturbed' = IF settings.saving THEN disturbed \cup {"config"} ELSE disturbed
     /\ UNCHANGED pluginCalls
DeleteSaved ==
  /\ activeDraft.id # None
  /\ settings' = [settings EXCEPT !.deleting = TRUE]
  /\ Send("delete", [Args EXCEPT !.config = activeDraft.id])
AskDelete(open) ==
  /\ settings.confirm # open /\ (open => ~settings.deleting)
  /\ settings' = [settings EXCEPT !.confirm = open]
  /\ UNCHANGED <<hub, directory, archive, pluginCalls, pluginSteps, disturbed>>
handleDeleteConfig ==
  /\ Gesture /\ settings.confirm /\ ~settings.deleting
  /\ DeleteUnsaved \/ DeleteSaved
  /\ UNCHANGED <<hub, directory, archive>>

----------------------------------------------------------------------------
(* Page 通讯录查询. *)

\* setQuerySelectedConfigId, and the effect that loads the latest result of another selection
Select(d, config) == IF config \in {None, d.selected} THEN [d EXCEPT !.selected = config]
                     ELSE [d EXCEPT !.selected = config, !.loading = TRUE, !.failed = FALSE]
SelectRequest(d, config) == IF config \in {None, d.selected} THEN {}
                            ELSE {Request("latest", [Args EXCEPT !.config = config])}

\* setQueryResult, and its effects: the search follows another record or keyword, and the
\* timer of a search is set anew when what it would ask for has changed
Shown(d, result) ==
  LET other == <<result.record, result.word>> # <<d.result.record, d.result.word>>
      search == IF other THEN result.word ELSE d.search
  IN [d EXCEPT !.result = result, !.search = search,
               !.timer = IF result = d.result THEN @ ELSE result.record # None /\ search # result.word]

SelectConfig(config) ==
  /\ Gesture /\ config # directory.selected
  /\ config = None \/ \E d \in Drafts : d.id = config
  /\ directory' = Select(directory, config)
  /\ IF config = None THEN UNCHANGED <<pluginCalls, disturbed>>
     ELSE Send("latest", [Args EXCEPT !.config = config])
  /\ UNCHANGED <<hub, settings, archive>>
handleRunQuery ==
  /\ Gesture /\ ~directory.loading /\ directory.selected # None
  /\ directory' = [directory EXCEPT !.loading = TRUE, !.failed = FALSE]
  /\ Send("run", [Args EXCEPT !.config = directory.selected, !.record = archive.filter])
  /\ UNCHANGED <<hub, settings, archive>>
setQuerySearchInput(word) ==
  /\ Gesture /\ directory.result.record # None /\ word # directory.search
  /\ directory' = [directory EXCEPT !.search = word, !.timer = word # directory.result.word]
  /\ UNCHANGED <<hub, settings, archive, pluginCalls, disturbed>>
loadQueryDetail(tab) ==
  /\ directory.result.record # None
  /\ Send("detail", [Args EXCEPT !.record = directory.result.record, !.tab = tab, !.word = directory.search])
  /\ UNCHANGED <<hub, settings, archive>>
\* 320 ms after the last change
SearchTimer ==
  /\ directory.timer /\ loadQueryDetail(directory.result.tab)
  /\ directory' = [directory EXCEPT !.loading = TRUE, !.failed = FALSE, !.timer = FALSE]
  /\ UNCHANGED pluginSteps
\* the pages of a result ask in the same way
handleQueryTabChange(tab) ==
  /\ Gesture /\ loadQueryDetail(tab)
  /\ directory' = [directory EXCEPT !.loading = TRUE, !.failed = FALSE]

----------------------------------------------------------------------------
(* Page 历史记录. *)

ChangeFilter(config) ==
  /\ Gesture /\ archive.filter # config
  /\ config = None \/ \E d \in Drafts : d.id = config
  /\ archive' = [archive EXCEPT !.filter = config]
  /\ UNCHANGED <<hub, settings, directory, pluginCalls, disturbed>>
\* 查询记录 waits for the list under way, the pages of the list do not
loadHistory(anyTime) ==
  /\ Gesture /\ (anyTime \/ ~archive.loading)
  /\ archive' = [archive EXCEPT !.loading = TRUE]
  /\ Send("history", [Args EXCEPT !.config = archive.filter])
  /\ UNCHANGED <<hub, settings, directory>>
\* handleHistoryOpenDetail, and handleHistoryDetailChange in the detail
HistoryDetail(record, tab) ==
  /\ Gesture
  /\ IF archive.detail.record = None THEN record \in archive.items /\ tab = "all" /\ ~archive.detailLoading
     ELSE record = archive.detail.record
  /\ archive' = [archive EXCEPT !.detailLoading = TRUE]
  /\ Send("historyDetail", [Args EXCEPT !.record = record, !.tab = tab])
  /\ UNCHANGED <<hub, settings, directory>>
handleCloseHistoryDetail ==
  /\ Gesture /\ archive.detail.record # None /\ archive' = [archive EXCEPT !.detail = NoResult]
  /\ UNCHANGED <<hub, settings, directory, pluginCalls, disturbed>>

----------------------------------------------------------------------------
(* Answers. *)

\* the call ends, and at most one request follows
Ends(c, requests, trouble) ==
  /\ pluginCalls' = Sent(pluginCalls \ {c}, requests)
  /\ disturbed' = disturbed \cup Disturbs(pluginCalls \ {c}, requests) \cup trouble

\* Slip: the answer of a save leaves the draft as it is on the page
SavedUnderOldKey(c, id) == [id |-> id, snap |-> c.args.val]
Saved(c, id) == [key |-> id, id |-> id, val |-> c.args.val, snap |-> c.args.val]

loadBootstrap(c) ==
  LET configs == {x \in Configs : c.answer.configs[x] # None}
      first == IF configs = {} THEN None ELSE Min(configs)
      drafts == [i \in 1..Cardinality(configs) |->
                   mapConfigToDraft(c.answer.configs, SetToSortSeq(configs, <)[i])]
      next == IF configs = {} THEN <<createDraft(2 * pluginSteps + 3)>> ELSE drafts
  IN /\ settings' = [settings EXCEPT !.drafts = next, !.active = next[1].key, !.deleting = FALSE]
     /\ archive' = [archive EXCEPT !.items = c.answer.items, !.listed = None, !.filter = None]
     /\ directory' = IF first = None THEN [Shown(Select(directory, None), NoResult) EXCEPT !.failed = FALSE]
                     ELSE Select(directory, first)
     /\ Ends(c, SelectRequest(directory, first), {})

\* query.run has an answer: the history is loaded with the filter of that time
RunAnswer(c, ok) ==
  /\ directory' = IF ok THEN Shown(directory, c.answer.result) ELSE [directory EXCEPT !.failed = TRUE]
  /\ archive' = [archive EXCEPT !.loading = TRUE]
  /\ Ends(c, {Request("runHistory", [Args EXCEPT !.config = c.args.record])}, {})
  /\ UNCHANGED settings

HistoryAnswer(c, ok) ==
  /\ archive' = IF ok THEN [archive EXCEPT !.items = c.answer.items, !.listed = c.args.config, !.loading = FALSE]
                ELSE [archive EXCEPT !.loading = FALSE]
  /\ directory' = IF c.kind = "runHistory" THEN [directory EXCEPT !.loading = FALSE] ELSE directory
  /\ Ends(c, {}, IF ok THEN {} ELSE {"history"}) /\ UNCHANGED settings

ResultAnswer(c, ok) ==
  /\ directory' = [CASE ok -> Shown(directory, c.answer.result)
                     [] ~ok /\ c.kind = "latest" -> [Shown(directory, NoResult) EXCEPT !.failed = TRUE]
                     [] OTHER -> [directory EXCEPT !.failed = TRUE] EXCEPT !.loading = FALSE]
  /\ Ends(c, {}, IF ok \/ c.kind = "latest" THEN {} ELSE {"search"}) /\ UNCHANGED <<settings, archive>>

SaveAnswer(c, ok) ==
  IF ok
  THEN LET id == c.answer.config
           selected == IF directory.selected = None THEN id ELSE directory.selected
       IN /\ settings' = [settings EXCEPT !.drafts = Patched(@, c.args.key, Saved(c, id)),
                                          !.active = id, !.saving = FALSE]
          /\ directory' = Select(directory, selected)
          /\ Ends(c, SelectRequest(directory, selected), {}) /\ UNCHANGED archive
  ELSE /\ settings' = [settings EXCEPT !.saving = FALSE]
       /\ Ends(c, {}, {}) /\ UNCHANGED <<directory, archive>>

Answer(c) ==
  \E ok \in {c.answer.state = "ok"} \cup (IF c.kind \in {"detail", "historyDetail", "test"} THEN {FALSE} ELSE {}) :
     /\ c.answer # Waiting
     /\ CASE c.kind = "save" -> SaveAnswer(c, ok)
          [] c.kind = "delete" ->
               /\ settings' = IF ok THEN [settings EXCEPT !.confirm = FALSE]
                              ELSE [settings EXCEPT !.deleting = FALSE]
               /\ Ends(c, IF ok THEN {Request("bootstrap", Args)} ELSE {}, {}) /\ UNCHANGED <<directory, archive>>
          [] c.kind = "bootstrap" /\ ok -> loadBootstrap(c)
          [] c.kind = "bootstrap" /\ ~ok ->
               /\ settings' = [settings EXCEPT !.deleting = FALSE]
               /\ Ends(c, {}, Parts("bootstrap")) /\ UNCHANGED <<directory, archive>>
          [] c.kind = "test" ->
               /\ settings' = [settings EXCEPT !.testing = FALSE,
                    !.drafts = IF ok THEN Patched(@, c.args.key, [tested |-> TRUE]) ELSE @]
               /\ Ends(c, {}, {}) /\ UNCHANGED <<directory, archive>>
          [] c.kind = "run" -> RunAnswer(c, ok)
          [] c.kind \in {"history", "runHistory"} -> HistoryAnswer(c, ok)
          [] c.kind \in {"latest", "detail"} -> ResultAnswer(c, ok)
          [] c.kind = "historyDetail" ->
               /\ archive' = [archive EXCEPT !.detailLoading = FALSE,
                                             !.detail = IF ok THEN c.answer.result ELSE @]
               /\ Ends(c, {}, {}) /\ UNCHANGED <<settings, directory>>
     /\ UNCHANGED <<hub, pluginSteps>>

----------------------------------------------------------------------------

\* the page opens and asks for everything; each configuration has been queried once
Init ==
  /\ hub \in {[configs |-> [c \in Configs |-> IF c \in present THEN 1 ELSE None],
               given |-> Cardinality(present),
               records |-> [r \in present |-> [config |-> r, ok |-> TRUE]]] : present \in {{}, {1, 2}}}
  /\ settings = [drafts |-> <<createDraft(0)>>, active |-> createDraft(0).key, confirm |-> FALSE,
                 saving |-> FALSE, deleting |-> FALSE, testing |-> FALSE]
  /\ directory = [selected |-> None, result |-> NoResult, loading |-> FALSE, failed |-> FALSE,
                  search |-> 0, timer |-> FALSE]
  /\ archive = [filter |-> None, items |-> {}, listed |-> None, loading |-> FALSE,
                detail |-> NoResult, detailLoading |-> FALSE]
  /\ pluginCalls = Sent({}, {Request("bootstrap", Args)})
  /\ pluginSteps = 0 /\ disturbed = {}

Next ==
  \/ \E c \in pluginCalls : Serve(c) \/ Answer(c)
  \/ handleAddConfigDraft \/ \E d \in Drafts : SelectDraft(d.key)
  \/ \E v \in Values : handleActiveDraftChange(v)
  \/ handleSaveConfig \/ handleTestConnection \/ handleDeleteConfig
  \/ \E open \in BOOLEAN : AskDelete(open)
  \/ \E c \in Configs \cup {None} : SelectConfig(c) \/ ChangeFilter(c)
  \/ handleRunQuery \/ SearchTimer
  \/ \E w \in Words : setQuerySearchInput(w)
  \/ \E t \in Tabs : handleQueryTabChange(t)
  \/ \E anyTime \in BOOLEAN : loadHistory(anyTime)
  \/ \E r \in DOMAIN hub.records, t \in Tabs : HistoryDetail(r, t)
  \/ handleCloseHistoryDetail

\* the backend answers every request, if only with an error
Fairness == WF_dingtalkVars(\E c \in pluginCalls : Serve(c) \/ Answer(c))

PluginBusy == \/ settings.saving \/ settings.deleting \/ settings.testing
              \/ directory.loading \/ archive.loading \/ archive.detailLoading

----------------------------------------------------------------------------

\* Type invariant.
PluginTypeOK ==
  /\ hub.configs \in [Configs -> Values \cup {None}] /\ hub.given \in Configs \cup {None}
  /\ settings.drafts # <<>> /\ \A d \in Drafts : d.id \in Configs \cup {None} /\ d.val \in Values
  /\ directory.selected \in Configs \cup {None} /\ directory.search \in Words
  /\ {directory.result.record, archive.detail.record} \subseteq DOMAIN hub.records \cup {None}
  /\ archive.items \subseteq DOMAIN hub.records

Quiet(part) == part \notin disturbed /\ \A c \in pluginCalls : part \notin Parts(c.kind)

\* The result is that of the last query of the selected configuration that succeeded.
SelectionIsShown ==
  Quiet("query") /\ directory.selected # None /\ ~directory.failed =>
    directory.result.record = latest_success_record(hub, directory.selected)

\* The search field holds the keyword the users shown were searched with, or will be asked for.
SearchIsAnswered ==
  "search" \notin disturbed /\ Quiet("query") /\ directory.result.record # None /\ ~directory.failed =>
    directory.search = directory.result.word \/ directory.timer

\* The saved drafts are the stored configurations, each with what is stored to compare it with.
DraftsAreStored ==
  Quiet("config") =>
    /\ {<<d.id, d.snap>> : d \in {x \in Drafts : x.id # None}}
         = {<<c, hub.configs[c]>> : c \in {x \in Configs : hub.configs[x] # None}}
    /\ Cardinality({d.key : d \in Drafts}) = Len(settings.drafts)
    /\ \E d \in Drafts : d.key = settings.active

\* The history has every query there was of the configuration it was listed for, failed ones too.
HistoryIsComplete == Quiet("history") => archive.items = list_history(hub, archive.listed)

\* As long as no request has overtaken another one or failed, the plugin's page shows what its
\* backend holds: the stored configurations, the last result of the selected one, the users
\* searched for and the whole history.
PageShowsTheStore == SelectionIsShown /\ SearchIsAnswered /\ DraftsAreStored /\ HistoryIsComplete
=============================================================================

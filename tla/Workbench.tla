------------------------------ MODULE Workbench ------------------------------
(***************************************************************************)
(* The window.  Its workspaces are components of one React tree that run   *)
(* in one thread, keep their state in hooks of their own and call each     *)
(* other only where a module below says so; what happens in one does not   *)
(* change the state of another.  A behaviour of the window therefore       *)
(* interleaves behaviours of the workspaces, and to see everything that    *)
(* can happen in each it is enough to look at them one at a time: the one  *)
(* the user works in is chosen at first, the others stay as they open.     *)
(***************************************************************************)
EXTENDS Integers, FiniteSets

CONSTANTS InitialKeys, MaxKey, PageSize, MaxGestures, MaxCalls,
          Names, MaxDesignSteps, MaxAlters,
          Databases, MaxDdl, MaxLoads, MaxRequests,
          ConsolePage, MaxConsoleSteps, MaxRuns,
          GroupIds, Profiles, GroupNames, MaxSourceSteps, MaxSourceCalls,
          ComparePairs, CompareTables, DetailTypes, Differences,
          MaxChoices, MaxCompares, MaxCompareSteps, MaxCompareCalls,
          Requests, MaxDialogSteps, MaxDecisions,
          Nodes, MaxSends, MaxSendSteps, MaxHandlers, MaxEvents,
          Files, Friends, MaxShares, MaxShareSteps, MaxShareCalls,
          RedisProfiles, Indexes, MaxRedisSteps, MaxRedisCalls,
          Alphabets, MaxText, MaxParts, MaxAsks,
          Configs, MaxPluginSteps, MaxPluginCalls,
          Plugins, Packages, MaxProcesses, MaxRpcs, MaxHostEvents

ASSUME WorkbenchAssumption ==
  /\ PageSize \in Nat \ {0} /\ ConsolePage \in Nat \ {0}
  /\ MaxKey \in Nat /\ InitialKeys \subseteq 1..MaxKey /\ Names \subseteq 1..9
  /\ Databases \subseteq Nat /\ IsFiniteSet(Databases)
  /\ 0 \notin GroupIds \cup Profiles \cup GroupNames \cup ComparePairs \cup CompareTables
  /\ GroupNames \subseteq Nat /\ GroupNames # {} /\ GroupIds # {}
  /\ CompareTables \cup Differences \subseteq Nat /\ IsFiniteSet(CompareTables \cup Differences)
  /\ "insert" \in DetailTypes
  /\ 0 \notin Requests \cup Nodes \cup RedisProfiles \cup Plugins /\ Packages \subseteq Plugins
  /\ Indexes \subseteq Nat /\ 0 \in Indexes
  /\ {MaxCalls, MaxLoads, MaxRuns, MaxSends, MaxShares, MaxPluginCalls} \subseteq Nat

VARIABLES workspace,
          table, grid, pages, previews, dialog, applies, gestures, inserted,
          columns, tab, designLoads, asked, sqlPreview, running, steps, alters, outcome,
          schema, listed, tables, completion, expired, tableRef, completionRef, nodeLoading,
          loads, statements, warm, asks, own, overtaken, failed,
          console, runs, exportDialog, exports, file, consoleSteps, lastRun, crossed,
          store, screen, forms, assignments, sourceCalls, loaded, connection, createDb,
          sourceSteps, raced, halfDone,
          pair, data, structure, compareCalls, compareSteps, mishaps,
          offers, receiver, poll, decisions, dialogSteps, misplaced,
          service, sender, sendPoll, handlers, sendSteps, events, blurred,
          shares, favorites, desk, sharePoll, shareCalls, shareSteps, made, draft, taken, mixed,
          profiles, redis, redisCalls, redisSteps, strayed,
          alphabet, text, query, cached, context, ask, offer, answersWanted,
          hub, settings, directory, archive, pluginCalls, pluginSteps, disturbed,
          disk, processes, registry, rpcs, shell, commands, hostEvents, lateStarts

Data == INSTANCE DataTab
Design == INSTANCE DesignTab
Caches == INSTANCE SchemaCaches
Console == INSTANCE ConsoleTab
Sources == INSTANCE Datasources
Compare == INSTANCE CompareScreen
Incoming == INSTANCE IncomingDialog
Sending == INSTANCE SendWizard
Sharing == INSTANCE ShareDraft
Redis == INSTANCE RedisWorkspace
Text == INSTANCE SqlText
Completion == INSTANCE SqlCompletion
Plugin == INSTANCE DingtalkPlugin
Host == INSTANCE PluginHost

dataVars == <<table, grid, pages, previews, dialog, applies, gestures, inserted>>
designVars == <<columns, tab, designLoads, asked, sqlPreview, running, steps, alters, outcome>>
cacheVars == <<schema, listed, tables, completion, expired, tableRef, completionRef,
               nodeLoading, loads, statements, warm, asks, own, overtaken, failed>>
consoleVars == <<console, runs, exportDialog, exports, file, consoleSteps, lastRun, crossed>>
sourceVars == <<store, screen, forms, assignments, sourceCalls, loaded, connection, createDb,
                sourceSteps, raced, halfDone>>
compareVars == <<pair, data, structure, compareCalls, compareSteps, mishaps>>
incomingVars == <<offers, receiver, poll, decisions, dialogSteps, misplaced>>
sendingVars == <<service, sender, sendPoll, handlers, sendSteps, events, blurred>>
sharingVars == <<shares, favorites, desk, sharePoll, shareCalls, shareSteps, made, draft,
                 taken, mixed>>
redisVars == <<profiles, redis, redisCalls, redisSteps, strayed>>
textVars == <<alphabet, text>>
completionVars == <<query, cached, context, ask, offer, answersWanted>>
viewVars == <<dataVars, designVars, cacheVars, consoleVars, sourceVars, compareVars,
              incomingVars, sendingVars, sharingVars, redisVars>>
editorVars == <<textVars, completionVars>>
dingtalkVars == <<hub, settings, directory, archive, pluginCalls, pluginSteps, disturbed>>
hostVars == <<disk, processes, registry, rpcs, shell, commands, hostEvents, lateStarts>>
pluginVars == <<dingtalkVars, hostVars>>
vars == <<workspace, viewVars, editorVars, pluginVars>>

\* the tables of a workspace nobody looks at are empty ones
Init ==
  /\ workspace \in {"data", "design", "caches", "console", "sources", "compare",
                   "incoming", "sending", "sharing", "redis", "text", "completion",
                   "plugin", "host"}
  /\ Data!Init /\ Design!Init /\ Caches!Init /\ Console!Init /\ Sources!Init /\ Compare!Init
  /\ Incoming!Init /\ Sending!Init /\ Sharing!Init /\ Redis!Init /\ Text!Init
  /\ Completion!Init /\ Plugin!Init /\ Host!Init
  /\ workspace # "data" => \A k \in DOMAIN table : table[k] = 0
  /\ workspace # "design" => columns = <<>>
  /\ workspace # "text" => alphabet = CHOOSE a \in Alphabets : TRUE
  /\ workspace # "plugin" => hub.given = 0
  /\ workspace # "host" => \A p \in Plugins : disk[p] = 0

DataStep ==
  /\ workspace = "data" /\ Data!Next
  /\ UNCHANGED <<workspace, designVars, cacheVars, consoleVars, sourceVars, compareVars,
                 incomingVars, sendingVars, sharingVars, redisVars, editorVars, pluginVars>>
DesignStep ==
  /\ workspace = "design" /\ Design!Next
  /\ UNCHANGED <<workspace, dataVars, cacheVars, consoleVars, sourceVars, compareVars,
                 incomingVars, sendingVars, sharingVars, redisVars, editorVars, pluginVars>>
CachesStep ==
  /\ workspace = "caches" /\ Caches!Next
  /\ UNCHANGED <<workspace, dataVars, designVars, consoleVars, sourceVars, compareVars,
                 incomingVars, sendingVars, sharingVars, redisVars, editorVars, pluginVars>>
ConsoleStep ==
  /\ workspace = "console" /\ Console!Next
  /\ UNCHANGED <<workspace, dataVars, designVars, cacheVars, sourceVars, compareVars,
                 incomingVars, sendingVars, sharingVars, redisVars, editorVars, pluginVars>>
SourcesStep ==
  /\ workspace = "sources" /\ Sources!Next
  /\ UNCHANGED <<workspace, dataVars, designVars, cacheVars, consoleVars, compareVars,
                 incomingVars, sendingVars, sharingVars, redisVars, editorVars, pluginVars>>
CompareStep ==
  /\ workspace = "compare" /\ Compare!Next
  /\ UNCHANGED <<workspace, dataVars, designVars, cacheVars, consoleVars, sourceVars,
                 incomingVars, sendingVars, sharingVars, redisVars, editorVars, pluginVars>>
IncomingStep ==
  /\ workspace = "incoming" /\ Incoming!Next
  /\ UNCHANGED <<workspace, dataVars, designVars, cacheVars, consoleVars, sourceVars,
                 compareVars, sendingVars, sharingVars, redisVars, editorVars, pluginVars>>
SendingStep ==
  /\ workspace = "sending" /\ Sending!Next
  /\ UNCHANGED <<workspace, dataVars, designVars, cacheVars, consoleVars, sourceVars,
                 compareVars, incomingVars, sharingVars, redisVars, editorVars, pluginVars>>
SharingStep ==
  /\ workspace = "sharing" /\ Sharing!Next
  /\ UNCHANGED <<workspace, dataVars, designVars, cacheVars, consoleVars, sourceVars,
                 compareVars, incomingVars, sendingVars, redisVars, editorVars, pluginVars>>
RedisStep ==
  /\ workspace = "redis" /\ Redis!Next
  /\ UNCHANGED <<workspace, dataVars, designVars, cacheVars, consoleVars, sourceVars,
                 compareVars, incomingVars, sendingVars, sharingVars, editorVars, pluginVars>>
TextStep ==
  /\ workspace = "text" /\ Text!Next
  /\ UNCHANGED <<workspace, viewVars, completionVars, pluginVars>>
CompletionStep ==
  /\ workspace = "completion" /\ Completion!Next
  /\ UNCHANGED <<workspace, viewVars, textVars, pluginVars>>
PluginStep ==
  /\ workspace = "plugin" /\ Plugin!Next
  /\ UNCHANGED <<workspace, viewVars, editorVars, hostVars>>
HostStep ==
  /\ workspace = "host" /\ Host!Next
  /\ UNCHANGED <<workspace, viewVars, editorVars, dingtalkVars>>

Next ==
  \/ DataStep \/ DesignStep \/ CachesStep \/ ConsoleStep \/ SourcesStep \/ CompareStep
  \/ IncomingStep \/ SendingStep \/ SharingStep \/ RedisStep
  \/ TextStep \/ CompletionStep \/ PluginStep \/ HostStep

\* Every workspace is treated fairly.  Those nobody works in have nothing to do at first, and
\* what asks for its data or polls as soon as it opens does so only where the user works.
Fairness ==
  /\ Data!Fairness /\ Design!Fairness /\ Caches!Fairness /\ Console!Fairness /\ Sources!Fairness
  /\ Compare!Fairness /\ Sending!Fairness /\ Sharing!Fairness /\ Host!Fairness
  /\ WF_redisVars(workspace = "redis" /\ \E c \in redisCalls : Redis!Answer(c))
  /\ WF_dingtalkVars(workspace = "plugin" /\ \E c \in pluginCalls : Plugin!Serve(c) \/ Plugin!Answer(c))
  /\ WF_incomingVars(workspace = "incoming" /\ Incoming!SendPoll)
  /\ WF_incomingVars(workspace = "incoming" /\ Incoming!ServePoll)
  /\ SF_incomingVars(workspace = "incoming" /\ Incoming!PollAnswer)
  /\ WF_incomingVars(workspace = "incoming" /\ \E c \in decisions : Incoming!Serve(c) \/ Incoming!Answer(c))

Spec == Init /\ [][Next]_vars /\ Fairness

----------------------------------------------------------------------------
(* What each workspace keeps to, stated where it is modelled.  The others  *)
(* are as they were opened: a property is asked of the workspace in front. *)

\* Type invariant: every workspace is in a state its views know.
WorkbenchTypeOK ==
  CASE workspace = "data" -> Data!DataTypeOK
    [] workspace = "design" -> Design!DesignTypeOK
    [] workspace = "caches" -> Caches!CacheTypeOK
    [] workspace = "console" -> Console!ConsoleTypeOK
    [] workspace = "sources" -> Sources!DatasourcesTypeOK
    [] workspace = "compare" -> Compare!CompareTypeOK
    [] workspace = "incoming" -> Incoming!IncomingTypeOK
    [] workspace = "sending" -> Sending!SendTypeOK
    [] workspace = "sharing" -> Sharing!ShareTypeOK
    [] workspace = "redis" -> Redis!RedisTypeOK
    [] workspace = "text" -> Text!TextTypeOK
    [] workspace = "completion" -> Completion!CompletionTypeOK
    [] workspace = "plugin" -> Plugin!PluginTypeOK
    [] workspace = "host" -> Host!HostTypeOK

\* A row the server has inserted does not stay in the tab as a row to insert.
InsertedRowsLeave == workspace = "data" => Data!InsertedRowsLeave
\* The page shown is one of the filter shown, unless the user is typing another.
PageMatchesFilter == workspace = "data" => Data!PageMatchesFilter

\* A design that is confirmed becomes the table, and until then its columns keep the loaded
\* column they came from.
DraftBecomesTable == workspace = "design" => Design!DraftBecomesTable /\ Design!OriginsAreKept
\* The statements executed are the statements shown.
RunsWhatWasShown == workspace = "design" => Design!RunsWhatWasShown

\* A load of the schema caches that is registered is on its way.
RegisteredIsOnItsWay == workspace = "caches" => Caches!RegisteredIsOnItsWay
\* Caches never show a schema older than a statement of the console, unless overtaken.
CachesFollowUnlessOvertaken == workspace = "caches" => Caches!CachesFollowUnlessOvertaken
\* The navigation's search ends with every database's tables at hand.
SearchSeesEveryDatabase == workspace = "caches" => Caches!SearchSeesEveryDatabase

\* The console shows the page that its last run asked for, and an export of it is of what was
\* shown.
ShowsTheLastRun == workspace = "console" => Console!ShowsTheLastRun /\ Console!ExportIsOfTheResultShown

\* Groups, members and the tree of data sources are those of the local store, and forms name
\* groups that are still there.
ScreenMatchesStore == workspace = "sources" => Sources!ScreenMatchesStore /\ Sources!FormsNameListedGroups

\* The SQL file of a comparison holds the differences that are checked.
ExportsWhatIsChecked == workspace = "compare" => Compare!ExportsWhatIsChecked
\* A result on screen is of the databases the form names, and the differences listed are its own.
ResultIsOfTheForm == workspace = "compare" => Compare!ResultIsOfTheForm /\ Compare!ListedIsTheResult

\* Received files are saved where the user said for this very request.
DestinationIsOfTheRequest == workspace = "incoming" => Incoming!DestinationIsOfTheRequest
\* No request to send files waits in vain for a dialog that is about something over.
RequestsReachTheUser == Incoming!RequestsReachTheUser
\* A node's row in the send wizard is about the last task started for it.
RowShowsTheNewestSend == workspace = "sending" => Sending!RowShowsTheNewestSend
\* A draft is shared once, and its files are not lost on the way.
DraftIsSharedOnce == workspace = "sharing" => Sharing!DraftIsSharedOnce

\* Redis keys and the key shown in detail are of the database of the tab in front.
KeysAreOfTheTab == workspace = "redis" => Redis!KeysAreOfTheTab

\* The editor's scanners agree on what is quoted, where a statement ends, and its tokens.
ScannersAgree == workspace = "text" => Text!ScannersAgree
\* The editor offers the tables and columns that are in scope.
OffersWhatIsInScope == workspace = "completion" => Completion!OffersWhatIsInScope

\* The plugin's page shows what its backend holds, unless requests overtook or failed.
PageShowsTheStore == workspace = "plugin" => Plugin!PageShowsTheStore

\* A call of a plugin's backend reads its own answer.
AnswersInStep == workspace = "host" => Host!AnswersInStep
\* Plugins run and are shown as they are installed.
PluginsRunAsInstalled == workspace = "host" => Host!PluginsRunAsInstalled

\* No workspace stays busy: whatever shows that it is loading, running or saving has its
\* request on the way, and every answer and every error releases it.
NothingStaysBusy ==
  []<>~(\/ Data!DataBusy \/ Design!DesignBusy \/ Caches!CachesBusy
        \/ Console!ConsoleBusy \/ Sources!SourcesBusy \/ Compare!CompareBusy
        \/ Incoming!IncomingBusy \/ Sending!SendBusy \/ Sharing!ShareBusy
        \/ Plugin!PluginBusy \/ Host!HostBusy
        \/ workspace = "redis" /\ Redis!RedisBusy)  \* it opens loading its profiles
=============================================================================

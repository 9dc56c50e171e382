CONSTANTS InitialKeys = {1, 2}
          MaxKey = 3
          PageSize = 2
          MaxGestures = 4
          MaxCalls = 2
          Names = {2, 3}
          MaxDesignSteps = 3
          MaxAlters = 1
          Databases = {1, 2}
          MaxDdl = 1
          MaxLoads = 2
          MaxRequests = 2
          ConsolePage = 2
          MaxConsoleSteps = 4
          MaxRuns = 2
          GroupIds = {1, 2}
          Profiles = {1, 2}
          GroupNames = {1, 2}
          MaxSourceSteps = 3
          MaxSourceCalls = 2
          ComparePairs = {1}
          CompareTables = {1}
          DetailTypes = {"insert", "delete"}
          Differences = {1, 2}
          MaxChoices = 2
          MaxCompares = 2
          MaxCompareSteps = 2
          MaxCompareCalls = 2
          Requests = {1, 2}
          MaxDialogSteps = 2
          MaxDecisions = 2
          Nodes = {1, 2}
          MaxSends = 2
          MaxSendSteps = 4
          MaxHandlers = 2
          MaxEvents = 1
          Files = {1, 2}
          Friends = {1}
          MaxShares = 2
          MaxShareSteps = 5
          MaxShareCalls = 2
          RedisProfiles = {1, 2}
          Indexes = {0, 1}
          MaxRedisSteps = 5
          MaxRedisCalls = 2
          Alphabets = {{"x", "'", ";", "NL"}, {"tick", "'", ";", "("}, {"-", "#", "NL", ";"}, {"/", "*", ";", "'"}, {"(", ")", ";", "#"}}
          MaxText = 5
          MaxParts = 2
          MaxAsks = 1
          Configs = {1, 2}
          MaxPluginSteps = 2
          MaxPluginCalls = 2
          Plugins = {1, 2}
          Packages = {1}
          MaxProcesses = 2
          MaxRpcs = 2
          MaxHostEvents = 3
SPECIFICATION Spec
CHECK_DEADLOCK FALSE
INVARIANTS WorkbenchTypeOK
           InsertedRowsLeave PageMatchesFilter
           DraftBecomesTable RunsWhatWasShown
           RegisteredIsOnItsWay CachesFollowUnlessOvertaken SearchSeesEveryDatabase
           ShowsTheLastRun
           
           ExportsWhatIsChecked ResultIsOfTheForm
           DestinationIsOfTheRequest RowShowsTheNewestSend DraftIsSharedOnce KeysAreOfTheTab
            OffersWhatIsInScope PageShowsTheStore AnswersInStep PluginsRunAsInstalled
PROPERTIES NothingStaysBusy RequestsReachTheUser

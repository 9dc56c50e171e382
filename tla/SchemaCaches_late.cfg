CONSTANTS Databases = {1}
          MaxDdl = 1
          MaxLoads = 3
          MaxRequests = 2
SPECIFICATION Spec
CHECK_DEADLOCK FALSE
INVARIANT CachesFollowOwnDdl

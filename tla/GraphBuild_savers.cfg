SPECIFICATION FairSpec
CONSTANTS
  loop = loop
  pipeline = pipeline
  NoThread = NoThread
  NoFile = NoFile
  Threads = {loop, pipeline}
  NumAgents = 2
  Configs <- MCConfigs
  KeysSet = {"ARK_API_KEY"}
  MaxBuilds = 4
  MaxConnections = 3
  MaxEdits = 1
INVARIANTS TypeOK NothingLeaks SaversAreUsable OneConnectionPerThread ClientsMatchRouting
PROPERTY BuildsEnd
\* a process may be gone, or idle with every bounded action used up
CHECK_DEADLOCK FALSE

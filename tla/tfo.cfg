SPECIFICATION FairSpec
CONSTANTS
  MaxMsgs = 3
  MaxSets = 3
INVARIANTS NoLeak ExactlyOnce DeadlinesKept
PROPERTIES CloseReleases

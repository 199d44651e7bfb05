CONSTANTS
  Keys = {1, 2, 3, 4}
  Values = {v1, v2}
  Hash <- MCHash
  InitSize = 2
  Empty = Empty
  None = None
  OwnSites = {"own1", "own2"}
  ForeignSites = {"foreign"}
  SiteKey <- MCSiteKey
  ImportFirst = TRUE
SPECIFICATION FairCacheSpec
INVARIANTS KeysReachable ProbeTerminates HitsAreSound ModuleCacheCurrent
PROPERTIES IndexStable ImplementsMap SetReturns AccessesByName
CHECK_DEADLOCK FALSE

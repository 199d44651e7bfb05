CONSTANTS
  Keys = {1, 2, 3, 4}
  Values = {v1, v2}
  Hash <- MCHash
  InitSize = 2
  Empty = Empty
  None = None
  OwnSites = {"own1", "own2"}
  ForeignSites = {"foreign"}
  SiteKey <- MCSiteKey
  ImportFirst = FALSE
SPECIFICATION FairCacheSpec
INVARIANTS ModuleCacheCurrent
CHECK_DEADLOCK FALSE

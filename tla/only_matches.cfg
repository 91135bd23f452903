SPECIFICATION Spec
CONSTANTS
  MaxStarts = 1
  NoPool = NoPool
  Lists <- OneList
  Pages <- MCPages
  Filters <- OneFilter
  Forced = {""}
  Configs <- NoConfig
  Lower <- MCLower
  Malformed = {"a,b"}
INVARIANT OnlyMatches

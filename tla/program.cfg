SPECIFICATION Spec
CONSTANTS
  MaxStarts = 2
  NoPool = NoPool
  Lists <- MCLists
  Pages <- MCPages
  Filters <- MCFilters
  Forced = {"", "HK"}
  Configs <- MCConfigs
  Lower <- MCLower
  Malformed = {"a,b"}
INVARIANTS NothingLeft PoolShared IdentityKept NoListWasted 

SPECIFICATION FairSpec
CONSTANTS
  Callers = {c1, c2}
  Calls = {k1, k2}
  NoCall = NoCall
  TTL = 1
  MaxTime = 3
INVARIANTS OneFlight NoStaleAnswer OwnCancelOnly
PROPERTIES LookupReturns

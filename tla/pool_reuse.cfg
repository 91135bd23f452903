SPECIFICATION FairSpec
CONSTANTS
  Conns = {c1}
  Sessions = {s1, s2, s3}
  NoConn = NoConn
  NoSession = NoSession
  MaxIdle = 1
  MaxUses = 2
  MaxTries = 3
  Preconnect = 0
  IdleAge = 0
  MaxTime = 1
  MaxWire = 1
  StrayZero = TRUE
  WebSocket = TRUE
  Stalls = TRUE
INVARIANTS UsesBounded NoCrossSession UpstreamFramed
PROPERTY DialReturns

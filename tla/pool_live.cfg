SPECIFICATION FairSpec
CONSTANTS
  Conns = {c1, c2}
  Sessions = {s1}
  NoConn = NoConn
  NoSession = NoSession
  MaxIdle = 2
  MaxUses = 2
  MaxTries = 3
  Preconnect = 2
  IdleAge = 0
  MaxTime = 1
  MaxWire = 0
  StrayZero = FALSE
  WebSocket = TRUE
  Stalls = TRUE
PROPERTIES ClosedPoolDrains NoExpiredSurvivor

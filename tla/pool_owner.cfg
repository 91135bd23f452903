SPECIFICATION Spec
CONSTANTS
  Conns = {c1, c2}
  Sessions = {s1, s2}
  NoConn = NoConn
  NoSession = NoSession
  MaxIdle = 1
  MaxUses = 2
  MaxTries = 1
  Preconnect = 1
  IdleAge = 0
  MaxTime = 1
  MaxWire = 0
  StrayZero = FALSE
  WebSocket = FALSE
  Stalls = FALSE
SYMMETRY ConnSymmetry
INVARIANTS TypeOK NoLeak OneOwner ClosedPoolEmpty
PROPERTIES ImplementsLeases

SPECIFICATION Spec
CONSTANTS
  s1 = s1
  s2 = s2
  s3 = s3
  Sessions = {s1, s2}
  Peer <- MCPeer
  Addrs <- MCAddrs
  HostPort <- MCHostPort
  IP <- MCIP
  NoAddr = NoAddr
  NoSession = NoSession
  ChanCap = 1
  WSSessions = {}
SYMMETRY Symmetry
INVARIANTS PinIntegrity NoGhost
PROPERTIES ImplementsPins

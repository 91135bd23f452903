SPECIFICATION FairSpec
CONSTANTS
  MaxData = 2
  MaxAddrs = 2
INVARIANTS UpstreamOwned NothingLost NothingUntried
PROPERTIES HandshakeBounded RelayEnds AssociateAnswered

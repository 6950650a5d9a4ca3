SPECIFICATION FairSpec
CONSTANTS
  Iface <- TwoIfaces
  Watched <- OneWatched
  Addr <- TwoAddrs
  Peer <- Peers
  QueueCap = 2
  MaxChanges = 3
INVARIANTS
  ListTracksKernel
PROPERTIES
  FindsAssigned
  FindReturns
  TeardownReturns
CHECK_DEADLOCK FALSE

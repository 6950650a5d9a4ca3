SPECIFICATION FairSpec
CONSTANTS
  unspec = unspec
  a = a
  b = b
  t1 = t1
  t2 = t2
  local = local
  noif = noif
  eth0 = eth0
  eth1 = eth1
  eth2 = eth2
  Unspec = unspec
  NoIface = noif
  Addr <- AddrOne
  Unicast <- UnicastOne
  Iface <- Iface2
  Opt <- OptIdle
  Ifa <- IfaOne
  Rules <- RulesOne
  Solicits <- SolicitsOne
  Adverts <- AdvertsOne
  Clock <- Steady
  RouteTables <- NoRoutes
  AddrTables <- NoAddrs
  Openable <- Iface2
  NProxy = 1
  MaxStep = 2
  RouteTTL = 0
  AddrTTL = 0
INVARIANTS
  TypeOK
  SessionInv
  BoundedLife
PROPERTIES
  ParkedAreAnswered
  ParkedReleased
CHECK_DEADLOCK FALSE

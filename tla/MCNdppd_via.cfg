SPECIFICATION Spec
CONSTANTS
  unspec = unspec
  a = a
  b = b
  t1 = t1
  t2 = t2
  local = local
  noif = noif
  eth0 = eth0
  eth1 = eth1
  eth2 = eth2
  Unspec = unspec
  NoIface = noif
  Addr <- AddrVia
  Unicast <- UnicastVia
  Iface <- Iface3
  Opt <- OptVia
  Ifa <- IfaOne
  Rules <- RulesVia
  Solicits <- SolicitsVia
  Adverts <- AdvertsVia
  Clock <- UnitSteps
  RouteTables <- NoRoutes
  AddrTables <- NoAddrs
  Openable <- Iface3
  NProxy = 1
  MaxStep = 1
  RouteTTL = 0
  AddrTTL = 0
INVARIANTS
  NoLeakedRoutes
PROPERTIES
  WiredOnce
CHECK_DEADLOCK FALSE

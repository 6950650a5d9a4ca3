SPECIFICATION Spec
CONSTANTS
  unspec = unspec
  a = a
  b = b
  t1 = t1
  t2 = t2
  local = local
  noif = noif
  eth0 = eth0
  eth1 = eth1
  eth2 = eth2
  Unspec = unspec
  NoIface = noif
  Addr <- AddrDuplex
  Unicast <- UnicastDuplex
  Iface <- Iface3
  Opt <- OptDuplex
  Ifa <- IfaDuplex
  Rules <- RulesDuplex
  Solicits <- SolicitsDuplex
  Adverts <- AdvertsDuplex
  Clock <- UnitSteps
  RouteTables <- NoRoutes
  AddrTables <- SomeAddrs
  Openable <- Iface3
  NProxy = 2
  MaxStep = 1
  RouteTTL = 0
  AddrTTL = 0
INVARIANTS
  NoLeakedRoutes
  
  MonitoredAdvertsResolve
PROPERTIES
  ImplementsCache
CHECK_DEADLOCK FALSE

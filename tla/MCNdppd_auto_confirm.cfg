SPECIFICATION Spec
CONSTANTS
  unspec = unspec
  a = a
  b = b
  t1 = t1
  t2 = t2
  local = local
  noif = noif
  eth0 = eth0
  eth1 = eth1
  eth2 = eth2
  Unspec = unspec
  NoIface = noif
  Addr <- AddrVia
  Unicast <- UnicastVia
  Iface <- Iface3
  Opt <- OptIdle
  Ifa <- IfaOne
  Rules <- RulesAuto
  Solicits <- SolicitsVia
  Adverts <- AdvertsAuto
  Clock <- UnitSteps
  RouteTables <- OneTable
  AddrTables <- NoAddrs
  Openable <- Iface3
  NProxy = 1
  MaxStep = 1
  RouteTTL = 4
  AddrTTL = 0
INVARIANTS
  MonitoredAdvertsResolve
CHECK_DEADLOCK FALSE

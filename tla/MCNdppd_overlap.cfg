SPECIFICATION Spec
CONSTANTS
  unspec = unspec
  a = a
  b = b
  t1 = t1
  t2 = t2
  local = local
  noif = noif
  eth0 = eth0
  eth1 = eth1
  eth2 = eth2
  Unspec = unspec
  NoIface = noif
  Addr <- AddrMixed
  Unicast <- UnicastMixed
  Iface <- Iface3
  Opt <- OptMixed
  Ifa <- IfaDuplex
  Rules <- RulesOverlap
  Solicits <- SolicitsOverlap
  Adverts <- AdvertsMixed
  Clock <- UnitSteps
  RouteTables <- OneTable
  AddrTables <- NoAddrs
  Openable <- Iface3
  NProxy = 2
  MaxStep = 1
  RouteTTL = 2
  AddrTTL = 0
INVARIANTS
  NeverAborts
CHECK_DEADLOCK FALSE

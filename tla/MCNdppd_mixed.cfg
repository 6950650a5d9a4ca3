SPECIFICATION Spec
CONSTANTS
  unspec = unspec
  a = a
  b = b
  t1 = t1
  t2 = t2
  local = local
  noif = noif
  eth0 = eth0
  eth1 = eth1
  eth2 = eth2
  Unspec = unspec
  NoIface = noif
  Addr <- AddrMixed
  Unicast <- UnicastMixed
  Iface <- Iface3
  Opt <- OptMixed
  Ifa <- IfaDuplex
  Rules <- RulesMixed
  Solicits <- SolicitsMixed
  Adverts <- AdvertsMixed
  Clock <- UnitSteps
  RouteTables <- BothTables
  AddrTables <- NoAddrs
  Openable <- Iface3
  NProxy = 2
  MaxStep = 1
  RouteTTL = 2
  AddrTTL = 0
INVARIANTS
  AnswersBacked
  AnsweredOrParked
PROPERTIES
  LeaksOnlyOnAbort
CHECK_DEADLOCK FALSE

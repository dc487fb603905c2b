SPECIFICATION Spec
CONSTANTS
  s1 = s1
  s2 = s2
  eth = eth
  wlan = wlan
  ppp = ppp
  unit = unit
  Servers <- MCServers
  Routes <- MCRoutes
  ViaGateway <- MCViaGateway
  Units <- MCUnits
  Hosts <- MCHosts
  Faults <- Deaths
  Commands <- CommandNames
  Tun = Tun
  NoRoute = NoRoute
  NoSnap = NoSnap
  NoServer = NoServer
INVARIANTS
  TypeOK
  AsFound
  KillSwitch
  PinsAccounted
  ResolvKept
PROPERTIES
  SnapshotNotClobbered
  CommandsEnd
  NoDaemonLeft
  ConnectionKept

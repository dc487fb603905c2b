SPECIFICATION Spec
CONSTANTS
  s1 = s1
  s2 = s2
  eth = eth
  wlan = wlan
  ppp = ppp
  unit = unit
  Servers <- MCServers
  Routes <- MCRoutes
  ViaGateway <- MCViaGateway
  Units <- MCUnits
  Hosts <- NoIp6tables
  Faults <- NoFaults
  Commands <- Connecting
  Tun = Tun
  NoRoute = NoRoute
  NoSnap = NoSnap
  NoServer = NoServer
INVARIANTS
  FailedRollbackRecoverable

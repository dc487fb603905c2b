SPECIFICATION Spec
CONSTANTS
  s1 = s1
  s2 = s2
  eth = eth
  wlan = wlan
  ppp = ppp
  unit = unit
  Servers <- OneServer
  Routes <- MCRoutes
  ViaGateway <- MCViaGateway
  Units <- MCUnits
  Hosts <- PoorHosts
  Faults <- AllButLinger
  Commands <- CommandNames
  Tun = Tun
  NoRoute = NoRoute
  NoSnap = NoSnap
  NoServer = NoServer
PROPERTIES
  NoDaemonLeft

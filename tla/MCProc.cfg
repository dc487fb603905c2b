SPECIFICATION Spec
CONSTANTS
  c1 = c1
  c2 = c2
  p1 = p1
  p2 = p2
  p3 = p3
  Clients <- TwoCommands
  Pids <- ThreePids
  Names <- OneDaemon
  Watched = "tun2socks"
  Strangers <- OtherPrograms
  NoPid = NoPid
  Nobody = Nobody
PROPERTIES
  StopMeansGone
  CallsReturn
  DaemonKept

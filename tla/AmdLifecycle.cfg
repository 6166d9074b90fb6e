SPECIFICATION FairSpec
CONSTANTS
  echo = echo
  other = other
  p1 = p1
  p2 = p2
  q1 = q1
  q2 = q2
  Service = {echo}
  WorkerProc = {p1}
  ClientProc = {q1}
  WorkerId = {w1, w2}
  ClientId = {c1, c2}
  Requests = 2
  FrontHwm = 2
  BackHwm = 3
  ServiceOf <- AllEcho
  WantOf <- AllWantEcho
  FaultKinds = {"worker", "broker", "client", "backLink", "frontLink", "leave"}
  MaxFaults = 1
  Echo = echo
  Expiry = 1
  MaxMissing = 1
  NapTicks = 1
  PingPatience = 1
  PauseTicks = 1
  RecvPatience = 1
  NoService = NoService
  NoId = NoId
  NoClientId = NoClientId
  NoReply = NoReply
PROPERTIES
  LifecycleSpec
  WorkersRejoin
  GhostsAreForgotten
CHECK_DEADLOCK FALSE

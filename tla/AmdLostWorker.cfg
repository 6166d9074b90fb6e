SPECIFICATION FairSpec
CONSTANTS
  echo = echo
  other = other
  p1 = p1
  p2 = p2
  q1 = q1
  q2 = q2
  Service = {echo}
  WorkerProc = {p1}
  ClientProc = {q1}
  WorkerId = {w1, w2}
  ClientId = {c1, c2}
  Requests = 1
  FrontHwm = 2
  BackHwm = 2
  ServiceOf <- AllEcho
  WantOf <- AllWantEcho
  FaultKinds = {"backLink"}
  MaxFaults = 1
  Echo = echo
  Expiry = 3
  MaxMissing = 3
  NapTicks = 3
  PingPatience = 1
  PauseTicks = 1
  RecvPatience = 3
  NoService = NoService
  NoId = NoId
  NoClientId = NoClientId
  NoReply = NoReply
PROPERTIES
  RunningWorkersServe
CHECK_DEADLOCK FALSE

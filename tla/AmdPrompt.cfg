SPECIFICATION FairSpec
CONSTANTS
  echo = echo
  other = other
  p1 = p1
  p2 = p2
  q1 = q1
  q2 = q2
  Service = {echo}
  WorkerProc = {p1, p2}
  ClientProc = {q1}
  WorkerId = {w1, w2}
  ClientId = {c1}
  Requests = 2
  FrontHwm = 2
  BackHwm = 3
  ServiceOf <- AllEcho
  WantOf <- AllWantEcho
  FaultKinds = {}
  MaxFaults = 0
  Echo = echo
  Expiry = 3
  MaxMissing = 3
  NapTicks = 3
  PingPatience = 4
  PauseTicks = 5
  RecvPatience = 3
  NoService = NoService
  NoId = NoId
  NoClientId = NoClientId
  NoReply = NoReply
PROPERTIES
  NoFalseAlarm
  AcceptedIsAnswered
CHECK_DEADLOCK FALSE

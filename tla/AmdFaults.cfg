SPECIFICATION Spec
CONSTANTS
  echo = echo
  other = other
  p1 = p1
  p2 = p2
  q1 = q1
  q2 = q2
  Service = {echo}
  WorkerProc = {p1}
  ClientProc = {q1}
  WorkerId = {w1, w2}
  ClientId = {c1}
  Requests = 2
  FrontHwm = 2
  BackHwm = 2
  ServiceOf <- AllEcho
  WantOf <- AllWantEcho
  FaultKinds = {"worker", "leave", "broker", "backLink"}
  MaxFaults = 1
  Echo = echo
  Expiry = 1
  MaxMissing = 0
  NapTicks = 1
  PingPatience = 1
  PauseTicks = 1
  RecvPatience = 1
  NoService = NoService
  NoId = NoId
  NoClientId = NoClientId
  NoReply = NoReply
SYMMETRY Identities
INVARIANTS
  Inv
  OneRequestPerWorker
  AtMostOnce
CHECK_DEADLOCK FALSE

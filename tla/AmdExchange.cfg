SPECIFICATION PromptSpec
CONSTANTS
  echo = echo
  other = other
  p1 = p1
  p2 = p2
  q1 = q1
  q2 = q2
  Service = {echo, other}
  WorkerProc = {p1, p2}
  ClientProc = {q1, q2}
  WorkerId = {w1, w2}
  ClientId = {c1, c2}
  Requests = 2
  FrontHwm = 2
  BackHwm = 2
  ServiceOf <- SecondProvidesOther
  WantOf <- SecondWantsOther
  FaultKinds = {"client", "frontLink"}
  MaxFaults = 1
  Echo = echo
  Expiry = 1
  MaxMissing = 1
  NapTicks = 1
  PingPatience = 1
  PauseTicks = 1
  RecvPatience = 1
  NoService = NoService
  NoId = NoId
  NoClientId = NoClientId
  NoReply = NoReply
SYMMETRY Identities
INVARIANTS
  RepliesReachTheAsker
  GivenInOrder
  GivenToAProvider
  WorkConserving
CHECK_DEADLOCK FALSE

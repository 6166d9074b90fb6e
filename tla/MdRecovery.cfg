SPECIFICATION Spec
CONSTANTS
  echo = echo
  Service = {echo}
  WorkerProc = {p1}
  Client = {c1}
  WorkerId = {w1, w2}
  ServiceOf <- AllEcho
  WantOf <- AllWantEcho
  Requests = 2
  Retries = 3
  Expiry = 2
  MaxCut = 2
  MaxMissing = 1
  NapTicks = 1
  Patience = 1
  NoService = NoService
  NoId = NoId
  Faultable = {"broker", "worker"}
  MaxFaults = 2
INVARIANTS
  Inv
  OneRequestPerWorker
PROPERTIES
  AnswerFits
  ArrivalsHandOut
  WorkersRejoin
CHECK_DEADLOCK FALSE

SPECIFICATION PatternsSpec
CONSTANTS
  b1 = b1
  b2 = b2
  f1 = f1
  k3 = k3
  Router = {b1, b2}
  ForeignPeer = {f1}
  PeersOf <- PeersOfPeer
  RouterWorker = {x1}
  RouterClient = {k1, k2, k3}
  WorkerHome <- HomeOfWorker
  ClientHome <- HomeOfClient
  Rounds = 1
  Host = {h1, h2}
  Commands = 1
  HostExpiry = 3
  HostHwm = 2
  HostFaults = 1
  PirateWorker = {q1, q2}
  PirateClient = {p1, p2}
  Attempts = 2
  MaxDead = 2
  LbClient = {p1, p2, p3}
  LbWorker = {q1, q2}
  AsClient = {p1, p2}
  AsWorker = {q1}
  Hwm = 1
  MaxReplies = 2
  Subscriber = {s1, s2}
  TaskWorker = {q1, q2}
  Tasks = 3
  LazyClient = {p1}
  LazyAttempts = 4
  LazyPatience = 5
  LazyWork = 2
  LazyOverload = 4
  LazyWarmup = 5
  Text <- SomeText
  Version <- TheVersion
  Header <- TheHeader
  Identity <- AnIdentity
  MaxFrames = 6
INVARIANTS
  WorkerOnce
  NothingPassedOn
  LostOnlyToForeigners
  CommandOnce
  LossesArePaid
  NotAbandoned
  StoppedWhenDone
  EverySentIsRead
  NothingBeyondTheFrames
PROPERTIES
  ClientsServed
  AvailableAreAlive
  AskedIsTaken
  LbGetsOn
  AsGetsOn
CHECK_DEADLOCK FALSE

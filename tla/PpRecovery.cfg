SPECIFICATION FairSpec
CONSTANTS
  NoAddress = NoAddress
  Worker = {w1}
  Client = {c1}
  Retries = 2
  Expiry = 3
  Hwm = 14
  Patience = 4
  NapTicks = 3
  WorkTicks = 1
  OverloadTicks = 5
  Warmup = 0
  Troubles = {"crash", "overload"}
  ReplyPatience = 3
  UpAtFirst = FALSE
  MaxFaults = 1
INVARIANTS
  ListedOnce
  OneCopy
PROPERTIES
  WorkersReturn

SPECIFICATION FairSpec
CONSTANTS
  NoAddress = NoAddress
  Worker = {w1, w2}
  Client = {c1}
  Retries = 1
  Expiry = 2
  Hwm = 6
  Patience = 3
  NapTicks = 1
  WorkTicks = 1
  OverloadTicks = 2
  Warmup = 0
  Troubles = {"crash", "overload"}
  ReplyPatience = 2
  UpAtFirst = TRUE
  MaxFaults = 0
PROPERTIES
  GhostsForgotten

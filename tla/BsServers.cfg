SPECIFICATION RestlessSpec
CONSTANTS
  Client = {c1}
  Seqs = 2
  StateHwm = 1
  UpAtFirst = {}
  Faultable = {"primary", "backup"}
  MaxFaults = 2
  MaxQueue = 2
INVARIANTS
  TypeOK
  NeverBothPassive
  BackupFollowsPrimary
  RepliesAreExpected
PROPERTIES
  ServedWhileAble

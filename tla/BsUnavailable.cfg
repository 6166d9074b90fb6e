SPECIFICATION AttendedSpec
CONSTANTS
  Client = {c1}
  Seqs = 2
  StateHwm = 2
  UpAtFirst = {"backup"}
  Faultable = {"primary", "backup"}
  MaxFaults = 0
  MaxQueue = 2
PROPERTIES
  AlwaysServed

\* Two goroutines of the SDK and the goroutines of the devices, on one name.
SPECIFICATION FairSpec
CONSTANTS
  Names = {n1}
  Devices = {d1, d2, d3}
  NoDevice = none
  Users = {u1, u2}
  NoProcess = nobody
  NoName = noname
  Operations = {"get", "remove", "stop", "forcedStop"}
CHECK_DEADLOCK FALSE
INVARIANTS
  NoOrphans
  MapHoldsRunning
PROPERTIES
  NobodyWaitsForEver

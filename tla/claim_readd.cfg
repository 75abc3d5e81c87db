\* A device is removed and added again before its goroutine has ended.
SPECIFICATION Spec
CONSTANTS
  Names = {n1}
  Devices = {d1, d2, d3}
  NoDevice = none
  Users = {u1, u2}
  NoProcess = nobody
  NoName = noname
  Operations = {"get", "remove", "stop", "forcedStop"}
CHECK_DEADLOCK FALSE
PROPERTIES
  ManagedUntilRemoved

\* Driver.Stop(true) of a device whose reader does not answer.
SPECIFICATION FairSpec
CONSTANTS
  Clients = {k1, k2, k3}
  Closed = closed
  NoClient = nil
  Handlers = {h}
  Callers = {a}
  NoProcess = nobody
  Operations = {"ForcedStop"}
  maxSendAttempts = 3
  InitiallyUp = {TRUE, FALSE}
CHECK_DEADLOCK FALSE
PROPERTIES
  ForcedStopCloses

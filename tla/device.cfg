\* One handler and one caller of a reader that comes and goes.
SPECIFICATION FairSpec
CONSTANTS
  Clients = {k}
  Closed = closed
  NoClient = nil
  Handlers = {h}
  Callers = {a}
  NoProcess = nobody
  Operations = {"Stop", "UpdateAddr"}
  maxSendAttempts = 2
  InitiallyUp = {TRUE, FALSE}
CHECK_DEADLOCK FALSE
INVARIANTS
  LiveClientIsInstalled
  StopClosesConnections
PROPERTIES
  StopEndsLoop
  StaleAddressIsLeft
  ConnectionIsConfigured
  LostReaderIsReported

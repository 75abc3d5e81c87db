\* A handler of an old connection and the report that the reader is lost.
SPECIFICATION FairSpec
CONSTANTS
  Clients = {k1, k2, k3}
  Closed = closed
  NoClient = nil
  Handlers = {h}
  Callers = {a}
  NoProcess = nobody
  Operations = {}
  maxSendAttempts = 3
  InitiallyUp = {TRUE, FALSE}
CHECK_DEADLOCK FALSE
PROPERTIES
  ConnectedReaderIsUp

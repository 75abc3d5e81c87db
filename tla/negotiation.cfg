\* One caller of every operation while the versions are negotiated,
\* with every kind of reply, and KeepAlives that come faster than their
\* acknowledgements can be queued.
SPECIFICATION Spec
CONSTANTS
  Senders = {s1}
  Conn = conn
  NoCaller = none
  Deadlines = {}
  Operations = {"SendMessage", "SendNoWait", "Shutdown", "Close"}
  ClientVersion = 2
  HasTimeout = TRUE
  AckQueueSize = 1
  IdMod = 8
  ReaderVersions <- AllReaderVersions
  ReplyBodies = {"ok", "rejected", "unsupported", "huge", "cut"}
  UnsolicitedIds = {7}
  MaxUnsolicited = 2
INVARIANTS
  TypeOK
  NegotiationComesFirst
  AcksWaitForOneRequest
  CloseConnectionIsLast

\* Two callers of every operation on a v1.0.1 connection with a timeout;
\* only s1 has a deadline. The first request has ID 0, and no request has 7.
SPECIFICATION Spec
CONSTANTS
  Senders = {s1, s2}
  Conn = conn
  NoCaller = none
  Deadlines = {s1}
  Operations = {"SendMessage", "SendNoWait", "Shutdown", "Close"}
  ClientVersion = 1
  HasTimeout = TRUE
  AckQueueSize = 1
  IdMod = 8
  ReaderVersions <- AllReaderVersions
  ReplyBodies = {"ok", "rejected"}
  UnsolicitedIds = {0, 7}
  MaxUnsolicited = 1
INVARIANTS
  WaitersAreReachable
  RepliesAreCorrelated
  OneCloseSucceeds
  ClosedMeansRequested
  ShutdownIsGraceful
PROPERTIES
  ImplementsRequestReply

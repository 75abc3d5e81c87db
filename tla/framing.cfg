\* Two messages in flight, in pieces of any size. The system stops when the
\* connection has broken or the reader has given up.
SPECIFICATION Spec
CONSTANTS
  Messages <- SomeMessages
  MaxBufferedPayloadSz = 4
  MaxInFlight = 2
CHECK_DEADLOCK FALSE
INVARIANTS
  TypeOK
  StreamStaysAligned
PROPERTY
  ImplementsQueue

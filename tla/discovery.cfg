\* Two configurations of two subnets; two workers; scans with a time limit.
SPECIFICATION FairSpec
CONSTANTS
  Width = 4
  Configs <- SomeConfigs
  AsyncLimit = 2
  Durations = {"limited"}
  n1 = n1
  n2 = n2
  Names = {n1, n2}
  NoName = noname
  NoAddress = noaddress
  Listening <- SomeListening
  ReaderAt <- SomeReaderAt
  Registered <- SomeRegistered
  MaxRequests = 2
CHECK_DEADLOCK FALSE
INVARIANTS
  EveryAddressIsProbed
  ResultsAreKept
PROPERTIES
  StartedScanEnds
  ChangeIsDiscovered

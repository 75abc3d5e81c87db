\* Every type of the package, written by it and by readers of other habits.
\* One exchange at a time: the run stops when it has been read.
SPECIFICATION Spec
CONSTANTS
  Kinds <- AllKinds
  Fills = {1, 255}
  Layouts = {"own", "reversed", "interleaved"}
  NeverSet = {"C1G2SingulationDetails"}
CHECK_DEADLOCK FALSE
INVARIANTS
  RoundTrip
  PeerOrderIsRead
  SizesAgree

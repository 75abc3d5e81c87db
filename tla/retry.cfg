\* Durations of 4 + 1 bits and ints up to 3: both limits are met within
\* the 8 failed calls that are told apart.
SPECIFICATION FairSpec
CONSTANTS
  BackOffs = {0, 3}
  Maxes = {0, 11}
  KeepErrs <- SomeKeepErrs
  Jitters = {TRUE, FALSE}
  RetryCounts <- SomeRetries
  Deadlines <- SomeDeadlines
  CallTimes = {0, 2}
  Bits = 4
  MaxInt = 3
  MaxAttempts = 8
CHECK_DEADLOCK FALSE
INVARIANTS
  KeepsLatest
  AttemptsSaturate
  ReasonIsTrue
  WaitIsBounded
PROPERTIES
  CancelEnds

\* Three connections, two iterations of three steps, one order in flight allowed.
SPECIFICATION FairSpec
CONSTANTS
  MaxConns = 3
  Steps <- ShortSequence
  Limit = 1
  MaxIter = 2
INVARIANTS
  TypeOK
  InFlightExact
PROPERTIES
  RunnerReturns
  ReturnsAfterDeadline
CHECK_DEADLOCK FALSE

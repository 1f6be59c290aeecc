\* Two sessions on one book, one id, queues of one.
SPECIFICATION FairSpec
CONSTANTS
  Conns = {c1, c2}
  Ids = {a}
  SendCap = 1
  WireCap = 1
  MaxSent = 2
INVARIANTS
  TypeOK
  OneOwner
PROPERTIES
  HandlersProgress
  OnlyStuckSessionsStay
CHECK_DEADLOCK FALSE

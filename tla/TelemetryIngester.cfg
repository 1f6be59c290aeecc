\* The ingester and two replicas: two records, one failed or unanswered call, and one
\* crash, SIGTERM or move of the partition.
SPECIFICATION MCSpec
CONSTANTS
  Submissions = {s}
  Malformed = malformed
  Members = {m1, m2}
  NoMember = none
  Clients = {}
  MaxEvents = 2
  MaxAttempts = 2
  MaxTroubles = 1
  MaxUpsets = 1
  CanCrash = TRUE
  RegCap = 1
  MsgCap = 1
  SendCap = 1
INVARIANTS
  TypeOK
  LatestScoreStored
PROPERTIES
  EveryEventIngested
  StoredUnlessLossy
CHECK_DEADLOCK FALSE

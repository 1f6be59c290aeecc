\* One browser of an ingester that lives: two records, one trouble.
SPECIFICATION FairSpec
CONSTANTS
  Submissions = {s}
  Malformed = malformed
  Members = {m1}
  NoMember = none
  Clients = {c}
  MaxEvents = 2
  MaxAttempts = 1
  MaxTroubles = 1
  MaxUpsets = 0
  CanCrash = FALSE
  RegCap = 1
  MsgCap = 1
  SendCap = 1
INVARIANTS
  HubNeverPanics
  StalenessExplained
PROPERTIES
  HubKeepsUp
CHECK_DEADLOCK FALSE

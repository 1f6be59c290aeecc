\* One record and one SIGTERM; nothing else goes wrong.
SPECIFICATION FairSpec
CONSTANTS
  Submissions = {s}
  Malformed = malformed
  Members = {m1}
  NoMember = none
  Clients = {}
  MaxEvents = 1
  MaxAttempts = 3
  MaxTroubles = 0
  MaxUpsets = 1
  CanCrash = FALSE
  RegCap = 1
  MsgCap = 1
  SendCap = 1
PROPERTIES
  FinalFlushStores
CHECK_DEADLOCK FALSE
